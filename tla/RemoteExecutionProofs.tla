----------------------- MODULE RemoteExecutionProofs -----------------------
(***************************************************************************)
(* Theorems about RemoteExecution, for every set of connections, jobs and  *)
(* resets.                                                                 *)
(***************************************************************************)
EXTENDS RemoteExecution, SequenceTheorems, TLAPS

-----------------------------------------------------------------------------
(* Type correctness.                                                       *)

LEMMA InitTypeOK == Init => TypeOK
  BY HubAssumption, CliAssumption
     DEF Init, HubInit, CliInit, TypeOK, HubTypeOK, CliTypeOK, ResetTypeOK, ConnTypeOK,
         SendTypeOK, TableTypeOK, CallTypeOK, WireTypeOK, Frames, Phases

\* A group of variables that a step leaves alone keeps its type.
LEMMA Untouched ==
  /\ ResetTypeOK /\ UNCHANGED resetVars => ResetTypeOK'
  /\ ConnTypeOK /\ UNCHANGED connVars => ConnTypeOK'
  /\ SendTypeOK /\ UNCHANGED sendVars => SendTypeOK'
  /\ TableTypeOK /\ UNCHANGED tableVars => TableTypeOK'
  /\ CallTypeOK /\ UNCHANGED callVars => CallTypeOK'
  /\ WireTypeOK /\ UNCHANGED wireVars => WireTypeOK'
  /\ CliTypeOK /\ UNCHANGED cliVars => CliTypeOK'
  BY DEF ResetTypeOK, ConnTypeOK, SendTypeOK, TableTypeOK, CallTypeOK, WireTypeOK,
         CliTypeOK, resetVars, connVars, sendVars, tableVars, callVars, wireVars, cliVars

\* The steps of a connection's goroutines keep the types.
LEMMA ConnStepTypeOK ==
  ASSUME TypeOK, NEW c \in Conns, ConnStep(c), UNCHANGED cliVars
  PROVE  TypeOK'
<1> USE Untouched DEF TypeOK, HubTypeOK
<1>1. CASE ServeWS(c)
  <2>1. ConnTypeOK' /\ WireTypeOK'
    BY <1>1, HubAssumption
       DEF ServeWS, ConnTypeOK, WireTypeOK, ResetTypeOK, resetVars, Phases
  <2>2. QED BY <1>1, <2>1 DEF ServeWS, sendVars, tableVars, callVars
<1>2. CASE Register(c)
  <2>1. ConnTypeOK' /\ SendTypeOK'
    BY <1>2 DEF Register, ConnTypeOK, SendTypeOK, Phases
  <2>2. QED BY <1>2, <2>1 DEF Register
<1>3. CASE RegisterFails(c)
  <2>1. ConnTypeOK'
    BY <1>3 DEF RegisterFails, ConnTypeOK, Phases
  <2>2. QED BY <1>3, <2>1 DEF RegisterFails
<1>4. CASE ReadResult(c)
  <2> DEFINE frame == Head(toServer[c])
  <2>1. toServer[c] \in Seq(Frames) /\ toServer[c] # <<>>
    BY <1>4 DEF ReadResult, WireTypeOK
  <2>2. frame \in Frames /\ Tail(toServer[c]) \in Seq(Frames)
    BY <2>1, HeadTailProperties
  <2>3. WireTypeOK'
    BY <1>4, <2>2 DEF ReadResult, WireTypeOK
  <2>4. frame.job \in Jobs /\ frame.result \in Answers
    BY <2>2 DEF Frames, Answers
  <2>5. ({frame.job} \cap jobs) \X {frame.result} \in SUBSET (Jobs \X Answers)
    BY <2>4
  <2>6. TableTypeOK'
    BY <1>4, <2>5 DEF ReadResult, TableTypeOK, HoldAnswer, RemoveFromTable
  <2>7. QED BY <1>4, <2>3, <2>6 DEF ReadResult
<1>5. CASE HandOver(c)
  <2>1. TableTypeOK'
    BY <1>5 DEF HandOver, TableTypeOK
  <2>2. QED BY <1>5, <2>1 DEF HandOver
<1>6. CASE ReadFails(c)
  <2>1. ConnTypeOK'
    BY <1>6 DEF ReadFails, Close, ConnTypeOK, Phases
  <2>2. QED BY <1>6, <2>1 DEF ReadFails
<1>7. CASE Unregister(c)
  <2>1. ConnTypeOK'
    BY <1>7 DEF Unregister, ConnTypeOK, Phases
  <2>2. Orphaned(c) \X {"disconnected"} \in SUBSET (Jobs \X Answers)
    BY DEF Orphaned, TableTypeOK, Answers
  <2>3. TableTypeOK'
    BY <1>7, <2>2 DEF Unregister, TableTypeOK, HoldAnswer, RemoveFromTable
  <2>4. QED BY <1>7, <2>1, <2>3 DEF Unregister
<1>8. CASE Write(c)
  <2>1. send[c] \in Seq(Jobs) /\ send[c] # <<>> /\ toRunner[c] \in Seq(Jobs)
    BY <1>8 DEF Write, SendTypeOK, WireTypeOK
  <2>2. /\ Head(send[c]) \in Jobs
        /\ Tail(send[c]) \in Seq(Jobs)
        /\ Len(Tail(send[c])) = Len(send[c]) - 1
    BY <2>1, HeadTailProperties
  <2>3. Append(toRunner[c], Head(send[c])) \in Seq(Jobs)
    BY <2>1, <2>2, AppendProperties
  <2>4. Len(Tail(send[c])) <= SendCap
    BY <2>1, <2>2, HubAssumption, LenProperties DEF SendTypeOK
  <2>5. SendTypeOK'
    BY <1>8, <2>2, <2>4 DEF Write, SendTypeOK
  <2>6. WireTypeOK'
    BY <1>8, <2>3 DEF Write, WireTypeOK
  <2>7. QED BY <1>8, <2>5, <2>6 DEF Write
<1>9. CASE WriteFails(c)
  <2>1. send[c] \in Seq(Jobs) /\ send[c] # <<>>
    BY <1>9 DEF WriteFails, SendTypeOK
  <2>2. Tail(send[c]) \in Seq(Jobs) /\ Len(Tail(send[c])) = Len(send[c]) - 1
    BY <2>1, HeadTailProperties
  <2>3. Len(Tail(send[c])) <= SendCap
    BY <2>1, <2>2, HubAssumption, LenProperties DEF SendTypeOK
  <2>4. SendTypeOK'
    BY <1>9, <2>2, <2>3 DEF WriteFails, SendTypeOK
  <2>5. ConnTypeOK'
    BY <1>9 DEF WriteFails, Close, ConnTypeOK
  <2>6. QED BY <1>9, <2>4, <2>5 DEF WriteFails
<1>10. CASE WriterStops(c)
  <2>1. SendTypeOK'
    BY <1>10 DEF WriterStops, SendTypeOK
  <2>2. QED BY <1>10, <2>1 DEF WriterStops
<1>11. QED
  BY <1>1, <1>2, <1>3, <1>4, <1>5, <1>6, <1>7, <1>8, <1>9, <1>10 DEF ConnStep

\* The steps of a Dispatch keep the types.
LEMMA DispatchStepTypeOK ==
  ASSUME TypeOK, NEW j \in Jobs, DispatchStep(j), UNCHANGED cliVars
  PROVE  TypeOK'
<1> USE Untouched DEF TypeOK, HubTypeOK
<1>1. CASE NotConnected(j) \/ Unsupported(j)
  <2>1. CallTypeOK'
    BY <1>1 DEF NotConnected, Unsupported, Refuse, CallTypeOK
  <2>2. QED BY <1>1, <2>1 DEF NotConnected, Unsupported, Refuse
<1>2. CASE Pick(j)
  <2>1. CallTypeOK'
    BY <1>2 DEF Pick, Eligible, conns, CallTypeOK
  <2>2. QED BY <1>2, <2>1 DEF Pick
<1>3. CASE Enter(j)
  <2>1. CallTypeOK' /\ TableTypeOK'
    BY <1>3 DEF Enter, CallTypeOK, TableTypeOK
  <2>2. QED BY <1>3, <2>1 DEF Enter
<1>4. CASE Send(j)
  <2> DEFINE c == picked[j]
  <2>1. c \in Conns /\ send[c] \in Seq(Jobs) /\ Len(send[c]) < SendCap
    BY <1>4 DEF Send, HasRoom, CallTypeOK, SendTypeOK
  <2>2. Append(send[c], j) \in Seq(Jobs) /\ Len(Append(send[c], j)) = Len(send[c]) + 1
    BY <2>1, AppendProperties
  <2>3. Len(Append(send[c], j)) <= SendCap
    BY <2>1, <2>2, HubAssumption, LenProperties
  <2>4. SendTypeOK'
    BY <1>4, <2>1, <2>2, <2>3 DEF Send, SendTypeOK
  <2>5. CallTypeOK'
    BY <1>4 DEF Send, CallTypeOK
  <2>6. QED BY <1>4, <2>4, <2>5 DEF Send
<1>5. CASE SendRefused(j) \/ Cancelled(j) \/ TimedOut(j)
  <2>1. CallTypeOK' /\ TableTypeOK'
    BY <1>5 DEF SendRefused, Cancelled, TimedOut, Return, CallTypeOK, TableTypeOK
  <2>2. QED BY <1>5, <2>1 DEF SendRefused, Cancelled, TimedOut, Return
<1>6. CASE Answered(j)
  <2>1. reply[j] \in Answers
    BY <1>6 DEF Answered, TableTypeOK
  <2>2. CallTypeOK' /\ TableTypeOK'
    BY <1>6, <2>1 DEF Answered, Return, CallTypeOK, TableTypeOK
  <2>3. QED BY <1>6, <2>2 DEF Answered, Return
<1>7. CASE Leave(j)
  <2>1. CallTypeOK' /\ TableTypeOK'
    BY <1>7 DEF Leave, RemoveFromTable, CallTypeOK, TableTypeOK
  <2>2. QED BY <1>7, <2>1 DEF Leave
<1>8. QED
  BY <1>1, <1>2, <1>3, <1>4, <1>5, <1>6, <1>7 DEF DispatchStep

\* The steps of a token reset keep the types.
LEMMA ResetStepTypeOK ==
  ASSUME TypeOK, NEW r \in Resets, ResetStep(r), UNCHANGED cliVars
  PROVE  TypeOK'
<1> USE Untouched DEF TypeOK, HubTypeOK
<1>1. CASE ResetRunnerToken(r)
  <2>1. ResetTypeOK'
    BY <1>1 DEF ResetRunnerToken, ResetTypeOK
  <2>2. QED BY <1>1, <2>1 DEF ResetRunnerToken
<1>2. CASE CollectConns(r)
  <2>1. ResetTypeOK'
    BY <1>2 DEF CollectConns, conns, ResetTypeOK
  <2>2. QED BY <1>2, <2>1 DEF CollectConns
<1>3. CASE CloseConn(r)
  <2>1. ResetTypeOK' /\ ConnTypeOK'
    BY <1>3 DEF CloseConn, Close, ResetTypeOK, ConnTypeOK
  <2>2. QED BY <1>3, <2>1 DEF CloseConn
<1>4. QED BY <1>1, <1>2, <1>3 DEF ResetStep

\* The steps of the runner process keep the types.
LEMMA CliStepTypeOK ==
  ASSUME TypeOK, NEW c \in Conns, CliStep(c)
  PROVE  TypeOK'
<1> USE Untouched DEF TypeOK, HubTypeOK, hubVars
<1>1. CASE ReadJob(c)
  <2>1. toRunner[c] \in Seq(Jobs) /\ toRunner[c] # <<>>
    BY <1>1 DEF ReadJob, WireTypeOK
  <2>2. Head(toRunner[c]) \in Jobs /\ Tail(toRunner[c]) \in Seq(Jobs)
    BY <2>1, HeadTailProperties
  <2>3. CliTypeOK' /\ WireTypeOK'
    BY <1>1, <2>2 DEF ReadJob, CliTypeOK, WireTypeOK
  <2>4. QED BY <1>1, <2>3 DEF ReadJob
<1>2. CASE StartJob(c)
  <2>1. CliTypeOK'
    BY <1>2 DEF StartJob, CliTypeOK
  <2>2. QED BY <1>2, <2>1 DEF StartJob
<1>3. ASSUME NEW j \in Jobs, NEW result \in Results, FinishJob(c, j, result)
      PROVE  TypeOK'
  <2>1. toServer[c] \in Seq(Frames) /\ [job |-> j, result |-> result] \in Frames
    BY DEF WireTypeOK, Frames
  <2>2. Append(toServer[c], [job |-> j, result |-> result]) \in Seq(Frames)
    BY <2>1, AppendProperties
  <2>3. CliTypeOK' /\ WireTypeOK'
    BY <1>3, <2>2 DEF FinishJob, CliTypeOK, WireTypeOK
  <2>4. QED BY <1>3, <2>3 DEF FinishJob
<1>4. ASSUME NEW j \in Jobs, DiscardResult(c, j)
      PROVE  TypeOK'
  <2>1. CliTypeOK'
    BY <1>4 DEF DiscardResult, CliTypeOK
  <2>2. QED BY <1>4, <2>1 DEF DiscardResult
<1>5. CASE DropLink(c)
  <2>1. WireTypeOK'
    BY <1>5 DEF DropLink, WireTypeOK
  <2>2. QED BY <1>5, <2>1 DEF DropLink
<1>6. CASE RunnerExits(c)
  <2>1. CliTypeOK' /\ WireTypeOK'
    BY <1>6 DEF RunnerExits, CliTypeOK, WireTypeOK
  <2>2. QED BY <1>6, <2>1 DEF RunnerExits
<1>7. QED BY <1>1, <1>2, <1>3, <1>4, <1>5, <1>6 DEF CliStep

LEMMA NextTypeOK == TypeOK /\ [Next]_vars => TypeOK'
<1> SUFFICES ASSUME TypeOK, [Next]_vars PROVE TypeOK'
  OBVIOUS
<1>1. CASE UNCHANGED vars
  BY <1>1, Untouched DEF vars, hubVars, TypeOK, HubTypeOK
<1>2. CASE Next
  BY <1>2, ConnStepTypeOK, DispatchStepTypeOK, ResetStepTypeOK, CliStepTypeOK
     DEF Next, HubNext
<1>3. QED BY <1>1, <1>2

\* Type correctness, which includes that no send channel holds more than its
\* capacity and that a Dispatch selects on a connection it has picked.
THEOREM TypeCorrect == Spec => []TypeOK
  BY InitTypeOK, NextTypeOK, PTL DEF Spec

-----------------------------------------------------------------------------
(* The table of pending jobs.                                              *)

\* SingleAnswer strengthened to an inductive invariant.  A job that is not sent
\* yet has left no trace, a job that is being sent can be answered already, and
\* unregister starts with no answer of readLoop in its hands.
Held(j) == \E c \in Conns, a \in Answers : <<j, a>> \in handoff[c]

Fresh == \A j \in Jobs : pc[j] \in {"idle", "picked"} =>
           j \notin jobs /\ reply[j] = "none" /\ ~Held(j)

Tracked == \A j \in Jobs : pc[j] \in {"sending", "waiting"} =>
             j \in jobs \/ reply[j] # "none" \/ Held(j)

ClosingHoldsNothing == \A c \in Conns : phase[c] = "closing" => handoff[c] = {}

TableInv == SingleAnswer /\ Fresh /\ Tracked /\ ClosingHoldsNothing

LEMMA InitTableInv == Init => TableInv
  BY DEF Init, HubInit, TableInv, SingleAnswer, Fresh, Tracked, ClosingHoldsNothing, Held

\* A step that leaves the table, the answers and the calls' progress alone.
LEMMA TableUntouched ==
  ASSUME TableInv, UNCHANGED <<tableVars, pc>>,
         \A c \in Conns : phase'[c] = "closing" => phase[c] = "closing" \/ handoff[c] = {}
  PROVE  TableInv'
  BY DEF TableInv, SingleAnswer, Fresh, Tracked, ClosingHoldsNothing, Held, tableVars

\* The steps of a connection's goroutines: an answer is taken off the table
\* before anybody holds it, and every holder is alone.
LEMMA ConnStepTable ==
  ASSUME TypeOK, TableInv, NEW c \in Conns, ConnStep(c)
  PROVE  TableInv'
<1>1. CASE ServeWS(c) \/ Register(c) \/ RegisterFails(c) \/ ReadFails(c)
           \/ Write(c) \/ WriteFails(c) \/ WriterStops(c)
  <2>1. UNCHANGED <<tableVars, pc>>
    BY <1>1 DEF ServeWS, Register, RegisterFails, ReadFails, Write, WriteFails,
                WriterStops, callVars
  <2>2. ASSUME NEW d \in Conns, phase'[d] = "closing"
        PROVE  phase[d] = "closing" \/ handoff[d] = {}
    BY <1>1, <2>2 DEF ServeWS, Register, RegisterFails, ReadFails, Write, WriteFails,
                      WriterStops, connVars, TypeOK, HubTypeOK, ConnTypeOK
  <2>3. QED BY <2>1, <2>2, TableUntouched
<1>2. CASE ReadResult(c) \/ Unregister(c)
  <2>1. PICK S \in SUBSET jobs, a \in Answers : HoldAnswer(c, S, a) /\ RemoveFromTable(S)
    <3>1. CASE ReadResult(c)
      <4> DEFINE frame == Head(toServer[c])
      <4>1. toServer[c] \in Seq(Frames) /\ toServer[c] # <<>>
        BY <3>1 DEF ReadResult, TypeOK, HubTypeOK, WireTypeOK
      <4>2. frame \in Frames
        BY <4>1, HeadTailProperties
      <4>3. frame.result \in Answers
        BY <4>2 DEF Frames, Answers
      <4>4. jobs \ {frame.job} = jobs \ ({frame.job} \cap jobs)
        OBVIOUS
      <4>5. ({frame.job} \cap jobs) \in SUBSET jobs
        OBVIOUS
      <4>6. QED BY <3>1, <4>3, <4>4, <4>5 DEF ReadResult, RemoveFromTable
    <3>2. CASE Unregister(c)
      BY <3>2 DEF Unregister, Orphaned, Answers
    <3>3. QED BY <1>2, <3>1, <3>2
  <2>2. handoff[c] = {} /\ UNCHANGED <<reply, pc>>
    BY <1>2 DEF ReadResult, Unregister, TableInv, ClosingHoldsNothing, callVars
  <2>3. phase'[c] # "closing" /\ \A d \in Conns \ {c} : phase'[d] = phase[d]
    BY <1>2 DEF ReadResult, Unregister, connVars, TypeOK, HubTypeOK, ConnTypeOK
  <2>4. /\ handoff'[c] = S \X {a}
        /\ \A d \in Conns \ {c} : handoff'[d] = handoff[d]
        /\ jobs' = jobs \ S
    BY <2>1 DEF HoldAnswer, RemoveFromTable, TypeOK, HubTypeOK, TableTypeOK
  <2>5. S \subseteq Jobs
    BY DEF TypeOK, HubTypeOK, TableTypeOK
  <2>6. SingleAnswer'
    BY <2>2, <2>4, <2>5 DEF TableInv, SingleAnswer
  <2>7. Fresh'
    BY <2>2, <2>4, <2>5 DEF TableInv, Fresh, Held
  <2>8. Tracked'
    BY <2>2, <2>4, <2>5 DEF TableInv, Tracked, Held
  <2>9. ClosingHoldsNothing'
    BY <2>3, <2>4 DEF TableInv, ClosingHoldsNothing
  <2>10. QED BY <2>6, <2>7, <2>8, <2>9 DEF TableInv
<1>3. CASE HandOver(c)
  <2>1. PICK j \in Jobs, a \in Answers :
          /\ <<j, a>> \in handoff[c]
          /\ reply[j] = "none"
          /\ reply' = [reply EXCEPT ![j] = a]
          /\ handoff' = [handoff EXCEPT ![c] = @ \ {<<j, a>>}]
    <3>1. handoff[c] \subseteq Jobs \X Answers
      BY DEF TypeOK, HubTypeOK, TableTypeOK
    <3>2. PICK answer \in handoff[c] :
            /\ reply[answer[1]] = "none"
            /\ reply' = [reply EXCEPT ![answer[1]] = answer[2]]
            /\ handoff' = [handoff EXCEPT ![c] = @ \ {answer}]
      BY <1>3 DEF HandOver
    <3>3. answer[1] \in Jobs /\ answer[2] \in Answers /\ answer = <<answer[1], answer[2]>>
      BY <3>1
    <3>4. QED BY <3>2, <3>3
  <2>2. UNCHANGED <<jobs, pc, phase>>
    BY <1>3 DEF HandOver, callVars, connVars
  <2>3. /\ handoff'[c] = handoff[c] \ {<<j, a>>}
        /\ \A d \in Conns \ {c} : handoff'[d] = handoff[d]
        /\ reply'[j] = a
        /\ \A k \in Jobs \ {j} : reply'[k] = reply[k]
    BY <2>1 DEF TypeOK, HubTypeOK, TableTypeOK
  <2>4. j \notin jobs /\ \A d \in Conns, b \in Answers : <<j, b>> \notin handoff'[d]
    BY <2>1, <2>3 DEF TableInv, SingleAnswer
  <2>5. SingleAnswer'
    BY <2>2, <2>3, <2>4 DEF TableInv, SingleAnswer
  <2>6. Fresh'
    BY <2>1, <2>2, <2>3, <2>4 DEF TableInv, Fresh, Held
  <2>7. Tracked'
    BY <2>1, <2>2, <2>3 DEF TableInv, Tracked, Held, Answers, Results
  <2>8. ClosingHoldsNothing'
    BY <2>2, <2>3 DEF TableInv, ClosingHoldsNothing
  <2>9. QED BY <2>5, <2>6, <2>7, <2>8 DEF TableInv
<1>4. QED BY <1>1, <1>2, <1>3 DEF ConnStep

\* The steps of a Dispatch: it enters the table once, before it can be sent,
\* and what it leaves behind when it stops waiting is still answered once.
LEMMA DispatchStepTable ==
  ASSUME TypeOK, TableInv, NEW j \in Jobs, DispatchStep(j)
  PROVE  TableInv'
<1>1. UNCHANGED <<handoff, phase>>
  BY DEF DispatchStep, NotConnected, Unsupported, Refuse, Pick, Enter, Send, SendRefused,
         Cancelled, Answered, TimedOut, Return, Leave, tableVars, connVars
<1>2. ClosingHoldsNothing'
  BY <1>1 DEF TableInv, ClosingHoldsNothing
<1>3. pc \in [Jobs -> {"idle", "picked", "sending", "waiting", "leaving", "done"}]
  BY DEF TypeOK, HubTypeOK, CallTypeOK
<1>4. CASE NotConnected(j) \/ Unsupported(j) \/ Pick(j) \/ Send(j)
  <2>1. /\ UNCHANGED <<jobs, reply>>
        /\ \/ pc[j] = "idle" /\ pc'[j] \in {"picked", "done"}
           \/ pc[j] = "sending" /\ pc'[j] = "waiting"
        /\ \A k \in Jobs \ {j} : pc'[k] = pc[k]
    BY <1>3, <1>4 DEF NotConnected, Unsupported, Refuse, Pick, Send, tableVars
  <2>2. SingleAnswer'
    BY <1>1, <2>1 DEF TableInv, SingleAnswer
  <2>3. Fresh' /\ Tracked'
    BY <1>1, <2>1 DEF TableInv, Fresh, Tracked, Held
  <2>4. QED BY <1>2, <2>2, <2>3 DEF TableInv
<1>5. CASE Enter(j)
  <2>1. /\ jobs' = jobs \cup {j} /\ UNCHANGED reply
        /\ pc[j] = "picked" /\ pc'[j] = "sending"
        /\ \A k \in Jobs \ {j} : pc'[k] = pc[k]
    BY <1>3, <1>5 DEF Enter
  <2>2. reply[j] = "none" /\ \A c \in Conns, a \in Answers : <<j, a>> \notin handoff[c]
    BY <2>1 DEF TableInv, Fresh, Held
  <2>3. SingleAnswer'
    BY <1>1, <2>1, <2>2 DEF TableInv, SingleAnswer
  <2>4. Fresh' /\ Tracked'
    BY <1>1, <2>1 DEF TableInv, Fresh, Tracked, Held
  <2>5. QED BY <1>2, <2>3, <2>4 DEF TableInv
<1>6. CASE SendRefused(j) \/ Cancelled(j) \/ TimedOut(j) \/ Answered(j)
  <2>1. /\ UNCHANGED jobs
        /\ pc[j] \in {"sending", "waiting"} /\ pc'[j] = "leaving"
        /\ \A k \in Jobs \ {j} : pc'[k] = pc[k]
    BY <1>3, <1>6 DEF SendRefused, Cancelled, TimedOut, Answered, Return
  <2>2. /\ \A k \in Jobs \ {j} : reply'[k] = reply[k]
        /\ reply'[j] = reply[j] \/ reply'[j] = "none"
    BY <1>6 DEF SendRefused, Cancelled, TimedOut, Answered, TypeOK, HubTypeOK, TableTypeOK
  <2>3. SingleAnswer'
    BY <1>1, <2>1, <2>2 DEF TableInv, SingleAnswer
  <2>4. Fresh' /\ Tracked'
    BY <1>1, <2>1, <2>2 DEF TableInv, Fresh, Tracked, Held
  <2>5. QED BY <1>2, <2>3, <2>4 DEF TableInv
<1>7. CASE Leave(j)
  <2>1. /\ jobs' = jobs \ {j} /\ UNCHANGED reply
        /\ pc[j] = "leaving" /\ pc'[j] = "done"
        /\ \A k \in Jobs \ {j} : pc'[k] = pc[k]
    BY <1>3, <1>7 DEF Leave, RemoveFromTable
  <2>2. SingleAnswer'
    BY <1>1, <2>1 DEF TableInv, SingleAnswer
  <2>3. Fresh' /\ Tracked'
    BY <1>1, <2>1 DEF TableInv, Fresh, Tracked, Held
  <2>4. QED BY <1>2, <2>2, <2>3 DEF TableInv
<1>8. QED BY <1>4, <1>5, <1>6, <1>7 DEF DispatchStep

LEMMA NextTableInv == TypeOK /\ TableInv /\ [Next]_vars => TableInv'
<1> SUFFICES ASSUME TypeOK, TableInv, [Next]_vars PROVE TableInv'
  OBVIOUS
<1>1. CASE UNCHANGED vars
  BY <1>1, TableUntouched DEF vars, hubVars, tableVars, callVars, connVars
<1>2. ASSUME NEW c \in Conns, ConnStep(c) PROVE TableInv'
  BY <1>2, ConnStepTable
<1>3. ASSUME NEW j \in Jobs, DispatchStep(j) PROVE TableInv'
  BY <1>3, DispatchStepTable
<1>4. ASSUME NEW r \in Resets, ResetStep(r) PROVE TableInv'
  BY <1>4, TableUntouched
     DEF ResetStep, ResetRunnerToken, CollectConns, CloseConn, tableVars, callVars, connVars
<1>5. ASSUME NEW c \in Conns, CliStep(c) PROVE TableInv'
  BY <1>5, TableUntouched
     DEF CliStep, ReadJob, StartJob, FinishJob, DiscardResult, DropLink, RunnerExits,
         hubVars, tableVars, callVars, connVars
<1>6. QED BY <1>1, <1>2, <1>3, <1>4, <1>5 DEF Next, HubNext

LEMMA TableInvariant == Spec => []TableInv
  BY InitTypeOK, NextTypeOK, InitTableInv, NextTableInv, PTL DEF Spec

\* Whatever dispatch, results, drops and timers do to each other, a pending
\* job is answered by one party at most, and that party never blocks.
THEOREM AnsweredOnce == Spec => []SingleAnswer
<1>1. TableInv => SingleAnswer
  BY DEF TableInv
<1>2. QED BY <1>1, TableInvariant, PTL

\* A waiting Dispatch can always still be answered or has an answer already.
THEOREM AnswersKept == Spec => []NoLostAnswer
<1>1. TableInv => NoLostAnswer
  BY DEF TableInv, Tracked, Held, NoLostAnswer
<1>2. QED BY <1>1, TableInvariant, PTL
-----------------------------------------------------------------------------
(***************************************************************************)
(* Where a job is and what it says of its execution: on its way to a       *)
(* runner a job is in one place only, on the connection that its Dispatch  *)
(* picked.                                                                 *)
(***************************************************************************)

(* Sequences.                                                              *)

Has(seq, x) == \E i \in 1 .. Len(seq) : seq[i] = x

Distinct(seq) == \A i, k \in 1 .. Len(seq) : seq[i] = seq[k] => i = k

\* The first element of a queue of distinct ones is not among the others.
LEMMA TakeFirst ==
  ASSUME NEW S, NEW seq \in Seq(S), seq # <<>>
  PROVE  /\ Head(seq) \in S /\ Has(seq, Head(seq))
         /\ Tail(seq) \in Seq(S)
         /\ \A x : Has(Tail(seq), x) => Has(seq, x)
         /\ Distinct(seq) => Distinct(Tail(seq)) /\ ~Has(Tail(seq), Head(seq))
<1>1. /\ Len(seq) \in Nat /\ Len(seq) > 0
      /\ Tail(seq) \in Seq(S) /\ Len(Tail(seq)) = Len(seq) - 1
      /\ \A i \in 1 .. Len(Tail(seq)) : Tail(seq)[i] = seq[i + 1]
  BY HeadTailProperties
<1>2. Head(seq) = seq[1] /\ Head(seq) \in S
  BY HeadTailProperties
<1>3. \A i \in 1 .. Len(Tail(seq)) : i + 1 \in 1 .. Len(seq) /\ i + 1 # 1
  BY <1>1
<1>4. 1 \in 1 .. Len(seq)
  BY <1>1
<1>5. Has(seq, Head(seq)) /\ \A x : Has(Tail(seq), x) => Has(seq, x)
  BY <1>1, <1>2, <1>3, <1>4 DEF Has
<1>6. ASSUME Distinct(seq) PROVE Distinct(Tail(seq)) /\ ~Has(Tail(seq), Head(seq))
  BY <1>1, <1>2, <1>3, <1>4, <1>6 DEF Distinct, Has
<1>. QED  BY <1>1, <1>2, <1>5, <1>6

\* A new element at the end of a queue of distinct ones.
LEMMA PutLast ==
  ASSUME NEW S, NEW seq \in Seq(S), NEW y \in S
  PROVE  /\ \A x : Has(Append(seq, y), x) <=> Has(seq, x) \/ x = y
         /\ Distinct(seq) /\ ~Has(seq, y) => Distinct(Append(seq, y))
<1>1. /\ Len(seq) \in Nat /\ Len(Append(seq, y)) = Len(seq) + 1
      /\ \A i \in 1 .. Len(seq) : Append(seq, y)[i] = seq[i]
      /\ Append(seq, y)[Len(seq) + 1] = y
  BY AppendProperties, LenProperties
<1>2. 1 .. (Len(seq) + 1) = (1 .. Len(seq)) \cup {Len(seq) + 1} /\ Len(seq) + 1 \notin 1 .. Len(seq)
  BY <1>1
<1>3. \A x : Has(Append(seq, y), x) <=> Has(seq, x) \/ x = y
  BY <1>1, <1>2 DEF Has
<1>4. ASSUME Distinct(seq), ~Has(seq, y) PROVE Distinct(Append(seq, y))
  BY <1>1, <1>2, <1>4 DEF Distinct, Has
<1>. QED  BY <1>3, <1>4

-----------------------------------------------------------------------------
(* The way of a job.                                                       *)

Fits(c, j) ==
  ConnDb[c] = JobDb[j] /\ HelloName[c] = JobRunner[j] /\ JobType[j] \in HelloTypes[c]

\* Dispatch picked a connection that fits.
PickFits == \A j \in Jobs : picked[j] \in Conns => Fits(picked[j], j)

Unsent == {"idle", "picked", "sending"}
Refusals == {"not connected", "unsupported"}

\* The job has left Dispatch, was not refused, and Dispatch picked c for it.
SentOn(c, j) == picked[j] = c /\ pc[j] \notin Unsent /\ outcome[j] \notin Refusals

Waits(c, j) == Has(send[c], j) \/ Has(toRunner[c], j) \/ held[c] = j

\* A job that waits for a slot was not executed yet.
WaitsOnce ==
  \A c \in Conns, j \in Jobs : Waits(c, j) => SentOn(c, j) /\ executions[j] = 0

\* It waits in one place.
Apart ==
  \A c \in Conns :
    /\ Distinct(send[c]) /\ Distinct(toRunner[c])
    /\ \A j \in Jobs : /\ ~(Has(send[c], j) /\ Has(toRunner[c], j))
                       /\ held[c] = j => ~Has(send[c], j) /\ ~Has(toRunner[c], j)

RunsOnce ==
  \A c \in Conns, j \in Jobs : j \in running[c] => SentOn(c, j) /\ executions[j] = 1

Executed ==
  \A j \in Jobs :
    /\ executions[j] \in {0, 1}
    /\ executions[j] = 1 => pc[j] \notin Unsent /\ outcome[j] \notin Refusals
    /\ pc[j] \in Unsent \cup {"waiting"} => outcome[j] = "none"

RouteInv == PickFits /\ WaitsOnce /\ Apart /\ RunsOnce /\ Executed

LEMMA InitRoute == Init => RouteInv
<1> SUFFICES ASSUME Init PROVE RouteInv
  OBVIOUS
<1>1. \A c \in Conns : Len(send[c]) = 0 /\ Len(toRunner[c]) = 0 /\ held[c] = NoJob /\ running[c] = {}
  BY DEF Init, HubInit, CliInit
<1>2. \A c \in Conns, j \in Jobs : ~Waits(c, j)
  BY <1>1, CliAssumption DEF Waits, Has
<1>3. Apart
  BY <1>1, <1>2, CliAssumption DEF Apart, Distinct, Waits
<1>4. PickFits /\ RunsOnce /\ Executed
  BY <1>1, HubAssumption DEF Init, HubInit, CliInit, PickFits, RunsOnce, Executed, Unsent, Refusals
<1>. QED  BY <1>2, <1>3, <1>4 DEF RouteInv, WaitsOnce

\* What the way of jobs depends on.
wayVars == <<send, toRunner, held, running, executions, pc, picked, outcome>>

LEMMA RouteUntouched ==
  ASSUME RouteInv, UNCHANGED wayVars
  PROVE  RouteInv'
  BY DEF RouteInv, wayVars, PickFits, WaitsOnce, Waits, SentOn, Apart, RunsOnce, Executed

\* A Dispatch moves on: what was sent stays sent, and is not refused.
LEMMA DispatchRoute ==
  ASSUME TypeOK, TableInv, RouteInv, NEW j \in Jobs, DispatchStep(j), UNCHANGED cliVars
  PROVE  RouteInv'
<1>0. /\ pc \in [Jobs -> {"idle", "picked", "sending", "waiting", "leaving", "done"}]
      /\ picked \in [Jobs -> Conns \cup {NoConn}]
      /\ outcome \in [Jobs -> Answers \cup {"none", "not connected", "unsupported",
                                            "timeout", "cancelled"}]
      /\ send \in [Conns -> Seq(Jobs)]
      /\ reply \in [Jobs -> Answers \cup {"none"}]
      /\ pc[j] \in {"picked", "sending", "waiting"} => picked[j] \in Conns
  BY DEF TypeOK, HubTypeOK, CliTypeOK, CallTypeOK, SendTypeOK, TableTypeOK
<1>1. UNCHANGED <<toRunner, held, running, executions>>
  BY DEF DispatchStep, NotConnected, Unsupported, Refuse, Pick, Enter, Send, SendRefused,
         Cancelled, Answered, TimedOut, Return, Leave, wireVars, cliVars
<1>2. \A c \in Conns : pc[j] \in Unsent => ~Waits(c, j) /\ j \notin running[c]
  BY DEF RouteInv, WaitsOnce, RunsOnce, SentOn
<1>3. pc[j] \in Unsent => executions[j] = 0
  BY DEF RouteInv, Executed
<1>4. CASE NotConnected(j) \/ Unsupported(j)
  <2>1. /\ UNCHANGED <<send, picked>> /\ pc[j] \in Unsent
        /\ pc'[j] = "done" /\ \A k \in Jobs \ {j} : pc'[k] = pc[k] /\ outcome'[k] = outcome[k]
    BY <1>0, <1>4 DEF NotConnected, Unsupported, Refuse, sendVars, Unsent
  <2>2. /\ WaitsOnce'
        /\ Apart'
        /\ RunsOnce'
    <3>1. WaitsOnce'
      BY <1>1, <1>2, <2>1 DEF RouteInv, WaitsOnce, Waits, SentOn, Unsent
    <3>2. Apart'
      BY <1>1, <1>2, <2>1 DEF RouteInv, Apart
    <3>3. RunsOnce'
      BY <1>0, <1>1, <1>2, <2>1 DEF RouteInv, RunsOnce, SentOn, Unsent
    <3>. QED  BY <3>1, <3>2, <3>3
  <2>3. PickFits' /\ Executed'
    BY <1>1, <1>3, <2>1 DEF RouteInv, PickFits, Executed, Unsent
  <2>. QED  BY <2>2, <2>3 DEF RouteInv
<1>5. CASE Pick(j)
  <2>1. PICK c \in Conns : Fits(c, j) /\ picked' = [picked EXCEPT ![j] = c]
    BY <1>5 DEF Pick, Eligible, conns, Supports, Fits
  <2>2. /\ UNCHANGED <<send, outcome>> /\ pc[j] = "idle" /\ pc'[j] = "picked"
        /\ \A k \in Jobs \ {j} : pc'[k] = pc[k] /\ picked'[k] = picked[k]
        /\ picked'[j] = c
    BY <1>0, <1>5, <2>1 DEF Pick, sendVars
  <2>3. /\ WaitsOnce'
        /\ Apart'
        /\ RunsOnce'
    <3>1. WaitsOnce'
      BY <1>1, <1>2, <2>2 DEF RouteInv, WaitsOnce, Waits, SentOn, Unsent
    <3>2. Apart'
      BY <1>1, <1>2, <2>2 DEF RouteInv, Apart
    <3>3. RunsOnce'
      <4> SUFFICES ASSUME NEW d \in Conns, NEW k \in Jobs, k \in running[d]
                   PROVE  SentOn(d, k)' /\ executions'[k] = 1
        BY <1>1 DEF RunsOnce
      <4>1. k # j /\ SentOn(d, k) /\ executions[k] = 1
        BY <1>2, <2>2 DEF RouteInv, RunsOnce, Unsent
      <4>. QED  BY <1>1, <2>2, <4>1 DEF SentOn
    <3>. QED  BY <3>1, <3>2, <3>3
  <2>4. PickFits' /\ Executed'
    BY <1>1, <1>3, <2>1, <2>2 DEF RouteInv, PickFits, Executed, Unsent, Fits
  <2>. QED  BY <2>3, <2>4 DEF RouteInv
<1>6. CASE Enter(j)
  <2>1. /\ UNCHANGED <<send, outcome, picked>> /\ pc[j] = "picked" /\ pc'[j] = "sending"
        /\ \A k \in Jobs \ {j} : pc'[k] = pc[k]
    BY <1>0, <1>6 DEF Enter, sendVars
  <2>2. /\ WaitsOnce'
        /\ Apart'
        /\ RunsOnce'
    <3>1. WaitsOnce'
      BY <1>1, <1>2, <2>1 DEF RouteInv, WaitsOnce, Waits, SentOn, Unsent
    <3>2. Apart'
      BY <1>1, <1>2, <2>1 DEF RouteInv, Apart
    <3>3. RunsOnce'
      BY <1>0, <1>1, <1>2, <2>1 DEF RouteInv, RunsOnce, SentOn, Unsent
    <3>. QED  BY <3>1, <3>2, <3>3
  <2>3. PickFits' /\ Executed'
    BY <1>1, <1>3, <2>1 DEF RouteInv, PickFits, Executed, Unsent
  <2>. QED  BY <2>2, <2>3 DEF RouteInv
<1>7. CASE Send(j)
  <2> DEFINE c == picked[j]
  <2>1. /\ UNCHANGED <<picked, outcome>> /\ pc[j] = "sending" /\ pc'[j] = "waiting"
        /\ c \in Conns
        /\ send'[c] = Append(send[c], j)
        /\ \A d \in Conns \ {c} : send'[d] = send[d]
        /\ \A k \in Jobs \ {j} : pc'[k] = pc[k]
        /\ outcome[j] = "none"
    BY <1>0, <1>7 DEF Send, RouteInv, Executed, Unsent
  <2>2. /\ \A x : Has(send'[c], x) <=> Has(send[c], x) \/ x = j
        /\ Distinct(send[c]) /\ ~Has(send[c], j) => Distinct(send'[c])
    <3>1. send[c] \in Seq(Jobs)
      BY <1>0, <2>1
    <3>2. /\ \A x : Has(Append(send[c], j), x) <=> Has(send[c], x) \/ x = j
          /\ Distinct(send[c]) /\ ~Has(send[c], j) => Distinct(Append(send[c], j))
      BY <3>1, PutLast
    <3>. QED  BY <2>1, <3>2
  <2>3. \A d \in Conns : ~Waits(d, j) /\ j \notin running[d]
    BY <1>2, <2>1 DEF Unsent
  <2>4. WaitsOnce'
    <3> SUFFICES ASSUME NEW d \in Conns, NEW k \in Jobs, Waits(d, k)'
                 PROVE  SentOn(d, k)' /\ executions'[k] = 0
      BY DEF WaitsOnce
    <3>1. CASE k = j
      <4>1. d = c
        BY <1>1, <2>1, <2>3, <3>1 DEF Waits
      <4>. QED  BY <1>1, <1>3, <2>1, <3>1, <4>1 DEF SentOn, Unsent, Refusals
    <3>2. CASE k # j
      <4>1. Waits(d, k)
        BY <1>1, <2>1, <2>2, <3>2 DEF Waits
      <4>. QED  BY <1>1, <2>1, <3>2, <4>1 DEF RouteInv, WaitsOnce, SentOn
    <3>. QED  BY <3>1, <3>2
  <2>5. Apart'
    BY <1>1, <2>1, <2>2, <2>3 DEF RouteInv, Apart, Waits
  <2>6. RunsOnce'
    <3> SUFFICES ASSUME NEW d \in Conns, NEW k \in Jobs, k \in running[d]
                 PROVE  SentOn(d, k)' /\ executions'[k] = 1
      BY <1>1 DEF RunsOnce
    <3>1. k # j /\ SentOn(d, k) /\ executions[k] = 1
      BY <2>3 DEF RouteInv, RunsOnce
    <3>. QED  BY <1>1, <2>1, <3>1 DEF SentOn
  <2>7. PickFits' /\ Executed'
    BY <1>1, <1>3, <2>1 DEF RouteInv, PickFits, Executed, Unsent
  <2>. QED  BY <2>4, <2>5, <2>6, <2>7 DEF RouteInv
<1>8. CASE SendRefused(j) \/ Cancelled(j) \/ Answered(j) \/ TimedOut(j)
  <2>1. /\ UNCHANGED <<send, picked>> /\ pc'[j] = "leaving"
        /\ \A k \in Jobs \ {j} : pc'[k] = pc[k] /\ outcome'[k] = outcome[k]
        /\ pc[j] = "sending" \/ outcome'[j] \notin Refusals
    BY <1>0, <1>8 DEF SendRefused, Cancelled, Answered, TimedOut, Return, sendVars, Refusals,
                      Answers, Results
  <2>2. /\ WaitsOnce'
        /\ Apart'
        /\ RunsOnce'
    <3>1. WaitsOnce'
      BY <1>1, <1>2, <2>1 DEF RouteInv, WaitsOnce, Waits, SentOn, Unsent
    <3>2. Apart'
      BY <1>1, <1>2, <2>1 DEF RouteInv, Apart
    <3>3. RunsOnce'
      BY <1>0, <1>1, <1>2, <2>1 DEF RouteInv, RunsOnce, SentOn, Unsent
    <3>. QED  BY <3>1, <3>2, <3>3
  <2>3. PickFits' /\ Executed'
    BY <1>1, <1>3, <2>1 DEF RouteInv, PickFits, Executed, Unsent
  <2>. QED  BY <2>2, <2>3 DEF RouteInv
<1>9. CASE Leave(j)
  <2>1. /\ UNCHANGED <<send, picked, outcome>> /\ pc[j] = "leaving" /\ pc'[j] = "done"
        /\ \A k \in Jobs \ {j} : pc'[k] = pc[k]
    BY <1>0, <1>9 DEF Leave, sendVars
  <2>2. /\ WaitsOnce'
        /\ Apart'
        /\ RunsOnce'
    <3>1. WaitsOnce'
      BY <1>1, <2>1 DEF RouteInv, WaitsOnce, Waits, SentOn, Unsent
    <3>2. Apart'
      BY <1>1, <2>1 DEF RouteInv, Apart
    <3>3. RunsOnce'
      BY <1>0, <1>1, <2>1 DEF RouteInv, RunsOnce, SentOn, Unsent
    <3>. QED  BY <3>1, <3>2, <3>3
  <2>3. PickFits' /\ Executed'
    BY <1>1, <2>1 DEF RouteInv, PickFits, Executed, Unsent
  <2>. QED  BY <2>2, <2>3 DEF RouteInv
<1>. QED  BY <1>4, <1>5, <1>6, <1>7, <1>8, <1>9 DEF DispatchStep

\* The goroutines of a connection: a job goes from the channel to the wire.
LEMMA ConnRoute ==
  ASSUME TypeOK, RouteInv, NEW c \in Conns, ConnStep(c), UNCHANGED cliVars
  PROVE  RouteInv'
<1>0. /\ send \in [Conns -> Seq(Jobs)] /\ toRunner \in [Conns -> Seq(Jobs)]
  BY DEF TypeOK, HubTypeOK, SendTypeOK, WireTypeOK
<1>1. UNCHANGED <<held, running, executions, pc, picked, outcome>>
  BY DEF ConnStep, ServeWS, Register, RegisterFails, ReadResult, HandOver, ReadFails, Unregister,
         Write, WriteFails, WriterStops, callVars, cliVars
<1>2. CASE UNCHANGED <<send, toRunner>>
  BY <1>1, <1>2, RouteUntouched DEF wayVars
<1>3. CASE Write(c) \/ WriteFails(c)
  <2> DEFINE j == Head(send[c])
  <2>1. send[c] \in Seq(Jobs) /\ send[c] # <<>> /\ toRunner[c] \in Seq(Jobs)
    BY <1>0, <1>3 DEF Write, WriteFails
  <2>2. /\ j \in Jobs /\ Has(send[c], j)
        /\ \A x : Has(Tail(send[c]), x) => Has(send[c], x)
        /\ Distinct(send[c]) => Distinct(Tail(send[c])) /\ ~Has(Tail(send[c]), j)
    BY <2>1, TakeFirst
  <2>3. /\ \A x : Has(Append(toRunner[c], j), x) <=> Has(toRunner[c], x) \/ x = j
        /\ Distinct(toRunner[c]) /\ ~Has(toRunner[c], j) => Distinct(Append(toRunner[c], j))
    BY <2>1, <2>2, PutLast
  <2>4. /\ send'[c] = Tail(send[c])
        /\ \A d \in Conns \ {c} : send'[d] = send[d] /\ toRunner'[d] = toRunner[d]
        /\ toRunner'[c] = toRunner[c] \/ toRunner'[c] = Append(toRunner[c], j)
    BY <1>0, <1>3 DEF Write, WriteFails, wireVars
  <2>5. /\ Distinct(send[c]) /\ Distinct(toRunner[c]) /\ ~Has(toRunner[c], j) /\ held[c] # j
    BY <2>2 DEF RouteInv, Apart
  <2>6. /\ Distinct(send'[c]) /\ Distinct(toRunner'[c]) /\ ~Has(send'[c], j)
        /\ \A x : Has(send'[c], x) => Has(send[c], x)
        /\ \A x : Has(toRunner'[c], x) => Has(toRunner[c], x) \/ x = j
    BY <2>2, <2>3, <2>4, <2>5
  <2>7. \A d \in Conns, k \in Jobs : Waits(d, k)' => Waits(d, k)
    BY <1>1, <2>2, <2>4, <2>6 DEF Waits
  <2>8. WaitsOnce'
    BY <1>1, <2>7 DEF RouteInv, WaitsOnce, SentOn
  <2>9. Apart'
    BY <1>1, <2>4, <2>5, <2>6 DEF RouteInv, Apart
  <2>10. PickFits' /\ RunsOnce' /\ Executed'
    BY <1>1 DEF RouteInv, PickFits, RunsOnce, Executed, SentOn
  <2>. QED  BY <2>8, <2>9, <2>10 DEF RouteInv
<1>. QED
  BY <1>2, <1>3 DEF ConnStep, ServeWS, Register, RegisterFails, ReadResult, HandOver, ReadFails,
                    Unregister, WriterStops, sendVars, wireVars

\* The runner process: a job goes from the wire to a slot, and starts.
LEMMA CliRoute ==
  ASSUME TypeOK, RouteInv, NEW c \in Conns, CliStep(c)
  PROVE  RouteInv'
<1>0. /\ toRunner \in [Conns -> Seq(Jobs)]
      /\ held \in [Conns -> Jobs \cup {NoJob}]
      /\ running \in [Conns -> SUBSET Jobs]
      /\ executions \in [Jobs -> Nat]
  BY DEF TypeOK, HubTypeOK, WireTypeOK, CliTypeOK
<1>1. UNCHANGED <<send, pc, picked, outcome>>
  BY DEF CliStep, ReadJob, StartJob, FinishJob, DiscardResult, DropLink, RunnerExits, hubVars,
         callVars, sendVars
<1>2. CASE ReadJob(c)
  <2> DEFINE j == Head(toRunner[c])
  <2>1. toRunner[c] \in Seq(Jobs) /\ toRunner[c] # <<>>
    BY <1>0, <1>2 DEF ReadJob
  <2>2. /\ j \in Jobs /\ Has(toRunner[c], j)
        /\ \A x : Has(Tail(toRunner[c]), x) => Has(toRunner[c], x)
        /\ Distinct(toRunner[c]) => Distinct(Tail(toRunner[c])) /\ ~Has(Tail(toRunner[c]), j)
    BY <2>1, TakeFirst
  <2>3. /\ toRunner'[c] = Tail(toRunner[c]) /\ held'[c] = j
        /\ \A d \in Conns \ {c} : toRunner'[d] = toRunner[d] /\ held'[d] = held[d]
        /\ UNCHANGED <<running, executions>>
    BY <1>0, <1>2 DEF ReadJob
  <2>4. Distinct(toRunner[c]) /\ ~Has(send[c], j)
    BY <2>2 DEF RouteInv, Apart
  <2>5. \A d \in Conns, k \in Jobs : Waits(d, k)' => Waits(d, k)
    BY <1>1, <2>2, <2>3 DEF Waits
  <2>6. WaitsOnce'
    BY <1>1, <2>3, <2>5 DEF RouteInv, WaitsOnce, SentOn
  <2>7. Apart'
    BY <1>1, <2>2, <2>3, <2>4 DEF RouteInv, Apart
  <2>8. PickFits' /\ RunsOnce' /\ Executed'
    BY <1>1, <2>3 DEF RouteInv, PickFits, RunsOnce, Executed, SentOn
  <2>. QED  BY <2>6, <2>7, <2>8 DEF RouteInv
<1>3. CASE StartJob(c)
  <2> DEFINE j == held[c]
  <2>1. /\ j \in Jobs /\ held'[c] = NoJob /\ NoJob \notin Jobs
        /\ \A d \in Conns \ {c} : held'[d] = held[d] /\ running'[d] = running[d]
        /\ running'[c] = running[c] \cup {j}
        /\ \A k \in Jobs \ {j} : executions'[k] = executions[k]
        /\ executions'[j] = executions[j] + 1
        /\ UNCHANGED toRunner
    BY <1>0, <1>3, CliAssumption DEF StartJob, wireVars
  <2>2. SentOn(c, j) /\ executions[j] = 0 /\ ~Has(send[c], j) /\ ~Has(toRunner[c], j)
    BY <2>1 DEF RouteInv, WaitsOnce, Waits, Apart
  <2>3. ASSUME NEW d \in Conns, NEW k \in Jobs, Waits(d, k)'
        PROVE  Waits(d, k) /\ k # j
    <3>1. Waits(d, k)
      BY <1>1, <2>1, <2>3 DEF Waits
    <3>2. CASE k = j
      <4>1. d = c
        BY <2>2, <3>1, <3>2 DEF RouteInv, WaitsOnce, SentOn
      <4>. QED  BY <1>1, <2>1, <2>2, <2>3, <3>2, <4>1 DEF Waits
    <3>. QED  BY <3>1, <3>2
  <2>4. WaitsOnce'
    BY <1>1, <2>1, <2>3 DEF RouteInv, WaitsOnce, SentOn
  <2>5. Apart'
    BY <1>1, <2>1 DEF RouteInv, Apart
  <2>6. RunsOnce'
    <3> SUFFICES ASSUME NEW d \in Conns, NEW k \in Jobs, k \in running'[d]
                 PROVE  SentOn(d, k)' /\ executions'[k] = 1
      BY DEF RunsOnce
    <3>1. CASE k = j /\ d = c
      BY <1>1, <2>1, <2>2, <3>1 DEF SentOn
    <3>2. CASE ~(k = j /\ d = c)
      <4>1. k \in running[d]
        BY <2>1, <3>2
      <4>2. SentOn(d, k) /\ executions[k] = 1
        BY <4>1 DEF RouteInv, RunsOnce
      <4>3. k # j
        BY <2>2, <4>2
      <4>. QED  BY <1>1, <2>1, <4>2, <4>3 DEF SentOn
    <3>. QED  BY <3>1, <3>2
  <2>7. PickFits' /\ Executed'
    BY <1>1, <2>1, <2>2 DEF RouteInv, PickFits, Executed, SentOn
  <2>. QED  BY <2>4, <2>5, <2>6, <2>7 DEF RouteInv
<1>4. CASE \/ \E j \in Jobs, result \in Results : FinishJob(c, j, result)
           \/ \E j \in Jobs : DiscardResult(c, j)
           \/ DropLink(c) \/ RunnerExits(c)
  <2>1. /\ UNCHANGED <<toRunner, executions>>
        /\ \A d \in Conns : running'[d] \subseteq running[d]
        /\ \A d \in Conns : held'[d] = held[d] \/ held'[d] = NoJob
    BY <1>0, <1>4 DEF FinishJob, DiscardResult, DropLink, RunnerExits, cliVars, wireVars
  <2>2. \A d \in Conns, k \in Jobs : Waits(d, k)' => Waits(d, k)
    BY <1>1, <2>1, CliAssumption DEF Waits
  <2>3. WaitsOnce'
    BY <1>1, <2>1, <2>2 DEF RouteInv, WaitsOnce, SentOn
  <2>4. Apart'
    BY <1>1, <2>1, CliAssumption DEF RouteInv, Apart
  <2>5. PickFits' /\ RunsOnce' /\ Executed'
    BY <1>1, <2>1 DEF RouteInv, PickFits, RunsOnce, Executed, SentOn
  <2>. QED  BY <2>3, <2>4, <2>5 DEF RouteInv
<1>. QED  BY <1>2, <1>3, <1>4 DEF CliStep

LEMMA NextRoute == TypeOK /\ TableInv /\ RouteInv /\ [Next]_vars => RouteInv'
<1> SUFFICES ASSUME TypeOK, TableInv, RouteInv, [Next]_vars PROVE RouteInv'
  OBVIOUS
<1>1. CASE UNCHANGED vars
  BY <1>1, RouteUntouched DEF vars, hubVars, wireVars, cliVars, callVars, sendVars, wayVars
<1>2. ASSUME NEW r \in Resets, ResetStep(r), UNCHANGED cliVars PROVE RouteInv'
  BY <1>2, RouteUntouched
     DEF ResetStep, ResetRunnerToken, CollectConns, CloseConn, cliVars, callVars, sendVars,
         wireVars, wayVars
<1>. QED  BY <1>1, <1>2, ConnRoute, DispatchRoute, CliRoute DEF Next, HubNext

LEMMA RouteInvariant == Spec => []RouteInv
  BY InitTypeOK, NextTypeOK, InitTableInv, NextTableInv, InitRoute, NextRoute, PTL DEF Spec

\* A job runs only on a runner of its database, under the name its instance is
\* bound to, that announced its node type, however jobs and connections meet.
THEOREM RunsOnTheRightRunner == Spec => []RunsWhereItBelongs
<1>1. TypeOK /\ RouteInv => RunsWhereItBelongs
  BY DEF TypeOK, CliTypeOK, RouteInv, PickFits, RunsOnce, SentOn, Fits, RunsWhereItBelongs
<1>2. Spec => []TypeOK
  BY TypeCorrect
<1>. QED  BY <1>1, <1>2, RouteInvariant, PTL

-----------------------------------------------------------------------------
(* What an answer says.                                                    *)

\* The connection that the job was sent on is closed and out of the hub.
Lost(j) == picked[j] \in Conns /\ closed[picked[j]] /\ phase[picked[j]] = "gone"

\* An output or error comes from an execution, "disconnected" from a drop.
Vouched(j, a) ==
  /\ a \in Results => executions[j] = 1
  /\ a = "disconnected" => Lost(j)

FramesVouched ==
  \A c \in Conns, f \in Frames : Has(toServer[c], f) => executions[f.job] = 1

HeldVouched ==
  \A c \in Conns, j \in Jobs, a \in Answers : <<j, a>> \in handoff[c] => Vouched(j, a)

ReplyVouched == \A j \in Jobs : Vouched(j, reply[j]) /\ Vouched(j, outcome[j])

\* The socket is closed before the connection leaves the hub.
ClosedFirst == \A c \in Conns : phase[c] = "closing" => closed[c]

TruthInv == FramesVouched /\ HeldVouched /\ ReplyVouched /\ ClosedFirst

LEMMA InitTruth == Init => TruthInv
<1> SUFFICES ASSUME Init PROVE TruthInv
  OBVIOUS
<1>1. \A c \in Conns : Len(toServer[c]) = 0 /\ handoff[c] = {} /\ phase[c] = "new"
  BY DEF Init, HubInit
<1>2. \A j \in Jobs : reply[j] = "none" /\ outcome[j] = "none"
  BY DEF Init, HubInit
<1>3. FramesVouched
  BY <1>1 DEF FramesVouched, Has
<1>. QED  BY <1>1, <1>2, <1>3 DEF TruthInv, HeldVouched, ReplyVouched, ClosedFirst, Vouched, Results

\* What was vouched for stays so: nothing undoes an execution, opens a socket
\* or brings a connection back, and a job keeps the connection picked for it.
LEMMA VouchedStays ==
  ASSUME RouteInv, \A c \in Conns : closed[c] => closed'[c],
         \A c \in Conns : phase[c] = "gone" => phase'[c] = "gone",
         \A j \in Jobs : executions[j] = 1 => executions'[j] = 1,
         NEW j \in Jobs, picked'[j] = picked[j], NEW a, Vouched(j, a)
  PROVE  Vouched(j, a)'
  BY DEF Vouched, Lost

LEMMA ConnTruth ==
  ASSUME TypeOK, TableInv, RouteInv, TruthInv, NEW c \in Conns, ConnStep(c), UNCHANGED cliVars
  PROVE  TruthInv'
<1>0. /\ phase \in [Conns -> Phases] /\ closed \in [Conns -> BOOLEAN]
      /\ toServer \in [Conns -> Seq(Frames)]
      /\ handoff \in [Conns -> SUBSET (Jobs \X Answers)] /\ jobs \subseteq Jobs
      /\ reply \in [Jobs -> Answers \cup {"none"}]
  BY DEF TypeOK, HubTypeOK, ConnTypeOK, WireTypeOK, TableTypeOK
<1>1. UNCHANGED <<executions, picked, outcome>>
  BY DEF ConnStep, ServeWS, Register, RegisterFails, ReadResult, HandOver, ReadFails, Unregister,
         Write, WriteFails, WriterStops, callVars, cliVars
<1>2. /\ \A d \in Conns : closed[d] => closed'[d]
      /\ \A d \in Conns : phase[d] = "gone" => phase'[d] = "gone"
      /\ ClosedFirst'
  BY <1>0 DEF ConnStep, ServeWS, Register, RegisterFails, ReadResult, HandOver, ReadFails,
     Unregister, Write, WriteFails, WriterStops, Close, connVars, TruthInv, ClosedFirst, Phases
<1>3. \A j \in Jobs : \A a : Vouched(j, a) => Vouched(j, a)'
  BY <1>1, <1>2, VouchedStays
<1>4. CASE UNCHANGED <<toServer, handoff, reply>>
  BY <1>1, <1>2, <1>3, <1>4 DEF TruthInv, FramesVouched, HeldVouched, ReplyVouched
<1>5. CASE ReadResult(c)
  <2> DEFINE frame == Head(toServer[c])
  <2>1. toServer[c] \in Seq(Frames) /\ toServer[c] # <<>>
    BY <1>0, <1>5 DEF ReadResult
  <2>2. frame \in Frames /\ Has(toServer[c], frame) /\ \A x : Has(Tail(toServer[c]), x) => Has(toServer[c], x)
    BY <2>1, TakeFirst
  <2>3. frame.job \in Jobs /\ frame.result \in Results /\ executions[frame.job] = 1
    BY <2>2 DEF TruthInv, FramesVouched, Frames
  <2>4. /\ toServer'[c] = Tail(toServer[c])
        /\ \A d \in Conns \ {c} : toServer'[d] = toServer[d] /\ handoff'[d] = handoff[d]
        /\ handoff'[c] = ({frame.job} \cap jobs) \X {frame.result}
        /\ UNCHANGED reply
    BY <1>0, <1>5 DEF ReadResult, HoldAnswer
  <2>5. FramesVouched'
    BY <1>1, <2>2, <2>4 DEF TruthInv, FramesVouched
  <2>6. PICK k \in Jobs, r \in Results : k = frame.job /\ r = frame.result /\ executions[k] = 1
    BY <2>3
  <2>9. Vouched(k, r)'
    BY <1>1, <2>6 DEF Vouched, Results
  <2>7. HeldVouched'
    <3> SUFFICES ASSUME NEW d \in Conns, NEW j \in Jobs, NEW a \in Answers, <<j, a>> \in handoff'[d]
                 PROVE  Vouched(j, a)'
      BY DEF HeldVouched
    <3>1. CASE d = c
      <4>1. j = k /\ a = r
        BY <2>4, <2>6, <3>1
      <4>. QED  BY <2>9, <4>1
    <3>2. CASE d # c
      BY <1>3, <2>4, <3>2 DEF TruthInv, HeldVouched
    <3>. QED  BY <3>1, <3>2
  <2>8. ReplyVouched'
    BY <1>1, <1>3, <2>4 DEF TruthInv, ReplyVouched
  <2>. QED  BY <1>2, <2>5, <2>7, <2>8 DEF TruthInv
<1>6. CASE Unregister(c)
  <2>1. /\ \A d \in Conns \ {c} : handoff'[d] = handoff[d]
        /\ handoff'[c] = Orphaned(c) \X {"disconnected"}
        /\ UNCHANGED <<reply, toServer, closed>>
        /\ phase[c] = "closing" /\ phase'[c] = "gone"
    BY <1>0, <1>6 DEF Unregister, HoldAnswer, wireVars
  <2>2. closed'[c]
    BY <2>1 DEF TruthInv, ClosedFirst
  <2>3. \A j \in Orphaned(c) : Vouched(j, "disconnected")'
    BY <1>1, <2>1, <2>2 DEF Orphaned, Vouched, Lost, Results
  <2>4. HeldVouched'
    <3> SUFFICES ASSUME NEW d \in Conns, NEW j \in Jobs, NEW a \in Answers, <<j, a>> \in handoff'[d]
                 PROVE  Vouched(j, a)'
      BY DEF HeldVouched
    <3>1. CASE d = c
      <4>1. j \in Orphaned(c) /\ a = "disconnected"
        BY <2>1, <3>1
      <4>. QED  BY <2>3, <4>1
    <3>2. CASE d # c
      BY <1>3, <2>1, <3>2 DEF TruthInv, HeldVouched
    <3>. QED  BY <3>1, <3>2
  <2>5. FramesVouched' /\ ReplyVouched'
    BY <1>1, <1>3, <2>1 DEF TruthInv, FramesVouched, ReplyVouched
  <2>. QED  BY <1>2, <2>4, <2>5 DEF TruthInv
<1>7. CASE HandOver(c)
  <2>1. PICK answer \in handoff[c] :
          /\ reply' = [reply EXCEPT ![answer[1]] = answer[2]]
          /\ handoff' = [handoff EXCEPT ![c] = @ \ {answer}]
    BY <1>7 DEF HandOver
  <2>2. answer[1] \in Jobs /\ answer[2] \in Answers /\ answer = <<answer[1], answer[2]>>
    BY <1>0, <2>1
  <2>3. Vouched(answer[1], answer[2])
    BY <2>1, <2>2 DEF TruthInv, HeldVouched
  <2>4. /\ \A d \in Conns : handoff'[d] \subseteq handoff[d]
        /\ reply'[answer[1]] = answer[2]
        /\ \A j \in Jobs \ {answer[1]} : reply'[j] = reply[j]
        /\ UNCHANGED toServer
    BY <1>0, <1>7, <2>1, <2>2 DEF HandOver, wireVars
  <2>5. HeldVouched'
    BY <1>3, <2>4 DEF TruthInv, HeldVouched
  <2>6. ReplyVouched'
    <3> SUFFICES ASSUME NEW j \in Jobs PROVE Vouched(j, reply[j])' /\ Vouched(j, outcome[j])'
      BY DEF ReplyVouched
    <3>1. Vouched(j, outcome[j])'
      BY <1>1, <1>3 DEF TruthInv, ReplyVouched
    <3>2. Vouched(j, reply'[j])
      BY <2>2, <2>3, <2>4 DEF TruthInv, ReplyVouched
    <3>3. Vouched(j, reply[j])'
      BY <1>1, <1>2, <3>2 DEF Vouched, Lost
    <3>. QED  BY <3>1, <3>3
  <2>7. FramesVouched'
    BY <1>1, <2>4 DEF TruthInv, FramesVouched
  <2>. QED  BY <1>2, <2>5, <2>6, <2>7 DEF TruthInv
<1>. QED
  BY <1>4, <1>5, <1>6, <1>7
     DEF ConnStep, ServeWS, Register, RegisterFails, ReadFails, Write, WriteFails, WriterStops,
         tableVars, wireVars

LEMMA DispatchTruth ==
  ASSUME TypeOK, TableInv, RouteInv, TruthInv, NEW j \in Jobs, DispatchStep(j), UNCHANGED cliVars
  PROVE  TruthInv'
<1>0. /\ pc \in [Jobs -> {"idle", "picked", "sending", "waiting", "leaving", "done"}]
      /\ picked \in [Jobs -> Conns \cup {NoConn}]
      /\ outcome \in [Jobs -> Answers \cup {"none", "not connected", "unsupported",
                                            "timeout", "cancelled"}]
      /\ reply \in [Jobs -> Answers \cup {"none"}]
  BY DEF TypeOK, HubTypeOK, CallTypeOK, TableTypeOK
<1>1. UNCHANGED <<executions, phase, closed, handoff, toServer>>
  BY DEF DispatchStep, NotConnected, Unsupported, Refuse, Pick, Enter, Send, SendRefused,
         Cancelled, Answered, TimedOut, Return, Leave, wireVars, connVars, tableVars, cliVars
<1>2. FramesVouched' /\ ClosedFirst'
  BY <1>1 DEF TruthInv, FramesVouched, ClosedFirst
<1>3. \A k \in Jobs : \A a : picked'[k] = picked[k] /\ Vouched(k, a) => Vouched(k, a)'
  BY <1>1 DEF Vouched, Lost
<1>4. CASE Pick(j)
  <2>1. /\ pc[j] = "idle" /\ UNCHANGED <<reply, outcome>>
        /\ \A k \in Jobs \ {j} : picked'[k] = picked[k]
    BY <1>0, <1>4 DEF Pick, tableVars
  <2>2. reply[j] = "none" /\ outcome[j] = "none" /\ ~Held(j)
    BY <2>1 DEF TableInv, Fresh, RouteInv, Executed, Unsent
  <2>3. HeldVouched'
    BY <1>1, <1>3, <2>1, <2>2 DEF TruthInv, HeldVouched, Held
  <2>4. Vouched(j, reply[j])' /\ Vouched(j, outcome[j])'
    BY <2>1, <2>2 DEF Vouched, Results
  <2>5. ReplyVouched'
    BY <1>3, <2>1, <2>4 DEF TruthInv, ReplyVouched
  <2>. QED  BY <1>2, <2>3, <2>5 DEF TruthInv
<1>5. CASE ~Pick(j)
  <2>1. /\ UNCHANGED picked
        /\ \A k \in Jobs \ {j} : reply'[k] = reply[k] /\ outcome'[k] = outcome[k]
        /\ reply'[j] \in {reply[j], "none"}
        /\ outcome'[j] \in {outcome[j], reply[j], "not connected", "unsupported", "cancelled", "timeout"}
    BY <1>0, <1>5 DEF DispatchStep, NotConnected, Unsupported, Refuse, Enter, Send, SendRefused,
         Cancelled, Answered, TimedOut, Return, Leave, tableVars
  <2>2. HeldVouched'
    BY <1>1, <1>3, <2>1 DEF TruthInv, HeldVouched
  <2>3. ASSUME NEW k \in Jobs PROVE Vouched(k, reply'[k]) /\ Vouched(k, outcome'[k])
    BY <2>1 DEF TruthInv, ReplyVouched, Vouched, Results
  <2>4. ReplyVouched'
    BY <1>1, <2>1, <2>3 DEF ReplyVouched, Vouched, Lost
  <2>. QED  BY <1>2, <2>2, <2>4 DEF TruthInv
<1>. QED  BY <1>4, <1>5

LEMMA CliTruth ==
  ASSUME TypeOK, RouteInv, TruthInv, NEW c \in Conns, CliStep(c)
  PROVE  TruthInv'
<1>0. /\ toServer \in [Conns -> Seq(Frames)] /\ executions \in [Jobs -> Nat]
      /\ running \in [Conns -> SUBSET Jobs]
  BY DEF TypeOK, HubTypeOK, WireTypeOK, CliTypeOK
<1>1. UNCHANGED <<phase, closed, handoff, reply, picked, outcome>>
  BY DEF CliStep, ReadJob, StartJob, FinishJob, DiscardResult, DropLink, RunnerExits, hubVars,
         connVars, tableVars, callVars
<1>2. \A k \in Jobs : executions[k] = 1 => executions'[k] = 1
  <2>1. CASE StartJob(c)
    <3>1. Waits(c, held[c]) /\ held[c] \in Jobs
      BY <2>1, CliAssumption DEF StartJob, Waits, TypeOK, CliTypeOK
    <3>2. executions[held[c]] = 0
      BY <3>1 DEF RouteInv, WaitsOnce
    <3>. QED  BY <1>0, <2>1, <3>1, <3>2 DEF StartJob
  <2>2. CASE ~StartJob(c)
    BY <2>2 DEF CliStep, ReadJob, FinishJob, DiscardResult, DropLink, RunnerExits, cliVars
  <2>. QED  BY <2>1, <2>2
<1>3. \A k \in Jobs : \A a : Vouched(k, a) => Vouched(k, a)'
  BY <1>1, <1>2 DEF Vouched, Lost
<1>4. HeldVouched' /\ ReplyVouched' /\ ClosedFirst'
  BY <1>1, <1>3 DEF TruthInv, HeldVouched, ReplyVouched, ClosedFirst
<1>5. FramesVouched'
  <2>1. CASE \E j \in Jobs, result \in Results : FinishJob(c, j, result)
    <3>1. PICK j \in Jobs, result \in Results : FinishJob(c, j, result)
      BY <2>1
    <3> DEFINE frame == [job |-> j, result |-> result]
    <3>2. frame \in Frames /\ toServer[c] \in Seq(Frames) /\ executions[j] = 1
      BY <1>0, <3>1 DEF FinishJob, Frames, RouteInv, RunsOnce
    <3>3. \A x : Has(Append(toServer[c], frame), x) <=> Has(toServer[c], x) \/ x = frame
      BY <3>2, PutLast
    <3>4. /\ toServer'[c] = Append(toServer[c], frame)
          /\ \A d \in Conns \ {c} : toServer'[d] = toServer[d]
          /\ UNCHANGED executions
      BY <1>0, <3>1 DEF FinishJob
    <3>5. \A d \in Conns, f \in Frames : Has(toServer'[d], f) => Has(toServer[d], f) \/ f = frame
      BY <3>3, <3>4
    <3>. QED  BY <3>2, <3>4, <3>5 DEF TruthInv, FramesVouched
  <2>2. CASE UNCHANGED toServer
    BY <1>2, <2>2 DEF TruthInv, FramesVouched, Frames
  <2>. QED
    BY <2>1, <2>2 DEF CliStep, ReadJob, StartJob, DiscardResult, DropLink, RunnerExits, wireVars
<1>. QED  BY <1>4, <1>5 DEF TruthInv

LEMMA NextTruth == TypeOK /\ TableInv /\ RouteInv /\ TruthInv /\ [Next]_vars => TruthInv'
<1> SUFFICES ASSUME TypeOK, TableInv, RouteInv, TruthInv, [Next]_vars PROVE TruthInv'
  OBVIOUS
<1>1. CASE UNCHANGED vars
  BY <1>1 DEF vars, hubVars, wireVars, cliVars, callVars, connVars, tableVars, TruthInv,
     FramesVouched, HeldVouched, ReplyVouched, ClosedFirst, Vouched, Lost
<1>2. ASSUME NEW r \in Resets, ResetStep(r), UNCHANGED cliVars PROVE TruthInv'
  <2>1. /\ UNCHANGED <<phase, handoff, reply, picked, outcome, toServer, executions>>
        /\ \A c \in Conns : closed[c] => closed'[c]
    BY <1>2 DEF ResetStep, ResetRunnerToken, CollectConns, CloseConn, Close, connVars, tableVars,
                callVars, wireVars, cliVars, TypeOK, HubTypeOK, ConnTypeOK
  <2>. QED  BY <2>1 DEF TruthInv, FramesVouched, HeldVouched, ReplyVouched, ClosedFirst, Vouched, Lost
<1>. QED  BY <1>1, <1>2, ConnTruth, DispatchTruth, CliTruth DEF Next, HubNext

LEMMA TruthInvariant == Spec => [](TypeOK /\ TableInv /\ RouteInv /\ TruthInv)
  BY InitTypeOK, NextTypeOK, InitTableInv, NextTableInv, InitRoute, NextRoute, InitTruth, NextTruth,
     PTL DEF Spec

LEMMA TruthTells == TypeOK /\ RouteInv /\ TruthInv => OutcomeTellsExecution
<1> SUFFICES ASSUME TypeOK, RouteInv, TruthInv, NEW j \in Jobs
             PROVE  /\ executions[j] <= 1
                    /\ outcome[j] \in Refusals => executions[j] = 0
                    /\ outcome[j] \in Results => executions[j] = 1
  BY DEF OutcomeTellsExecution, Refusals
<1>1. executions[j] \in {0, 1} /\ (executions[j] = 1 => outcome[j] \notin Refusals)
  BY DEF RouteInv, Executed
<1>2. outcome[j] \in Results => executions[j] = 1
  BY DEF TruthInv, ReplyVouched, Vouched
<1>. QED  BY <1>1, <1>2

\* What Dispatch returns tells the truth about the runner: no job starts twice,
\* a refused one never, and an output or error comes from an execution.
THEOREM AnswersTellTheTruth == Spec => []OutcomeTellsExecution
  BY TruthInvariant, TruthTells, PTL

\* A job fails as disconnected only when its own connection closed and left.
THEOREM DropsFailTheirJobs == Spec => []DropFailsOnlyItsJobs
<1>1. TruthInv => DropFailsOnlyItsJobs
  BY DEF TruthInv, ReplyVouched, Vouched, Lost, DropFailsOnlyItsJobs
<1>. QED  BY <1>1, TruthInvariant, PTL

-----------------------------------------------------------------------------
(* The refinement.                                                         *)

Calls == [j \in Jobs |-> Called(j)]

LEMMA CalledValues ==
  ASSUME NEW j \in Jobs
  PROVE  /\ outcome[j] \in Results => Called(j) = outcome[j]
         /\ outcome[j] \in Refusals => Called(j) = "refused"
         /\ outcome[j] \in {"timeout", "cancelled", "disconnected"} => Called(j) = "failed"
         /\ outcome[j] = "none" /\ pc[j] = "idle" => Called(j) = "idle"
         /\ outcome[j] = "none" /\ pc[j] # "idle" => Called(j) = "called"
  BY DEF Called, Results, Refusals

\* A step of one Dispatch changes what the caller of that job knows, at most.
LEMMA OneCall ==
  ASSUME TypeOK, NEW j \in Jobs, DispatchStep(j)
  PROVE  Calls' = [Calls EXCEPT ![j] = Called(j)']
<1>1. \A k \in Jobs \ {j} : outcome'[k] = outcome[k] /\ pc'[k] = pc[k]
  BY DEF DispatchStep, NotConnected, Unsupported, Refuse, Pick, Enter, Send, SendRefused,
         Cancelled, Answered, TimedOut, Return, Leave, TypeOK, HubTypeOK, CallTypeOK
<1>2. \A k \in Jobs \ {j} : Called(k)' = Called(k)
  BY <1>1 DEF Called
<1>. QED  BY <1>2 DEF Calls

\* The steps of the runner and of the connections that no caller sees.
LEMMA UnseenStep ==
  UNCHANGED <<outcome, pc, executions>> => UNCHANGED <<Calls, executions>>
  BY DEF Calls, Called

LEMMA DispatchRefines ==
  ASSUME TypeOK, RouteInv, TruthInv, NEW j \in Jobs, DispatchStep(j), UNCHANGED cliVars
  PROVE  [Abstract!Next]_<<Calls, executions>>
<1>0. /\ pc \in [Jobs -> {"idle", "picked", "sending", "waiting", "leaving", "done"}]
      /\ outcome \in [Jobs -> Answers \cup {"none", "not connected", "unsupported",
                                            "timeout", "cancelled"}]
      /\ reply \in [Jobs -> Answers \cup {"none"}]
  BY DEF TypeOK, HubTypeOK, CallTypeOK, TableTypeOK
<1>1. /\ Calls' = [Calls EXCEPT ![j] = Called(j)'] /\ Calls[j] = Called(j)
      /\ UNCHANGED executions
  BY OneCall DEF cliVars, Calls
<1>2. pc[j] \in Unsent \cup {"waiting"} => outcome[j] = "none"
  BY DEF RouteInv, Executed
<1>3. executions[j] \in {0, 1} /\ (executions[j] = 1 => pc[j] \notin Unsent)
  BY DEF RouteInv, Executed
<1>4. CASE NotConnected(j) \/ Unsupported(j) \/ SendRefused(j)
  <2>0. PICK o \in Refusals : outcome' = [outcome EXCEPT ![j] = o]
    BY <1>4 DEF NotConnected, Unsupported, SendRefused, Refuse, Return, Refusals
  <2>1. pc[j] \in {"idle", "sending"} /\ outcome'[j] \in Refusals
    BY <1>0, <1>4, <2>0 DEF NotConnected, Unsupported, SendRefused
  <2>2. Called(j) \in {"idle", "called"} /\ Called(j)' = "refused" /\ executions[j] = 0
    BY <1>2, <1>3, <2>1 DEF Called, Refusals, Unsent, Results
  <2>3. Abstract!Refuse(j)
    BY <1>1, <2>2 DEF Abstract!Refuse, Calls
  <2>. QED  BY <2>3 DEF Abstract!Next
<1>5. CASE Pick(j)
  <2>1. pc[j] = "idle" /\ pc'[j] = "picked" /\ outcome'[j] = "none" /\ outcome[j] = "none"
    BY <1>0, <1>2, <1>5 DEF Pick, Unsent
  <2>2. Called(j) = "idle" /\ Called(j)' = "called"
    BY <2>1 DEF Called, Results
  <2>3. Abstract!Begin(j)
    BY <1>1, <2>2 DEF Abstract!Begin, Calls
  <2>. QED  BY <2>3 DEF Abstract!Next
<1>6. CASE Enter(j) \/ Send(j) \/ Leave(j)
  <2>1. UNCHANGED outcome /\ pc[j] # "idle" /\ pc'[j] # "idle"
    BY <1>0, <1>6 DEF Enter, Send, Leave
  <2>2. Called(j)' = Called(j)
    BY <2>1 DEF Called
  <2>3. UNCHANGED Calls
    BY <1>1, <2>2 DEF Calls
  <2>. QED  BY <1>1, <2>3
<1>7. CASE Cancelled(j) \/ TimedOut(j) \/ (Answered(j) /\ reply[j] = "disconnected")
  <2>1. /\ pc[j] \in {"sending", "waiting"} /\ outcome[j] = "none"
        /\ outcome'[j] \in {"cancelled", "timeout", "disconnected"}
    BY <1>0, <1>2, <1>7 DEF Cancelled, TimedOut, Answered, Return, Unsent
  <2>2. Called(j) = "called" /\ Called(j)' = "failed"
    BY <2>1 DEF Called, Results
  <2>3. Abstract!Fail(j)
    BY <1>1, <2>2 DEF Abstract!Fail, Calls
  <2>. QED  BY <2>3 DEF Abstract!Next
<1>8. CASE Answered(j) /\ reply[j] \in Results
  <2>1. /\ pc[j] = "waiting" /\ outcome[j] = "none"
        /\ outcome'[j] \in {"output", "error"} /\ executions[j] = 1
    BY <1>0, <1>2, <1>8 DEF Answered, Return, Results, TruthInv, ReplyVouched, Vouched
  <2>2. Called(j) = "called" /\ Called(j)' \in {"output", "error"}
    BY <2>1 DEF Called, Results
  <2>3. Abstract!Succeed(j)
    BY <1>1, <2>1, <2>2 DEF Abstract!Succeed, Calls
  <2>. QED  BY <2>3 DEF Abstract!Next
<1>9. Answered(j) => reply[j] \in Results \cup {"disconnected"}
  BY <1>0 DEF Answered, Answers
<1>. QED  BY <1>4, <1>5, <1>6, <1>7, <1>8, <1>9 DEF DispatchStep

LEMMA CliRefines ==
  ASSUME TypeOK, RouteInv, TruthInv, NEW c \in Conns, CliStep(c)
  PROVE  [Abstract!Next]_<<Calls, executions>>
<1>1. UNCHANGED <<outcome, pc>> /\ UNCHANGED Calls
  <2>1. UNCHANGED <<outcome, pc>>
    BY DEF CliStep, ReadJob, StartJob, FinishJob, DiscardResult, DropLink, RunnerExits,
       hubVars, callVars
  <2>. QED  BY <2>1 DEF Calls, Called
<1>2. CASE StartJob(c)
  <2>1. PICK j \in Jobs : j = held[c] /\ Waits(c, j)
    BY <1>2, CliAssumption DEF StartJob, Waits, TypeOK, CliTypeOK
  <2>2. SentOn(c, j) /\ executions[j] = 0
    BY <2>1 DEF RouteInv, WaitsOnce
  <2>3. outcome[j] \notin Results
    BY <2>2 DEF TruthInv, ReplyVouched, Vouched
  <2>4. Called(j) \in {"called", "failed"}
    BY <2>2, <2>3, CalledValues DEF SentOn, Unsent, Refusals, Answers, TypeOK, HubTypeOK, CallTypeOK
  <2>5. executions' = [executions EXCEPT ![j] = 1]
    BY <1>2, <2>1, <2>2 DEF StartJob, TypeOK, CliTypeOK
  <2>6. Abstract!Execute(j)
    BY <1>1, <2>2, <2>4, <2>5 DEF Abstract!Execute, Calls
  <2>. QED  BY <2>6 DEF Abstract!Next
<1>3. CASE ~StartJob(c)
  BY <1>1, <1>3 DEF CliStep, ReadJob, FinishJob, DiscardResult, DropLink, RunnerExits, cliVars
<1>. QED  BY <1>2, <1>3

LEMMA NextRefines ==
  TypeOK /\ RouteInv /\ TruthInv /\ [Next]_vars => [Abstract!Next]_<<Calls, executions>>
<1> SUFFICES ASSUME TypeOK, RouteInv, TruthInv, [Next]_vars
             PROVE  [Abstract!Next]_<<Calls, executions>>
  OBVIOUS
<1>1. CASE UNCHANGED vars
  BY <1>1, UnseenStep DEF vars, hubVars, cliVars, callVars
<1>2. ASSUME NEW c \in Conns, ConnStep(c), UNCHANGED cliVars
      PROVE  [Abstract!Next]_<<Calls, executions>>
  <2>1. UNCHANGED <<outcome, pc, executions>>
    BY <1>2 DEF ConnStep, ServeWS, Register, RegisterFails, ReadResult, HandOver, ReadFails,
       Unregister, Write, WriteFails, WriterStops, callVars, cliVars
  <2>. QED  BY <2>1, UnseenStep
<1>3. ASSUME NEW r \in Resets, ResetStep(r), UNCHANGED cliVars
      PROVE  [Abstract!Next]_<<Calls, executions>>
  <2>1. UNCHANGED <<outcome, pc, executions>>
    BY <1>3 DEF ResetStep, ResetRunnerToken, CollectConns, CloseConn, callVars, cliVars
  <2>. QED  BY <2>1, UnseenStep
<1>. QED  BY <1>1, <1>2, <1>3, DispatchRefines, CliRefines DEF Next, HubNext

\* The hub and the runners together implement the at-most-once remote call
\* that a workflow counts on: every step of theirs is a step of RemoteCall or
\* changes nothing that the caller sees.
THEOREM RemoteCallIsImplemented == Spec => ImplementsRemoteCall
<1>1. Init => Abstract!Init
  BY DEF Init, HubInit, CliInit, Abstract!Init, Called, Results
<1>2. TypeOK /\ RouteInv /\ TruthInv /\ [Next]_vars
        => [Abstract!Next]_<<[j \in Jobs |-> Called(j)], executions>>
  BY NextRefines DEF Calls
<1>. QED  BY <1>1, <1>2, TruthInvariant, PTL DEF Spec, ImplementsRemoteCall, Abstract!Spec
=============================================================================
