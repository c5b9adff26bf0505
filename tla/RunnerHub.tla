----------------------------- MODULE RunnerHub -----------------------------
(***************************************************************************)
(* The server side of remote execution: src/internal/runnerhub/hub.go.     *)
(*                                                                         *)
(* A workflow step bound to a remote runner calls Dispatch.  Dispatch      *)
(* picks a registered connection, enters itself in the table of pending    *)
(* jobs, hands the job to the connection's writer and waits for the first  *)
(* of: an answer, the job timer, the end of its own context.  Answers come *)
(* from the connection's reader (a result frame) or from unregister (the   *)
(* connection dropped).  Resetting a database's token closes the           *)
(* connections registered at that moment.                                  *)
(*                                                                         *)
(* Every element of Conns is one WebSocket connection and every element of *)
(* Jobs one call of Dispatch (its uuid); each is used once.  Connections,  *)
(* jobs and resets are described by constant functions, so what a runner   *)
(* says in its hello, or where a job has to run, is arbitrary but fixed.   *)
(* The wire between the two sides is part of the state here; the actions   *)
(* of the runner process are in RunnerCli, the composition in              *)
(* RemoteExecution.                                                        *)
(***************************************************************************)
EXTENDS Naturals, Sequences

CONSTANTS
  Databases, Names, NodeTypes,
  Conns,          \* connections a runner process may open
  ConnDb,         \* the database whose token the connection presents
  HelloName,      \* the runner name in the connection's hello frame
  HelloTypes,     \* the node types in the connection's hello frame
  Jobs,           \* calls of Dispatch
  JobDb,          \* the database of the workflow that dispatches
  JobRunner,      \* the runner name the instance is bound to
  JobType,        \* the node type to execute
  Resets,         \* requests that reset a runner token
  ResetDb,        \* the database each of them is for
  OriginalToken,  \* the token in force before any of Resets
  NoConn,         \* no connection picked
  SendCap         \* capacity of a connection's send channel

ASSUME HubAssumption ==
  /\ ConnDb \in [Conns -> Databases]
  /\ HelloName \in [Conns -> Names]
  /\ HelloTypes \in [Conns -> SUBSET NodeTypes]
  /\ JobDb \in [Jobs -> Databases]
  /\ JobRunner \in [Jobs -> Names]
  /\ JobType \in [Jobs -> NodeTypes]
  /\ ResetDb \in [Resets -> Databases]
  /\ OriginalToken \notin Resets
  /\ NoConn \notin Conns
  /\ SendCap \in Nat \ {0}

VARIABLES
  token,      \* the token stored for each database, named by the reset that made it
  resetPc,    \* progress of each reset request
  toClose,    \* connections a reset has collected and not closed yet
  phase,      \* where the goroutine that serves the connection is
  connToken,  \* the token the connection was admitted with
  closed,     \* conn.closed is closed, and with it the server's socket
  send,       \* conn.send
  writing,    \* the writer goroutine is still in its loop
  handoff,    \* answers taken off the table and not yet in a result channel
  jobs,       \* hub.jobs: the pending jobs; a job's conn is picked[j]
  pc,         \* progress of each Dispatch
  picked,     \* the connection Dispatch picked
  reply,      \* the pending job's result channel (capacity one)
  outcome,    \* what Dispatch returned
  toRunner,   \* job frames on the wire
  toServer,   \* result frames on the wire
  link        \* the runner still holds its end of the connection

resetVars == <<token, resetPc, toClose>>
connVars  == <<phase, connToken, closed>>
sendVars  == <<send, writing>>
tableVars == <<handoff, jobs, reply>>
callVars  == <<pc, picked, outcome>>
hubVars   == <<resetVars, connVars, sendVars, tableVars, callVars>>
wireVars  == <<toRunner, toServer, link>>

\* Where a connection's goroutine is.  "serving" and "closing" are the
\* connections in hub.conns: register puts them there, unregister takes
\* them out.
Phases  == {"new", "resolved", "serving", "closing", "gone"}
conns   == {c \in Conns : phase[c] \in {"serving", "closing"}}

\* What a pending job can be answered with.
Results == {"output", "error"}
Answers == Results \cup {"disconnected"}
Frames  == [job : Jobs, result : Results]

\* The types, one group of variables each.
ResetTypeOK ==
  /\ token \in [Databases -> Resets \cup {OriginalToken}]
  /\ resetPc \in [Resets -> {"idle", "rotated", "collected"}]
  /\ toClose \in [Resets -> SUBSET Conns]

ConnTypeOK ==
  /\ phase \in [Conns -> Phases]
  /\ connToken \in [Conns -> Resets \cup {OriginalToken}]
  /\ closed \in [Conns -> BOOLEAN]

SendTypeOK ==
  /\ send \in [Conns -> Seq(Jobs)]
  /\ \A c \in Conns : Len(send[c]) <= SendCap
  /\ writing \in [Conns -> BOOLEAN]

TableTypeOK ==
  /\ handoff \in [Conns -> SUBSET (Jobs \X Answers)]
  /\ jobs \in SUBSET Jobs
  /\ reply \in [Jobs -> Answers \cup {"none"}]

\* A Dispatch that has entered the select statements has a connection.
CallTypeOK ==
  /\ pc \in [Jobs -> {"idle", "picked", "sending", "waiting", "leaving", "done"}]
  /\ picked \in [Jobs -> Conns \cup {NoConn}]
  /\ \A j \in Jobs : pc[j] \in {"picked", "sending", "waiting"} => picked[j] \in Conns
  /\ outcome \in [Jobs -> Answers \cup {"none", "not connected", "unsupported",
                                        "timeout", "cancelled"}]

WireTypeOK ==
  /\ toRunner \in [Conns -> Seq(Jobs)]
  /\ toServer \in [Conns -> Seq(Frames)]
  /\ link \in [Conns -> BOOLEAN]

HubTypeOK ==
  /\ ResetTypeOK /\ ConnTypeOK /\ SendTypeOK
  /\ TableTypeOK /\ CallTypeOK /\ WireTypeOK

HubInit ==
  /\ token = [db \in Databases |-> OriginalToken]
  /\ resetPc = [r \in Resets |-> "idle"]
  /\ toClose = [r \in Resets |-> {}]
  /\ phase = [c \in Conns |-> "new"]
  /\ connToken = [c \in Conns |-> OriginalToken]
  /\ closed = [c \in Conns |-> FALSE]
  /\ send = [c \in Conns |-> <<>>]
  /\ writing = [c \in Conns |-> FALSE]
  /\ handoff = [c \in Conns |-> {}]
  /\ jobs = {}
  /\ pc = [j \in Jobs |-> "idle"]
  /\ picked = [j \in Jobs |-> NoConn]
  /\ reply = [j \in Jobs |-> "none"]
  /\ outcome = [j \in Jobs |-> "none"]
  /\ toRunner = [c \in Conns |-> <<>>]
  /\ toServer = [c \in Conns |-> <<>>]
  /\ link = [c \in Conns |-> FALSE]

-----------------------------------------------------------------------------
(* hub.jobs.                                                               *)

\* Mutant of RemoveFromTable: the deletion is forgotten.
KeepOnTable(S) == UNCHANGED jobs

\* delete(hub.jobs, ...), by whoever answers a job and by Dispatch itself.
RemoveFromTable(S) == jobs' = jobs \ S

\* Mutant of HoldAnswer: the answer is thrown away.
HoldNothing(c, S, a) == UNCHANGED handoff

\* The goroutine of connection c holds the answer a for the jobs S, which it
\* has just taken off the table.
HoldAnswer(c, S, a) == handoff' = [handoff EXCEPT ![c] = S \X {a}]

-----------------------------------------------------------------------------
(* A connection: ServeWS, readLoop, writeLoop, unregister.                 *)

\* Mutant of Close: the socket stays open.
LeaveOpen(c) == UNCHANGED closed

\* conn.close, at most once effective.
Close(c) == closed' = [closed EXCEPT ![c] = TRUE]

\* ServeWS resolves the bearer token and upgrades.  A token that matches no
\* database is refused and leaves no trace.
ServeWS(c) ==
  /\ phase[c] = "new"
  /\ phase' = [phase EXCEPT ![c] = "resolved"]
  /\ connToken' = [connToken EXCEPT ![c] = token[ConnDb[c]]]
  /\ link' = [link EXCEPT ![c] = TRUE]
  /\ UNCHANGED <<resetVars, closed, sendVars, tableVars, callVars, toRunner, toServer>>

\* The hello frame arrives, the connection enters hub.conns and its writer
\* starts.
Register(c) ==
  /\ phase[c] = "resolved"
  /\ phase' = [phase EXCEPT ![c] = "serving"]
  /\ writing' = [writing EXCEPT ![c] = TRUE]
  /\ UNCHANGED <<resetVars, connToken, closed, send, tableVars, callVars, wireVars>>

\* No valid hello frame: the socket is closed and nothing was registered.
RegisterFails(c) ==
  /\ phase[c] = "resolved"
  /\ phase' = [phase EXCEPT ![c] = "gone"]
  /\ UNCHANGED <<resetVars, connToken, closed, sendVars, tableVars, callVars, wireVars>>

\* readLoop reads a result frame and takes its job off the table.  A frame
\* whose job is not pending any more is dropped.  Frames that were buffered
\* before the server closed its socket can still be read.
ReadResult(c) ==
  /\ phase[c] = "serving"
  /\ handoff[c] = {}
  /\ toServer[c] # <<>>
  /\ LET frame == Head(toServer[c])
     IN  /\ HoldAnswer(c, {frame.job} \cap jobs, frame.result)
         /\ RemoveFromTable({frame.job})
  /\ toServer' = [toServer EXCEPT ![c] = Tail(@)]
  /\ UNCHANGED <<resetVars, connVars, sendVars, reply, callVars, toRunner, link>>

\* readLoop or unregister sends an answer it holds on the pending job's
\* result channel, which has room for one.
HandOver(c) ==
  /\ \E answer \in handoff[c] :
       /\ reply[answer[1]] = "none"
       /\ reply' = [reply EXCEPT ![answer[1]] = answer[2]]
       /\ handoff' = [handoff EXCEPT ![c] = @ \ {answer}]
  /\ UNCHANGED <<resetVars, connVars, sendVars, jobs, callVars, wireVars>>

\* readLoop returns (the peer is gone, the socket is closed, no ping for
\* readTimeout) and unregister closes the connection.
ReadFails(c) ==
  /\ phase[c] = "serving"
  /\ handoff[c] = {}
  /\ phase' = [phase EXCEPT ![c] = "closing"]
  /\ Close(c)
  /\ UNCHANGED <<resetVars, connToken, sendVars, tableVars, callVars, wireVars>>

\* Mutants of Orphaned: every pending job, whatever its connection; none.
EveryJob(c) == jobs
NoOrphan(c) == {}

\* The pending jobs that were sent on the connection.
Orphaned(c) == {j \in jobs : picked[j] = c}

\* The critical section of unregister: the connection leaves hub.conns and
\* its pending jobs leave hub.jobs, to be failed one after the other.
Unregister(c) ==
  /\ phase[c] = "closing"
  /\ phase' = [phase EXCEPT ![c] = "gone"]
  /\ HoldAnswer(c, Orphaned(c), "disconnected")
  /\ RemoveFromTable(Orphaned(c))
  /\ UNCHANGED <<resetVars, connToken, closed, sendVars, reply, callVars, wireVars>>

\* writeLoop takes a job and its frame goes out on an open socket.
Write(c) ==
  /\ writing[c]
  /\ send[c] # <<>>
  /\ ~closed[c]
  /\ send' = [send EXCEPT ![c] = Tail(@)]
  /\ toRunner' = [toRunner EXCEPT ![c] = Append(@, Head(send[c]))]
  /\ UNCHANGED <<resetVars, connVars, writing, tableVars, callVars, toServer, link>>

\* Mutant of WriteFails: a frame that went out although its write timed out
\* stays queued and is written again.
WriteRetries(c) ==
  /\ writing[c]
  /\ send[c] # <<>>
  /\ Len(toRunner[c]) < 2
  /\ toRunner' = [toRunner EXCEPT ![c] = Append(@, Head(send[c]))]
  /\ UNCHANGED <<hubVars, toServer, link>>

\* writeLoop takes a job, the write fails (writeWait passed, socket broken or
\* closed), the job is lost, the connection is closed and the loop ends.
WriteFails(c) ==
  /\ writing[c]
  /\ send[c] # <<>>
  /\ send' = [send EXCEPT ![c] = Tail(@)]
  /\ Close(c)
  /\ writing' = [writing EXCEPT ![c] = FALSE]
  /\ UNCHANGED <<resetVars, phase, connToken, tableVars, callVars, wireVars>>

\* writeLoop sees conn.closed.
WriterStops(c) ==
  /\ writing[c]
  /\ closed[c]
  /\ writing' = [writing EXCEPT ![c] = FALSE]
  /\ UNCHANGED <<resetVars, connVars, send, tableVars, callVars, wireVars>>

-----------------------------------------------------------------------------
(* Dispatch.                                                               *)

\* The registered connections pick may return for a job.
Eligible(j) == {c \in conns : ConnDb[c] = JobDb[j] /\ HelloName[c] = JobRunner[j]}

Supports(c, j) == JobType[j] \in HelloTypes[c]

\* The rest of a Dispatch that returns o without having entered the table.
Refuse(j, o) ==
  /\ pc' = [pc EXCEPT ![j] = "done"]
  /\ outcome' = [outcome EXCEPT ![j] = o]
  /\ UNCHANGED <<resetVars, connVars, sendVars, tableVars, picked, wireVars>>

\* pick finds no registered connection of that database and name.
NotConnected(j) ==
  /\ pc[j] = "idle"
  /\ Eligible(j) = {}
  /\ Refuse(j, "not connected")

\* pick returns a connection that did not announce the node type.
Unsupported(j) ==
  /\ pc[j] = "idle"
  /\ \E c \in Eligible(j) : ~Supports(c, j)
  /\ Refuse(j, "unsupported")

\* pick returns any eligible connection, and it supports the node type.
Pick(j) ==
  /\ pc[j] = "idle"
  /\ \E c \in Eligible(j) :
       /\ Supports(c, j)
       /\ picked' = [picked EXCEPT ![j] = c]
  /\ pc' = [pc EXCEPT ![j] = "picked"]
  /\ UNCHANGED <<resetVars, connVars, sendVars, tableVars, outcome, wireVars>>

\* A second critical section enters the job in hub.jobs.
Enter(j) ==
  /\ pc[j] = "picked"
  /\ jobs' = jobs \cup {j}
  /\ pc' = [pc EXCEPT ![j] = "sending"]
  /\ UNCHANGED <<resetVars, connVars, sendVars, handoff, reply, picked, outcome, wireVars>>

\* Mutant of HasRoom: one too many.
HasRoomOffByOne(c) == Len(send[c]) <= SendCap

HasRoom(c) == Len(send[c]) < SendCap

\* First select: the send channel has room.  Go chooses freely between this
\* and the next two actions when several of them are ready.
Send(j) ==
  /\ pc[j] = "sending"
  /\ HasRoom(picked[j])
  /\ send' = [send EXCEPT ![picked[j]] = Append(@, j)]
  /\ pc' = [pc EXCEPT ![j] = "waiting"]
  /\ UNCHANGED <<resetVars, connVars, writing, tableVars, picked, outcome, wireVars>>

\* The rest of a Dispatch that stops waiting with result o.
Return(j, o) ==
  /\ pc' = [pc EXCEPT ![j] = "leaving"]
  /\ outcome' = [outcome EXCEPT ![j] = o]
  /\ UNCHANGED <<resetVars, connVars, sendVars, handoff, jobs, picked, wireVars>>

\* Mutant of SendRefused: the first select has no case for conn.closed.
SendNeverRefused(j) == FALSE

\* First select: conn.closed is closed.
SendRefused(j) ==
  /\ pc[j] = "sending"
  /\ closed[picked[j]]
  /\ Return(j, "not connected")
  /\ UNCHANGED reply

\* Both selects: the context of the run is done.
Cancelled(j) ==
  /\ pc[j] \in {"sending", "waiting"}
  /\ Return(j, "cancelled")
  /\ UNCHANGED reply

\* Second select: an answer is in the result channel.
Answered(j) ==
  /\ pc[j] = "waiting"
  /\ reply[j] # "none"
  /\ Return(j, reply[j])
  /\ reply' = [reply EXCEPT ![j] = "none"]

\* Second select: the job timer fires.
TimedOut(j) ==
  /\ pc[j] = "waiting"
  /\ Return(j, "timeout")
  /\ UNCHANGED reply

\* The deferred function of Dispatch.
Leave(j) ==
  /\ pc[j] = "leaving"
  /\ pc' = [pc EXCEPT ![j] = "done"]
  /\ RemoveFromTable({j})
  /\ UNCHANGED <<resetVars, connVars, sendVars, handoff, reply, picked, outcome, wireVars>>

-----------------------------------------------------------------------------
(* Resetting a database's token: ResetRunnerToken, DisconnectDatabase.     *)

ResetRunnerToken(r) ==
  /\ resetPc[r] = "idle"
  /\ token' = [token EXCEPT ![ResetDb[r]] = r]
  /\ resetPc' = [resetPc EXCEPT ![r] = "rotated"]
  /\ UNCHANGED <<toClose, connVars, sendVars, tableVars, callVars, wireVars>>

\* DisconnectDatabase collects the database's connections in one critical
\* section ...
CollectConns(r) ==
  /\ resetPc[r] = "rotated"
  /\ toClose' = [toClose EXCEPT ![r] = {c \in conns : ConnDb[c] = ResetDb[r]}]
  /\ resetPc' = [resetPc EXCEPT ![r] = "collected"]
  /\ UNCHANGED <<token, connVars, sendVars, tableVars, callVars, wireVars>>

\* ... and closes them one after the other; then the request is answered.
CloseConn(r) ==
  /\ \E c \in toClose[r] :
       /\ Close(c)
       /\ toClose' = [toClose EXCEPT ![r] = @ \ {c}]
  /\ UNCHANGED <<token, resetPc, phase, connToken, sendVars, tableVars, callVars, wireVars>>

ResetAnswered(r) == resetPc[r] = "collected" /\ toClose[r] = {}

-----------------------------------------------------------------------------
ConnStep(c) ==
  \/ ServeWS(c) \/ Register(c) \/ RegisterFails(c)
  \/ ReadResult(c) \/ HandOver(c) \/ ReadFails(c) \/ Unregister(c)
  \/ Write(c) \/ WriteFails(c) \/ WriterStops(c)

DispatchStep(j) ==
  \/ NotConnected(j) \/ Unsupported(j) \/ Pick(j) \/ Enter(j)
  \/ Send(j) \/ SendRefused(j) \/ Cancelled(j)
  \/ Answered(j) \/ TimedOut(j) \/ Leave(j)

ResetStep(r) == ResetRunnerToken(r) \/ CollectConns(r) \/ CloseConn(r)

HubNext ==
  \/ \E c \in Conns : ConnStep(c)
  \/ \E j \in Jobs : DispatchStep(j)
  \/ \E r \in Resets : ResetStep(r)
=============================================================================
