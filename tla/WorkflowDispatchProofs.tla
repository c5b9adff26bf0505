----------------------- MODULE WorkflowDispatchProofs -----------------------
(***************************************************************************)
(* Theorems about WorkflowDispatch: types, that a disabled workflow ends,  *)
(* and that channels and workers together implement TriggerDelivery.       *)
(***************************************************************************)
EXTENDS WorkflowDispatch, SequenceTheorems, TLAPS

-----------------------------------------------------------------------------
(* Types.                                                                  *)

\* A worker considers and offers while it has an event, only workflows of its
\* own database, and each of them once.
Matching ==
  \A db \in Databases :
    /\ cur[db] = NoEvent => todo[db] = {} /\ offer[db] = NoWorkflow
    /\ todo[db] \subseteq {w \in Workflows : DbOf[w] = db}
    /\ offer[db] # NoWorkflow => DbOf[offer[db]] = db /\ offer[db] \notin todo[db]

Typed == TypeOK /\ Matching

LEMMA InitTyped == Init => Typed
  BY DispatchAssumption DEF Init, Typed, TypeOK, Matching, Stages, Runs

LEMMA EventTyped ==
  ASSUME Typed, NEW e \in Events, EventStep(e)
  PROVE  Typed'
<1>. TypeOK
  BY DEF Typed
<1>1. Matching'
  BY DEF Typed, Matching, EventStep, RowChanged, WebhookCalled, Tick, RequestEnds, Drop, Accept,
         matchVars
<1>2. CASE RowChanged(e) \/ WebhookCalled(e) \/ Tick(e) \/ RequestEnds(e) \/ Drop(e)
  <2>0. /\ \/ UNCHANGED at
           \/ at' = [at EXCEPT ![e] = "sending"]
           \/ at' = [at EXCEPT ![e] = "dropped"]
        /\ UNCHANGED gone \/ gone' = gone \cup {e}
        /\ UNCHANGED clock \/ clock' = TickTime[e]
    BY <1>2 DEF RowChanged, WebhookCalled, Tick, RequestEnds, Drop, settingVars
  <2>1. at' \in [Events -> Stages] /\ gone' \in SUBSET Events /\ clock' \in Nat
    <3>1. /\ at \in [Events -> Stages] /\ gone \in SUBSET Events /\ clock \in Nat
          /\ TickTime[e] \in Nat
      BY DispatchAssumption DEF TypeOK
    <3>2. at' \in [Events -> Stages]
      BY <2>0, <3>1 DEF Stages
    <3>3. gone' \in SUBSET Events /\ clock' \in Nat
      BY <2>0, <3>1
    <3>. QED  BY <3>2, <3>3
  <2>2. /\ UNCHANGED <<matchVars, jobs, runVars, stored>>
        /\ UNCHANGED <<sender, events, accepted, enabled, crashes>>
    BY <1>2 DEF RowChanged, WebhookCalled, Tick, RequestEnds, Drop, settingVars
  <2>3. TypeOK'
    BY <2>1, <2>2 DEF TypeOK, matchVars, runVars
  <2>. QED  BY <1>1, <2>3 DEF Typed
<1>3. CASE Accept(e)
  <2>1. EventDb[e] \in Databases
    BY DispatchAssumption
  <2>2. /\ events' \in [Databases -> Seq(Events)]
        /\ accepted' \in [Databases -> Seq(Events)]
        /\ \A db \in Databases : Len(events'[db]) <= EventCap
    BY <1>3, <2>1, DispatchAssumption DEF TypeOK, Accept, HasRoom
  <2>3. TypeOK'
    BY <1>3, <2>2 DEF TypeOK, Stages, Accept, matchVars, runVars, settingVars
  <2>. QED  BY <1>1, <2>3 DEF Typed
<1>. QED  BY <1>2, <1>3 DEF EventStep

LEMMA MatchTyped ==
  ASSUME Typed, NEW db \in Databases, MatchStep(db)
  PROVE  Typed'
<1>. TypeOK /\ Matching
  BY DEF Typed
<1>1. CASE BeginMatching(db)
  <2>1. /\ events[db] \in Seq(Events) /\ events[db] # <<>>
        /\ Head(events[db]) \in Events /\ Tail(events[db]) \in Seq(Events)
        /\ Len(Tail(events[db])) <= EventCap
    BY <1>1, DispatchAssumption, HeadTailProperties DEF TypeOK, BeginMatching
  <2>2. TypeOK'
    BY <1>1, <2>1 DEF TypeOK, Stages, BeginMatching, Candidates, runVars, settingVars
  <2>3. Matching'
    BY <1>1, <2>1, DispatchAssumption DEF TypeOK, Matching, BeginMatching, Candidates
  <2>. QED  BY <2>2, <2>3 DEF Typed
<1>2. ASSUME NEW w \in Workflows, Consider(db, w) PROVE Typed'
  <2>1. PICK v \in {w, NoWorkflow} : offer' = [offer EXCEPT ![db] = v]
    BY <1>2 DEF Consider
  <2>2. TypeOK'
    BY <1>2, <2>1 DEF TypeOK, Consider, eventVars, runVars, settingVars
  <2>3. Matching'
    BY <1>2, <2>1, DispatchAssumption DEF TypeOK, Matching, Consider
  <2>. QED  BY <2>2, <2>3 DEF Typed
<1>3. CASE Enqueue(db)
  <2>1. offer[db] \in Workflows /\ cur[db] \in Events
    BY <1>3 DEF TypeOK, Matching, Enqueue
  <2>2. jobs' \in [Workflows -> Seq(Events)] /\ \A w \in Workflows : Len(jobs'[w]) <= JobCap
    BY <1>3, <2>1, DispatchAssumption DEF TypeOK, Enqueue
  <2>3. TypeOK'
    BY <1>3, <2>2 DEF TypeOK, Enqueue, eventVars, runVars, settingVars
  <2>4. Matching'
    BY <1>3 DEF TypeOK, Matching, Enqueue
  <2>. QED  BY <2>3, <2>4 DEF Typed
<1>4. CASE EndMatching(db)
  BY <1>4 DEF Typed, TypeOK, Matching, Stages, EndMatching, runVars, settingVars
<1>. QED  BY <1>1, <1>2, <1>3, <1>4 DEF MatchStep

\* A job that a run worker takes.
LEMMA TakeJob ==
  ASSUME TypeOK, NEW w \in Workflows, StartRun(w)
  PROVE  /\ jobs[w] \in Seq(Events) /\ Len(jobs[w]) \in Nat \ {0}
         /\ Head(jobs[w]) \in Events /\ Head(jobs[w]) = jobs[w][1]
         /\ jobs' = [jobs EXCEPT ![w] = Tail(jobs[w])]
         /\ Tail(jobs[w]) \in Seq(Events) /\ Len(Tail(jobs[w])) = Len(jobs[w]) - 1
         /\ \A i \in 1 .. Len(Tail(jobs[w])) : Tail(jobs[w])[i] = jobs[w][i + 1]
         /\ started' = [started EXCEPT ![w] = Append(started[w], Head(jobs[w]))]
  BY HeadTailProperties DEF TypeOK, StartRun

LEMMA RunTyped ==
  ASSUME Typed, NEW r \in Runs, RunStep(r)
  PROVE  Typed'
<1>. TypeOK
  BY DEF Typed
<1>0. WorkflowOf(r) \in Workflows /\ (r \notin Manuals => r \in Workflows)
  BY DispatchAssumption DEF WorkflowOf, Runs
<1>1. Matching'
  BY DEF Typed, Matching, RunStep, Expire, Finish, RunChangesRow, matchVars
<1>2. CASE Expire(r)
  <2>1. TypeOK'
    BY <1>2 DEF TypeOK, Expire, eventVars, matchVars, settingVars
  <2>. QED  BY <1>1, <2>1 DEF Typed
<1>3. CASE Finish(r)
  <2>1. stored' \in [Workflows -> SUBSET Nat]
    <3>1. runTime[r] \in Nat /\ stored \in [Workflows -> SUBSET Nat]
      BY DEF TypeOK
    <3>2. \/ UNCHANGED stored
          \/ stored' = [stored EXCEPT ![WorkflowOf(r)] = @ \cup {runTime[r]}]
      BY <1>3 DEF Finish
    <3>. QED  BY <1>0, <3>1, <3>2
  <2>2. /\ manual' \in [Manuals -> {"none", "running", "done"}]
        /\ worker' \in [Workflows -> Events \cup {NoEvent}]
    BY <1>0, <1>3 DEF TypeOK, Finish
  <2>3. TypeOK'
    BY <1>3, <2>1, <2>2 DEF TypeOK, Finish, eventVars, matchVars, settingVars
  <2>. QED  BY <1>1, <2>3 DEF Typed
<1>4. ASSUME NEW e \in Events, RunChangesRow(r, e) PROVE Typed'
  <2>1. TypeOK'
    BY <1>4 DEF TypeOK, Stages, RunChangesRow, matchVars, runVars, settingVars
  <2>. QED  BY <1>1, <2>1 DEF Typed
<1>. QED  BY <1>2, <1>3, <1>4 DEF RunStep

LEMMA WorkflowTyped ==
  ASSUME Typed, NEW w \in Workflows, StartRun(w) \/ Cleanup(w) \/ Disable(w)
  PROVE  Typed'
<1>. TypeOK
  BY DEF Typed
<1>1. Matching'
  BY DEF Typed, Matching, StartRun, Cleanup, Disable, matchVars
<1>2. CASE StartRun(w)
  <2>1. /\ jobs' \in [Workflows -> Seq(Events)] /\ started' \in [Workflows -> Seq(Events)]
        /\ \A v \in Workflows : Len(jobs'[v]) <= JobCap
    <3>1. started[w] \in Seq(Events) /\ Append(started[w], Head(jobs[w])) \in Seq(Events)
      BY <1>2, TakeJob, AppendProperties DEF TypeOK
    <3>2. Len(Tail(jobs[w])) <= JobCap /\ Tail(jobs[w]) \in Seq(Events)
      BY <1>2, TakeJob, DispatchAssumption DEF TypeOK
    <3>3. /\ jobs' = [jobs EXCEPT ![w] = Tail(jobs[w])]
          /\ started' = [started EXCEPT ![w] = Append(started[w], Head(jobs[w]))]
      BY <1>2, TakeJob
    <3>. QED  BY <3>1, <3>2, <3>3 DEF TypeOK
  <2>2. /\ worker' \in [Workflows -> Events \cup {NoEvent}]
        /\ runTime' \in [Runs -> Nat]
    BY <1>2, TakeJob, DispatchAssumption DEF TypeOK, StartRun
  <2>3. TypeOK'
    BY <1>2, <2>1, <2>2 DEF TypeOK, StartRun, eventVars, matchVars, settingVars
  <2>. QED  BY <1>1, <2>3 DEF Typed
<1>3. CASE Cleanup(w) \/ Disable(w)
  <2>1. Kept(w) \subseteq stored[w]
    BY DEF Kept
  <2>2. TypeOK'
    BY <1>3, <2>1 DEF TypeOK, Cleanup, Disable, eventVars, matchVars, runVars, settingVars
  <2>. QED  BY <1>1, <2>2 DEF Typed
<1>. QED  BY <1>2, <1>3

LEMMA NextTyped == Typed /\ [Next]_vars => Typed'
<1> SUFFICES ASSUME Typed, [Next]_vars PROVE Typed'
  OBVIOUS
<1>1. CASE UNCHANGED vars
  BY <1>1 DEF vars, eventVars, matchVars, runVars, settingVars, Typed, TypeOK, Matching
<1>2. ASSUME NEW m \in Manuals, StartManual(m) PROVE Typed'
  <2>1. runTime' \in [Runs -> Nat] /\ manual' \in [Manuals -> {"none", "running", "done"}]
    BY <1>2 DEF Typed, TypeOK, StartManual, Runs, settingVars
  <2>. QED  BY <1>2, <2>1 DEF Typed, TypeOK, Matching, StartManual, eventVars, matchVars, settingVars
<1>3. CASE Crash
  BY <1>3, DispatchAssumption DEF Typed, TypeOK, Matching, Stages, Crash
<1>. QED  BY <1>1, <1>2, <1>3, EventTyped, MatchTyped, RunTyped, WorkflowTyped DEF Next

LEMMA TypedInvariant == Spec => []Typed
  BY InitTyped, NextTyped, PTL DEF Spec

\* Every reachable state is type correct: the channels keep their capacities
\* and a job that is offered has an event.
THEOREM TypeCorrect == Spec => []TypeOK
<1>1. Typed => TypeOK
  BY DEF Typed
<1>. QED  BY <1>1, TypedInvariant, PTL

\* Whatever else happens moves no event and no job.
LEMMA OtherSteps ==
  ASSUME TypeOK, [Next]_vars
  PROVE  \/ \E e \in Events : Accept(e)
         \/ \E db \in Databases : \/ BeginMatching(db) \/ Enqueue(db) \/ EndMatching(db)
                                  \/ \E w \in Workflows : Consider(db, w)
         \/ \E w \in Workflows : StartRun(w)
         \/ Crash
         \/ /\ UNCHANGED <<accepted, events, cur, jobs, started, todo, offer>>
            /\ \A e \in Events : at'[e] \in {"none", "sending"} => at[e] \in {"none", "sending"}
<1> DEFINE Quiet ==
      /\ UNCHANGED <<accepted, events, cur, jobs, started, todo, offer>>
      /\ \A e \in Events : at'[e] \in {"none", "sending"} => at[e] \in {"none", "sending"}
<1>1. ASSUME NEW e \in Events, EventStep(e), ~Accept(e) PROVE Quiet
  BY <1>1 DEF TypeOK, EventStep, RowChanged, WebhookCalled, Tick, RequestEnds, Drop, matchVars, runVars
<1>2. ASSUME NEW r \in Runs, RunStep(r) PROVE Quiet
  <2>1. CASE Expire(r) \/ Finish(r)
    BY <2>1 DEF Expire, Finish, eventVars, matchVars
  <2>2. CASE \E e \in Events : RunChangesRow(r, e)
    BY <2>2 DEF TypeOK, RunChangesRow, matchVars, runVars
  <2>. QED  BY <1>2, <2>1, <2>2 DEF RunStep
<1>3. ASSUME NEW w \in Workflows, Cleanup(w) \/ Disable(w) PROVE Quiet
  BY <1>3 DEF Cleanup, Disable, eventVars, matchVars, runVars
<1>4. ASSUME NEW m \in Manuals, StartManual(m) PROVE Quiet
  BY <1>4 DEF StartManual, eventVars, matchVars
<1>5. CASE UNCHANGED vars
  BY <1>5 DEF vars, eventVars, matchVars, runVars
<1>. QED  BY <1>1, <1>2, <1>3, <1>4, <1>5 DEF Next, MatchStep

-----------------------------------------------------------------------------
(* A disabled workflow ends.                                               *)

\* Once a disabled workflow's jobs are started no event starts it: offers come
\* from the list made when the event was taken, which leaves it out.
THEOREM DisabledWorkflowsEnd == Spec => DisabledEnds
<1>1. ASSUME Typed, [Next]_vars, NEW w \in Workflows, ~enabled[w], ~Pending(w)
      PROVE  started'[w] = started[w] /\ ~Pending(w)'
  <2>. /\ jobs[w] = <<>> /\ \A db \in Databases : w \notin todo[db] /\ offer[db] # w
       /\ TypeOK /\ Matching
    BY <1>1 DEF Typed, Pending
  <2>0. ASSUME jobs'[w] = <<>>, started'[w] = started[w],
               \A db \in Databases : w \notin todo'[db] /\ offer'[db] # w
        PROVE  started'[w] = started[w] /\ ~Pending(w)'
    BY <2>0 DEF Pending
  <2>1. CASE UNCHANGED <<jobs, started, todo, offer>>
    BY <2>0, <2>1
  <2>2. ASSUME NEW db \in Databases, BeginMatching(db)
        PROVE  started'[w] = started[w] /\ ~Pending(w)'
    <3>1. w \notin Candidates(db)
      BY <1>1 DEF Candidates
    <3>. QED  BY <2>0, <2>2, <3>1 DEF TypeOK, BeginMatching, runVars
  <2>3. ASSUME NEW db \in Databases, NEW v \in Workflows, Consider(db, v)
        PROVE  started'[w] = started[w] /\ ~Pending(w)'
    <3>1. PICK o \in {v, NoWorkflow} : offer' = [offer EXCEPT ![db] = o]
      BY <2>3 DEF Consider
    <3>2. v # w /\ NoWorkflow # w
      BY <2>3, DispatchAssumption DEF Consider
    <3>. QED  BY <2>0, <2>3, <3>1, <3>2 DEF TypeOK, Consider, runVars
  <2>4. ASSUME NEW db \in Databases, Enqueue(db)
        PROVE  started'[w] = started[w] /\ ~Pending(w)'
    BY <2>0, <2>4, DispatchAssumption DEF TypeOK, Enqueue, runVars
  <2>5. ASSUME NEW v \in Workflows, StartRun(v)
        PROVE  started'[w] = started[w] /\ ~Pending(w)'
    BY <2>0, <2>5 DEF TypeOK, StartRun, matchVars
  <2>6. CASE Crash
    BY <2>0, <2>6, DispatchAssumption DEF Crash
  <2>7. CASE \E db \in Databases : EndMatching(db)
    BY <2>1, <2>7 DEF EndMatching, runVars
  <2>8. CASE \E e \in Events : Accept(e)
    BY <2>1, <2>8 DEF Accept, matchVars, runVars
  <2>. QED  BY <1>1, <2>1, <2>2, <2>3, <2>4, <2>5, <2>6, <2>7, <2>8, OtherSteps
<1>2. Typed /\ [Next]_vars =>
        [\A w \in Workflows : ~enabled[w] /\ ~Pending(w) => started'[w] = started[w] /\ ~Pending(w)']_vars
  BY <1>1
<1>. QED  BY <1>2, TypedInvariant, PTL DEF Spec, DisabledEnds

-----------------------------------------------------------------------------
(* Delivery in order.                                                      *)

\* How many of the events a database accepted have left its channel.
Taken(db) == Len(accepted[db]) - Len(events[db])

Upto(db, n, e) == \E k \in 1 .. n : accepted[db][k] = e

Precedes(db, d, e) ==
  \E i, k \in 1 .. Len(accepted[db]) : i < k /\ accepted[db][i] = d /\ accepted[db][k] = e

\* The channel holds the events accepted last, the worker the one before them.
ChannelIsSuffix ==
  \A db \in Databases :
    /\ Len(events[db]) <= Len(accepted[db])
    /\ \A i \in 1 .. Len(events[db]) : events[db][i] = accepted[db][Taken(db) + i]
    /\ cur[db] # NoEvent => Taken(db) > 0 /\ cur[db] = accepted[db][Taken(db)]

\* An event that is not dispatched yet was not accepted.
AcceptedOnce ==
  \A e \in Events : at[e] \in {"none", "sending"} =>
    \A db \in Databases : ~Upto(db, Len(accepted[db]), e)

\* The jobs of a workflow, and the one it was started with last.
OnLine(w, e) ==
  \/ \E i \in 1 .. Len(jobs[w]) : e = jobs[w][i]
  \/ started[w] # <<>> /\ e = started[w][Len(started[w])]

\* The workflow may still get a job for the event under way.
Open(w) == w \in todo[DbOf[w]] \/ offer[DbOf[w]] = w

LineTaken ==
  \A w \in Workflows, e \in Events : OnLine(w, e) =>
    /\ Upto(DbOf[w], Taken(DbOf[w]), e)
    /\ Open(w) => Upto(DbOf[w], Taken(DbOf[w]) - 1, e)

\* One job before another one on a workflow's line.
Follows(w, d, e) ==
  \/ \E i, k \in 1 .. Len(jobs[w]) : i < k /\ d = jobs[w][i] /\ e = jobs[w][k]
  \/ /\ started[w] # <<>> /\ d = started[w][Len(started[w])]
     /\ \E k \in 1 .. Len(jobs[w]) : e = jobs[w][k]

LineAscends ==
  \A w \in Workflows, d, e \in Events : Follows(w, d, e) => Precedes(DbOf[w], d, e)

DeliveryInv == ChannelIsSuffix /\ AcceptedOnce /\ LineTaken /\ LineAscends

LEMMA InitDelivery == Init => DeliveryInv
  BY DispatchAssumption DEF Init, DeliveryInv, ChannelIsSuffix, AcceptedOnce, LineTaken, LineAscends,
     Taken, Upto, OnLine, Open, Follows

\* What was accepted stays where it is.
LEMMA Stays ==
  ASSUME NEW db, Len(accepted[db]) \in Nat, Len(accepted'[db]) \in Nat,
         Len(accepted[db]) <= Len(accepted'[db]),
         \A k \in 1 .. Len(accepted[db]) : accepted'[db][k] = accepted[db][k]
  PROVE  /\ \A n, m \in Int : \A e : n <= m /\ n <= Len(accepted[db]) /\ Upto(db, n, e) => Upto(db, m, e)'
         /\ \A d, e : Precedes(db, d, e) => Precedes(db, d, e)'
<1>1. ASSUME NEW n \in Int, NEW m \in Int, NEW e,
             n <= m, n <= Len(accepted[db]), Upto(db, n, e)
      PROVE  Upto(db, m, e)'
  <2>1. PICK k \in 1 .. n : accepted[db][k] = e
    BY <1>1 DEF Upto
  <2>2. k \in 1 .. m /\ accepted'[db][k] = e
    BY <1>1, <2>1
  <2>. QED  BY <2>2 DEF Upto
<1>2. ASSUME NEW d, NEW e, Precedes(db, d, e) PROVE Precedes(db, d, e)'
  <2>1. PICK i, k \in 1 .. Len(accepted[db]) :
          i < k /\ accepted[db][i] = d /\ accepted[db][k] = e
    BY <1>2 DEF Precedes
  <2>2. /\ i \in 1 .. Len(accepted'[db]) /\ k \in 1 .. Len(accepted'[db])
        /\ accepted'[db][i] = d /\ accepted'[db][k] = e
    BY <2>1
  <2>. QED  BY <2>1, <2>2 DEF Precedes
<1>. QED  BY <1>1, <1>2

LEMMA Lengths ==
  ASSUME TypeOK
  PROVE  /\ \A db \in Databases : /\ accepted[db] \in Seq(Events) /\ events[db] \in Seq(Events)
                                  /\ Len(accepted[db]) \in Nat /\ Len(events[db]) \in Nat
         /\ \A w \in Workflows : /\ jobs[w] \in Seq(Events) /\ Len(jobs[w]) \in Nat
                                 /\ started[w] \in Seq(Events) /\ Len(started[w]) \in Nat
                                 /\ DbOf[w] \in Databases
  BY DispatchAssumption, LenProperties DEF TypeOK

\* Nothing new joins a line, and what left the channel stays away from it.
LEMMA LineKept ==
  ASSUME Typed, Typed', DeliveryInv,
         \A db \in Databases :
           /\ Len(accepted[db]) <= Len(accepted'[db]) /\ Taken(db) <= Taken(db)'
           /\ \A k \in 1 .. Len(accepted[db]) : accepted'[db][k] = accepted[db][k],
         \A w \in Workflows :
           /\ jobs'[w] \in {jobs[w], <<>>} /\ started'[w] = started[w]
           /\ Open(w)' => Open(w) \/ Taken(DbOf[w]) < Taken(DbOf[w])'
  PROVE  LineTaken' /\ LineAscends'
<1>1. \A db \in Databases :
        /\ Len(accepted[db]) \in Nat /\ Len(accepted'[db]) \in Nat
        /\ Taken(db) \in Int /\ Taken(db)' \in Int /\ Taken(db) <= Len(accepted[db])
  BY LenProperties DEF Typed, TypeOK, Taken
<1>2. \A w \in Workflows : DbOf[w] \in Databases
  BY DispatchAssumption
<1>3. \A w \in Workflows, e \in Events : OnLine(w, e)' => OnLine(w, e)
  BY DEF OnLine
<1>4. LineTaken'
  <2> SUFFICES ASSUME NEW w \in Workflows, NEW e \in Events, OnLine(w, e)
               PROVE  /\ Upto(DbOf[w], Taken(DbOf[w]), e)'
                      /\ Open(w)' => Upto(DbOf[w], Taken(DbOf[w]) - 1, e)'
    BY <1>3 DEF LineTaken
  <2> DEFINE db == DbOf[w]
  <2>1. /\ Upto(db, Taken(db), e)
        /\ Open(w) => Upto(db, Taken(db) - 1, e)
    BY DEF DeliveryInv, LineTaken
  <2>2. PICK n \in Int, m \in Int : n = Taken(db) /\ m = Taken(db)'
    BY <1>1, <1>2
  <2>3. \A p, q \in Int : p <= q /\ p <= Len(accepted[db]) /\ Upto(db, p, e) => Upto(db, q, e)'
    BY <1>1, <1>2, Stays
  <2>4. n <= m /\ n <= Len(accepted[db]) /\ Upto(db, n, e) /\ (Open(w) => Upto(db, n - 1, e))
    BY <1>1, <1>2, <2>1, <2>2
  <2>5. Upto(db, m, e)'
    BY <2>3, <2>4
  <2>6. ASSUME Open(w)' PROVE Upto(db, m - 1, e)'
    <3>1. CASE Open(w)
      <4>1. n - 1 \in Int /\ m - 1 \in Int /\ n - 1 <= m - 1 /\ n - 1 <= Len(accepted[db])
        BY <1>1, <1>2, <2>4
      <4>. QED  BY <2>3, <2>4, <3>1, <4>1
    <3>2. CASE n < m
      <4>1. m - 1 \in Int /\ n <= m - 1
        BY <3>2
      <4>. QED  BY <2>3, <2>4, <4>1
    <3>. QED  BY <2>2, <2>6, <3>1, <3>2
  <2>. QED  BY <2>2, <2>5, <2>6 DEF Upto
<1>5. LineAscends'
  <2>1. \A w \in Workflows : \A d, e : Precedes(DbOf[w], d, e) => Precedes(DbOf[w], d, e)'
    BY <1>1, <1>2, Stays
  <2>2. \A w \in Workflows : \A d, e : Follows(w, d, e)' => Follows(w, d, e)
    BY DEF Follows
  <2>. QED  BY <2>1, <2>2 DEF DeliveryInv, LineAscends
<1>. QED  BY <1>4, <1>5

\* Lengths of the channel and of what was accepted.
LEMMA Differences ==
  ASSUME NEW a \in Nat, NEW b \in Nat, b <= a
  PROVE  /\ a - b \in Nat /\ a - b <= a /\ (a - b > 0 => a - b \in 1 .. a)
         /\ \A i \in 1 .. b : (a - b) + i \in 1 .. a
         /\ (a + 1) - (b + 1) = a - b /\ (a - b) + (b + 1) = a + 1
         /\ b > 0 => a - (b - 1) = (a - b) + 1
  OBVIOUS

LEMMA TakenIs ==
  ASSUME Typed, DeliveryInv, NEW db \in Databases
  PROVE  \E a, b \in Nat : /\ a = Len(accepted[db]) /\ b = Len(events[db]) /\ b <= a
                          /\ Taken(db) = a - b /\ Taken(db) \in Nat /\ Taken(db) <= a
<1>1. PICK a, b \in Nat : a = Len(accepted[db]) /\ b = Len(events[db])
  BY LenProperties DEF Typed, TypeOK
<1>2. b <= a /\ Taken(db) = a - b
  BY <1>1 DEF DeliveryInv, ChannelIsSuffix, Taken
<1>. QED  BY <1>1, <1>2, Differences

\* The channels stay as they are; events may be dispatched or dropped.
LEMMA ChannelKept ==
  ASSUME DeliveryInv, UNCHANGED accepted, UNCHANGED events, UNCHANGED cur,
         \A e \in Events : at'[e] \in {"none", "sending"} => at[e] \in {"none", "sending"}
  PROVE  ChannelIsSuffix' /\ AcceptedOnce'
  BY DEF DeliveryInv, ChannelIsSuffix, AcceptedOnce, Taken, Upto

\* A step that moves no event or job; it may dispatch or drop an event.
LEMMA DeliveryUntouched ==
  ASSUME DeliveryInv, UNCHANGED <<accepted, events, cur, jobs, started, todo, offer>>,
         \A e \in Events : at'[e] \in {"none", "sending"} => at[e] \in {"none", "sending"}
  PROVE  DeliveryInv'
<1>1. ChannelIsSuffix' /\ AcceptedOnce'
  BY ChannelKept
<1>2. LineTaken'
  BY DEF DeliveryInv, LineTaken, OnLine, Open, Taken, Upto
<1>3. LineAscends'
  BY DEF DeliveryInv, LineAscends, Precedes, Follows
<1>. QED  BY <1>1, <1>2, <1>3 DEF DeliveryInv

LEMMA AcceptDelivery ==
  ASSUME Typed, Typed', DeliveryInv, NEW e \in Events, Accept(e)
  PROVE  DeliveryInv'
<1>0. PICK db \in Databases : db = EventDb[e]
  BY DispatchAssumption
<1>1. /\ \A d \in Databases : /\ accepted[d] \in Seq(Events) /\ Len(accepted[d]) \in Nat
                              /\ events[d] \in Seq(Events) /\ Len(events[d]) \in Nat
  BY DispatchAssumption, LenProperties DEF Typed, TypeOK
<1>2. /\ accepted' = [accepted EXCEPT ![db] = Append(accepted[db], e)]
      /\ events' = [events EXCEPT ![db] = Append(events[db], e)]
      /\ at' = [at EXCEPT ![e] = "queued"] /\ at[e] = "sending"
      /\ UNCHANGED <<cur, todo, offer, jobs, started>>
  BY <1>0 DEF Accept, matchVars, runVars
<1>3. /\ Len(accepted'[db]) = Len(accepted[db]) + 1 /\ Len(events'[db]) = Len(events[db]) + 1
      /\ \A k \in 1 .. Len(accepted[db]) : accepted'[db][k] = accepted[db][k]
      /\ \A k \in 1 .. Len(events[db]) : events'[db][k] = events[db][k]
      /\ accepted'[db][Len(accepted[db]) + 1] = e /\ events'[db][Len(events[db]) + 1] = e
  BY <1>1, <1>2, AppendProperties DEF Typed, TypeOK
<1>4. \A d \in Databases \ {db} : accepted'[d] = accepted[d] /\ events'[d] = events[d]
  BY <1>1, <1>2 DEF Typed, TypeOK
<1>5. PICK a, b \in Nat : /\ a = Len(accepted[db]) /\ b = Len(events[db]) /\ b <= a
                           /\ Taken(db) = a - b
  BY TakenIs
<1>9. \A d \in Databases : Taken(d)' = Taken(d) /\ Taken(d) \in Int
  <2>1. Taken(db)' = (a + 1) - (b + 1)
    BY <1>3, <1>5 DEF Taken
  <2>2. Taken(db)' = Taken(db)
    BY <1>5, <2>1, Differences
  <2>3. \A d \in Databases \ {db} : Taken(d)' = Taken(d)
    BY <1>4 DEF Taken
  <2>. QED  BY <2>2, <2>3, TakenIs
<1>6. ChannelIsSuffix'
  <2>1. \A d \in Databases : cur'[d] = cur[d]
    BY <1>2
  <2>2. ASSUME NEW d \in Databases, d # db
        PROVE  /\ Len(events'[d]) <= Len(accepted'[d])
               /\ \A i \in 1 .. Len(events'[d]) : events'[d][i] = accepted'[d][Taken(d)' + i]
               /\ cur'[d] # NoEvent => Taken(d)' > 0 /\ cur'[d] = accepted'[d][Taken(d)']
    BY <1>4, <1>9, <2>1, <2>2 DEF DeliveryInv, ChannelIsSuffix
  <2>3. /\ \A i \in 1 .. b : events[db][i] = accepted[db][(a - b) + i]
        /\ cur[db] # NoEvent => a - b > 0 /\ cur[db] = accepted[db][a - b]
    <3>1. /\ \A i \in 1 .. Len(events[db]) : events[db][i] = accepted[db][Taken(db) + i]
          /\ cur[db] # NoEvent => Taken(db) > 0 /\ cur[db] = accepted[db][Taken(db)]
      BY DEF DeliveryInv, ChannelIsSuffix
    <3>. QED  BY <1>5, <3>1
  <2>4. ASSUME NEW i \in 1 .. b + 1 PROVE events'[db][i] = accepted'[db][(a - b) + i]
    <3>1. CASE i = b + 1
      BY <1>3, <1>5, <3>1, Differences
    <3>2. CASE i \in 1 .. b
      BY <1>3, <1>5, <2>3, <3>2, Differences
    <3>. QED  BY <3>1, <3>2
  <2>5. cur'[db] # NoEvent => a - b > 0 /\ cur'[db] = accepted'[db][a - b]
    BY <1>3, <1>5, <2>1, <2>3, Differences
  <2>6. /\ Len(events'[db]) = b + 1 /\ Len(accepted'[db]) = a + 1 /\ b + 1 <= a + 1
        /\ Taken(db)' = a - b
    <3>1. Len(events'[db]) = b + 1 /\ Len(accepted'[db]) = a + 1
      BY <1>3, <1>5
    <3>2. Taken(db)' = a - b
      BY <1>5, <1>9
    <3>. QED  BY <1>5, <3>1, <3>2
  <2>7. /\ Len(events'[db]) <= Len(accepted'[db])
        /\ \A i \in 1 .. Len(events'[db]) : events'[db][i] = accepted'[db][Taken(db)' + i]
        /\ cur'[db] # NoEvent => Taken(db)' > 0 /\ cur'[db] = accepted'[db][Taken(db)']
    BY <2>4, <2>5, <2>6
  <2>. QED  BY <2>2, <2>7 DEF ChannelIsSuffix
<1>7. AcceptedOnce'
  <2> SUFFICES ASSUME NEW f \in Events, at'[f] \in {"none", "sending"}, NEW d \in Databases,
                      NEW k \in 1 .. Len(accepted'[d]), accepted'[d][k] = f
               PROVE  FALSE
    BY DEF AcceptedOnce, Upto
  <2>1. f # e /\ at[f] \in {"none", "sending"}
    BY <1>2 DEF Typed, TypeOK
  <2>2. k \in 1 .. Len(accepted[d]) /\ accepted[d][k] = f
    BY <1>1, <1>3, <1>4, <2>1
  <2>. QED  BY <2>1, <2>2 DEF DeliveryInv, AcceptedOnce, Upto
<1>8. LineTaken' /\ LineAscends'
  <2>1. \A d \in Databases :
          /\ Len(accepted[d]) <= Len(accepted'[d]) /\ Taken(d) <= Taken(d)'
          /\ \A k \in 1 .. Len(accepted[d]) : accepted'[d][k] = accepted[d][k]
    BY <1>1, <1>3, <1>4, <1>9
  <2>2. \A w \in Workflows : /\ jobs'[w] \in {jobs[w], <<>>} /\ started'[w] = started[w]
                             /\ Open(w)' => Open(w) \/ Taken(DbOf[w]) < Taken(DbOf[w])'
    BY <1>2 DEF Open
  <2>. QED  BY <2>1, <2>2, LineKept
<1>. QED  BY <1>6, <1>7, <1>8 DEF DeliveryInv

LEMMA BeginDelivery ==
  ASSUME Typed, Typed', DeliveryInv, NEW db \in Databases, BeginMatching(db)
  PROVE  DeliveryInv'
<1>1. /\ \A d \in Databases : /\ accepted[d] \in Seq(Events) /\ Len(accepted[d]) \in Nat
                              /\ events[d] \in Seq(Events) /\ Len(events[d]) \in Nat
      /\ events[db] # <<>> /\ cur[db] = NoEvent
  BY LenProperties DEF Typed, TypeOK, BeginMatching
<1>2. /\ events' = [events EXCEPT ![db] = Tail(events[db])]
      /\ cur' = [cur EXCEPT ![db] = Head(events[db])]
      /\ at' = [at EXCEPT ![Head(events[db])] = "matching"]
      /\ todo' = [todo EXCEPT ![db] = Candidates(db)]
      /\ UNCHANGED <<accepted, offer, jobs, started>>
  BY DEF BeginMatching, runVars
<1>3. /\ Len(events[db]) > 0 /\ Len(events'[db]) = Len(events[db]) - 1
      /\ cur'[db] = events[db][1]
      /\ \A i \in 1 .. Len(events'[db]) : events'[db][i] = events[db][i + 1]
  BY <1>1, <1>2, HeadTailProperties DEF Typed, TypeOK
<1>4. \A d \in Databases \ {db} : events'[d] = events[d] /\ cur'[d] = cur[d] /\ todo'[d] = todo[d]
  BY <1>2 DEF Typed, TypeOK
<1>5. PICK a, b \in Nat : /\ a = Len(accepted[db]) /\ b = Len(events[db]) /\ b <= a
                           /\ Taken(db) = a - b /\ Taken(db) \in Nat
  BY TakenIs
<1>9. \A d \in Databases : Taken(d) \in Int /\ Taken(d)' = IF d = db THEN Taken(d) + 1 ELSE Taken(d)
  <2>1. Taken(db)' = a - (b - 1)
    BY <1>2, <1>3, <1>5 DEF Taken
  <2>2. Taken(db)' = Taken(db) + 1
    BY <1>3, <1>5, <2>1, Differences
  <2>3. \A d \in Databases \ {db} : Taken(d)' = Taken(d)
    BY <1>2, <1>4 DEF Taken
  <2>. QED  BY <2>2, <2>3, TakenIs
<1>6. ChannelIsSuffix'
  <2>1. ASSUME NEW d \in Databases, d # db
        PROVE  /\ Len(events'[d]) <= Len(accepted'[d])
               /\ \A i \in 1 .. Len(events'[d]) : events'[d][i] = accepted'[d][Taken(d)' + i]
               /\ cur'[d] # NoEvent => Taken(d)' > 0 /\ cur'[d] = accepted'[d][Taken(d)']
    BY <1>2, <1>4, <1>9, <2>1 DEF DeliveryInv, ChannelIsSuffix
  <2>2. /\ Len(events'[db]) <= Len(accepted[db])
        /\ \A i \in 1 .. Len(events'[db]) : events'[db][i] = accepted[db][Taken(db) + 1 + i]
        /\ Taken(db) + 1 > 0 /\ cur'[db] = accepted[db][Taken(db) + 1]
    <3>1. /\ Len(events[db]) <= Len(accepted[db])
          /\ \A i \in 1 .. Len(events[db]) : events[db][i] = accepted[db][Taken(db) + i]
      BY DEF DeliveryInv, ChannelIsSuffix
    <3>2. Taken(db) >= 0 /\ Taken(db) \in Int
      BY <1>5
    <3>3. \A i \in 1 .. Len(events'[db]) :
            i + 1 \in 1 .. Len(events[db]) /\ Taken(db) + (i + 1) = Taken(db) + 1 + i
      BY <1>1, <1>3, <3>2
    <3>4. 1 \in 1 .. Len(events[db])
      BY <1>1, <1>3
    <3>5. events[db][1] = accepted[db][Taken(db) + 1]
      BY <3>1, <3>4
    <3>6. \A i \in 1 .. Len(events'[db]) : events'[db][i] = accepted[db][Taken(db) + 1 + i]
      BY <1>3, <3>1, <3>3
    <3>. QED  BY <1>1, <1>3, <3>1, <3>2, <3>5, <3>6
  <2>. QED  BY <1>2, <1>9, <2>1, <2>2 DEF ChannelIsSuffix
<1>7. AcceptedOnce'
  BY <1>2 DEF DeliveryInv, AcceptedOnce, Upto, Typed, TypeOK
<1>8. LineTaken' /\ LineAscends'
  <2>1. \A d \in Databases :
          /\ Len(accepted[d]) <= Len(accepted'[d]) /\ Taken(d) <= Taken(d)'
          /\ \A k \in 1 .. Len(accepted[d]) : accepted'[d][k] = accepted[d][k]
    BY <1>1, <1>2, <1>9
  <2>2. \A w \in Workflows : /\ jobs'[w] \in {jobs[w], <<>>} /\ started'[w] = started[w]
                             /\ Open(w)' => Open(w) \/ Taken(DbOf[w]) < Taken(DbOf[w])'
    <3> SUFFICES ASSUME NEW w \in Workflows
                 PROVE  Open(w)' => Open(w) \/ Taken(DbOf[w]) < Taken(DbOf[w])'
      BY <1>2
    <3>1. DbOf[w] \in Databases
      BY DispatchAssumption
    <3>. QED  BY <1>2, <1>4, <1>9, <3>1 DEF Open
  <2>. QED  BY <2>1, <2>2, LineKept
<1>. QED  BY <1>6, <1>7, <1>8 DEF DeliveryInv

\* The other steps that take no job: lists and offers shrink, or all is lost.
LEMMA OtherDelivery ==
  ASSUME Typed, Typed', DeliveryInv,
         Crash \/ \E db \in Databases : EndMatching(db) \/ \E w \in Workflows : Consider(db, w)
  PROVE  DeliveryInv'
<1>1. \A d \in Databases : /\ accepted[d] \in Seq(Events) /\ Len(accepted[d]) \in Nat
                           /\ events[d] \in Seq(Events) /\ Len(events[d]) \in Nat
                           /\ Len(events[d]) <= Len(accepted[d])
  BY LenProperties DEF Typed, TypeOK, DeliveryInv, ChannelIsSuffix
<1>2. /\ UNCHANGED <<accepted, started>>
      /\ \A e \in Events : at'[e] \in {"none", "sending"} => at[e] \in {"none", "sending"}
      /\ \A w \in Workflows : jobs'[w] \in {jobs[w], <<>>}
      /\ \A d \in Databases : cur'[d] \in {cur[d], NoEvent}
  <2>1. CASE Crash
    BY <2>1 DEF Crash
  <2>2. ASSUME NEW db \in Databases, EndMatching(db)
        PROVE  /\ UNCHANGED <<accepted, started, jobs>>
               /\ \A e \in Events : at'[e] \in {"none", "sending"} => at[e] \in {"none", "sending"}
               /\ \A d \in Databases : cur'[d] \in {cur[d], NoEvent}
    BY <2>2 DEF Typed, TypeOK, EndMatching, runVars
  <2>3. CASE \E db \in Databases, w \in Workflows : Consider(db, w)
    BY <2>3 DEF Consider, eventVars, runVars
  <2>. QED  BY <2>1, <2>2, <2>3
<1>3. UNCHANGED events \/ \A d \in Databases : events'[d] = <<>> /\ cur'[d] = NoEvent
  BY DEF Crash, EndMatching, Consider, eventVars
<1>4. \A w \in Workflows : Open(w)' => Open(w)
  <2>1. CASE Crash
    BY <2>1, DispatchAssumption DEF Crash, Open
  <2>2. CASE \E db \in Databases : EndMatching(db)
    BY <2>2 DEF EndMatching, Open
  <2>3. ASSUME NEW db \in Databases, NEW v \in Workflows, Consider(db, v)
        PROVE  \A w \in Workflows : Open(w)' => Open(w)
    <3>1. PICK o \in {v, NoWorkflow} : offer' = [offer EXCEPT ![db] = o]
      BY <2>3 DEF Consider
    <3>2. DbOf[v] = db /\ v \in todo[db] /\ todo' = [todo EXCEPT ![db] = @ \ {v}]
      BY <2>3 DEF Consider, Typed, Matching
    <3> SUFFICES ASSUME NEW w \in Workflows, Open(w)' PROVE Open(w)
      OBVIOUS
    <3>3. DbOf[w] \in Databases /\ w # NoWorkflow
      BY DispatchAssumption
    <3>4. /\ todo'[DbOf[w]] \subseteq todo[DbOf[w]]
          /\ \/ offer'[DbOf[w]] \in {offer[DbOf[w]], NoWorkflow}
             \/ DbOf[w] = db /\ offer'[DbOf[w]] = v
      <4>1. todo \in [Databases -> SUBSET Workflows] /\ offer \in [Databases -> Workflows \cup {NoWorkflow}]
        BY DEF Typed, TypeOK
      <4>2. todo'[DbOf[w]] \subseteq todo[DbOf[w]]
        BY <3>2, <3>3, <4>1
      <4>3. offer'[DbOf[w]] = IF DbOf[w] = db THEN o ELSE offer[DbOf[w]]
        BY <3>1, <3>3, <4>1
      <4>. QED  BY <4>2, <4>3
    <3>. QED  BY <3>2, <3>3, <3>4 DEF Open
  <2>. QED  BY <2>1, <2>2, <2>3
<1>5. \A d \in Databases : Taken(d) <= Taken(d)' /\ Len(events'[d]) \in Nat
  BY <1>1, <1>2, <1>3 DEF Taken
<1>6. ChannelIsSuffix' /\ AcceptedOnce'
  <2>1. AcceptedOnce'
    BY <1>2 DEF DeliveryInv, AcceptedOnce, Upto
  <2>2. ChannelIsSuffix'
    <3>1. CASE UNCHANGED events
      BY <1>2, <3>1 DEF DeliveryInv, ChannelIsSuffix, Taken
    <3>2. CASE \A d \in Databases : events'[d] = <<>> /\ cur'[d] = NoEvent
      BY <1>1, <1>2, <3>2 DEF ChannelIsSuffix
    <3>. QED  BY <1>3, <3>1, <3>2
  <2>. QED  BY <2>1, <2>2
<1>7. \A d \in Databases :
        /\ Len(accepted[d]) <= Len(accepted'[d])
        /\ \A k \in 1 .. Len(accepted[d]) : accepted'[d][k] = accepted[d][k]
  BY <1>1, <1>2
<1>8. LineTaken' /\ LineAscends'
  BY <1>2, <1>4, <1>5, <1>7, LineKept
<1>. QED  BY <1>6, <1>8 DEF DeliveryInv

LEMMA EnqueueDelivery ==
  ASSUME Typed, Typed', DeliveryInv, NEW db \in Databases, Enqueue(db)
  PROVE  DeliveryInv'
<1>1. PICK w \in Workflows, e \in Events :
        /\ offer[db] = w /\ cur[db] = e /\ DbOf[w] = db /\ w \notin todo[db]
        /\ jobs' = [jobs EXCEPT ![w] = Append(jobs[w], e)]
  <2>1. offer[db] \in Workflows /\ cur[db] \in Events
    BY DEF Typed, TypeOK, Matching, Enqueue
  <2>2. /\ DbOf[offer[db]] = db /\ offer[db] \notin todo[db]
        /\ jobs' = [jobs EXCEPT ![offer[db]] = Append(jobs[offer[db]], cur[db])]
    BY DEF Typed, Matching, Enqueue
  <2>. QED  BY <2>1, <2>2
<1>2. UNCHANGED <<at, accepted, events, cur, todo, started>> /\ offer' = [offer EXCEPT ![db] = NoWorkflow]
  BY DEF Enqueue, eventVars, runVars
<1>3. /\ \A d \in Databases : /\ accepted[d] \in Seq(Events) /\ Len(accepted[d]) \in Nat
                              /\ Len(events[d]) \in Nat
      /\ \A v \in Workflows : jobs[v] \in Seq(Events) /\ Len(jobs[v]) \in Nat
  BY LenProperties DEF Typed, TypeOK
<1>4. /\ Len(jobs'[w]) = Len(jobs[w]) + 1 /\ jobs'[w][Len(jobs[w]) + 1] = e
      /\ \A i \in 1 .. Len(jobs[w]) : jobs'[w][i] = jobs[w][i]
      /\ \A v \in Workflows \ {w} : jobs'[v] = jobs[v]
  BY <1>1, <1>3, AppendProperties DEF Typed, TypeOK
<1>5. /\ Taken(db) \in 1 .. Len(accepted[db]) /\ accepted[db][Taken(db)] = e
  <2>1. /\ Len(events[db]) <= Len(accepted[db])
        /\ Taken(db) > 0 /\ cur[db] = accepted[db][Taken(db)]
    BY <1>1, DispatchAssumption DEF DeliveryInv, ChannelIsSuffix
  <2>2. Taken(db) \in Nat /\ Taken(db) <= Len(accepted[db])
    BY TakenIs
  <2>. QED  BY <1>1, <1>3, <2>1, <2>2
<1>6. ~Open(w)' /\ \A v \in Workflows : Open(v)' => Open(v)
  BY <1>1, <1>2, DispatchAssumption DEF Open, Typed, TypeOK
<1>7. \A f \in Events : OnLine(w, f) => Precedes(db, f, e) /\ Upto(db, Taken(db), f)
  <2> SUFFICES ASSUME NEW f \in Events, OnLine(w, f)
               PROVE  Precedes(db, f, e) /\ Upto(db, Taken(db), f)
    OBVIOUS
  <2>1. Upto(db, Taken(db) - 1, f) /\ Upto(db, Taken(db), f)
    BY <1>1 DEF DeliveryInv, LineTaken, Open
  <2>2. PICK k \in 1 .. Taken(db) - 1 : accepted[db][k] = f
    BY <2>1 DEF Upto
  <2>3. k \in 1 .. Len(accepted[db]) /\ k < Taken(db)
    BY <1>3, <1>5, <2>2
  <2>4. Precedes(db, f, e)
    BY <1>5, <2>2, <2>3 DEF Precedes
  <2>. QED  BY <2>1, <2>4
<1>8. LineTaken'
  <2>1. \A d \in Databases : \A n, f : Upto(d, n, f)' <=> Upto(d, n, f)
    BY <1>2 DEF Upto
  <2>2. \A d \in Databases : Taken(d)' = Taken(d)
    BY <1>2 DEF Taken
  <2>3. \A v \in Workflows \ {w} : \A f : OnLine(v, f)' => OnLine(v, f)
    BY <1>2, <1>4 DEF OnLine
  <2>4. \A f : OnLine(w, f)' => OnLine(w, f) \/ f = e
    BY <1>2, <1>3, <1>4 DEF OnLine
  <2>5. Upto(db, Taken(db), e)
    BY <1>5 DEF Upto
  <2>6. \A v \in Workflows : DbOf[v] \in Databases
    BY DispatchAssumption
  <2>7. ASSUME NEW f \in Events, OnLine(w, f)' PROVE Upto(db, Taken(db), f)
    BY <1>7, <2>4, <2>5, <2>7
  <2>8. ASSUME NEW v \in Workflows, v # w, NEW f \in Events, OnLine(v, f)'
        PROVE  /\ Upto(DbOf[v], Taken(DbOf[v]), f)
               /\ Open(v)' => Upto(DbOf[v], Taken(DbOf[v]) - 1, f)
    BY <1>6, <2>3, <2>8 DEF DeliveryInv, LineTaken
  <2>. QED  BY <1>1, <1>6, <2>1, <2>2, <2>6, <2>7, <2>8 DEF LineTaken
<1>9. LineAscends'
  <2>1. \A d \in Databases : \A f, g : Precedes(d, f, g)' <=> Precedes(d, f, g)
    BY <1>2 DEF Precedes
  <2>2. \A v \in Workflows : DbOf[v] \in Databases
    BY DispatchAssumption
  <2>3. \A v \in Workflows \ {w} : \A d, f : Follows(v, d, f)' => Follows(v, d, f)
    BY <1>2, <1>4 DEF Follows
  <2>4. ASSUME NEW d \in Events, NEW f \in Events, Follows(w, d, f)'
        PROVE  Follows(w, d, f) \/ (OnLine(w, d) /\ f = e)
    <3>1. PICK k \in 1 .. Len(jobs'[w]) :
            /\ f = jobs'[w][k]
            /\ \/ \E i \in 1 .. Len(jobs'[w]) : i < k /\ d = jobs'[w][i]
               \/ started[w] # <<>> /\ d = started[w][Len(started[w])]
      BY <1>2, <2>4 DEF Follows
    <3>2. CASE k \in 1 .. Len(jobs[w])
      <4>1. \A i \in 1 .. Len(jobs'[w]) : i < k => i \in 1 .. Len(jobs[w])
        BY <1>3, <1>4, <3>2
      <4>. QED  BY <1>4, <3>1, <3>2, <4>1 DEF Follows
    <3>3. CASE k = Len(jobs[w]) + 1
      <4>1. \A i \in 1 .. Len(jobs'[w]) : i < k => i \in 1 .. Len(jobs[w])
        BY <1>3, <1>4, <3>3
      <4>. QED  BY <1>4, <3>1, <3>3, <4>1 DEF OnLine
    <3>. QED  BY <1>3, <1>4, <3>2, <3>3
  <2>5. ASSUME NEW v \in Workflows, NEW d \in Events, NEW f \in Events, Follows(v, d, f)'
        PROVE  Precedes(DbOf[v], d, f)
    BY <1>1, <1>7, <2>3, <2>4, <2>5 DEF DeliveryInv, LineAscends
  <2>. QED  BY <2>1, <2>2, <2>5 DEF LineAscends
<1>10. ChannelIsSuffix' /\ AcceptedOnce'
  BY <1>2, ChannelKept
<1>. QED  BY <1>8, <1>9, <1>10 DEF DeliveryInv

LEMMA StartDelivery ==
  ASSUME Typed, Typed', DeliveryInv, NEW w \in Workflows, StartRun(w)
  PROVE  DeliveryInv'
<1>1. UNCHANGED <<at, accepted, events, cur, todo, offer>>
  BY DEF StartRun, eventVars, matchVars
<1>2. /\ Len(jobs[w]) \in Nat \ {0} /\ Len(jobs'[w]) = Len(jobs[w]) - 1
      /\ \A i \in 1 .. Len(jobs'[w]) : jobs'[w][i] = jobs[w][i + 1]
      /\ \A v \in Workflows \ {w} : jobs'[v] = jobs[v] /\ started'[v] = started[v]
      /\ started'[w][Len(started'[w])] = jobs[w][1]
  <2>1. jobs'[w] = Tail(jobs[w]) /\ \A v \in Workflows \ {w} : jobs'[v] = jobs[v]
    BY TakeJob DEF Typed, TypeOK
  <2>2. started[w] \in Seq(Events) /\ started'[w] = Append(started[w], jobs[w][1])
        /\ \A v \in Workflows \ {w} : started'[v] = started[v]
    BY TakeJob DEF Typed, TypeOK
  <2>3. started'[w][Len(started'[w])] = jobs[w][1]
    BY <2>2, TakeJob, AppendProperties DEF Typed
  <2>. QED  BY <2>1, <2>2, <2>3, TakeJob DEF Typed
<1>3. \A i \in 1 .. Len(jobs'[w]) : i + 1 \in 1 .. Len(jobs[w]) /\ 1 < i + 1
  BY <1>2
<1>4. 1 \in 1 .. Len(jobs[w])
  BY <1>2
<1>5. LineTaken'
  <2>1. \A v \in Workflows : \A f : OnLine(v, f)' => OnLine(v, f)
    <3>1. \A f : OnLine(w, f)' => \E i \in 1 .. Len(jobs[w]) : f = jobs[w][i]
      BY <1>2, <1>3, <1>4 DEF OnLine
    <3>2. \A v \in Workflows \ {w} : \A f : OnLine(v, f)' => OnLine(v, f)
      BY <1>2 DEF OnLine
    <3>3. \A f : OnLine(w, f)' => OnLine(w, f)
      BY <3>1 DEF OnLine
    <3>. QED  BY <3>2, <3>3
  <2>. QED  BY <1>1, <2>1 DEF DeliveryInv, LineTaken, Upto, Taken, Open
<1>6. LineAscends'
  <2>1. \A d, f, g : Precedes(d, f, g)' <=> Precedes(d, f, g)
    BY <1>1 DEF Precedes
  <2>2. \A v \in Workflows \ {w} : \A d, f : Follows(v, d, f)' => Follows(v, d, f)
    BY <1>2 DEF Follows
  <2>3. ASSUME NEW d, NEW f, Follows(w, d, f)' PROVE Follows(w, d, f)
    <3>1. CASE \E i, k \in 1 .. Len(jobs'[w]) : i < k /\ d = jobs'[w][i] /\ f = jobs'[w][k]
      <4>1. PICK i, k \in 1 .. Len(jobs'[w]) : i < k /\ d = jobs'[w][i] /\ f = jobs'[w][k]
        BY <3>1
      <4>2. i + 1 < k + 1 /\ d = jobs[w][i + 1] /\ f = jobs[w][k + 1]
        BY <1>2, <4>1
      <4>. QED  BY <1>3, <4>2 DEF Follows
    <3>2. CASE d = jobs[w][1] /\ \E k \in 1 .. Len(jobs'[w]) : f = jobs'[w][k]
      BY <1>2, <1>3, <1>4, <3>2 DEF Follows
    <3>. QED  BY <1>2, <2>3, <3>1, <3>2 DEF Follows
  <2>4. \A d, f : Follows(w, d, f)' => Follows(w, d, f)
    BY <2>3
  <2>. QED  BY <2>1, <2>2, <2>4 DEF DeliveryInv, LineAscends
<1>7. ChannelIsSuffix' /\ AcceptedOnce'
  BY <1>1, ChannelKept
<1>. QED  BY <1>5, <1>6, <1>7 DEF DeliveryInv

LEMMA NextDelivery == Typed /\ DeliveryInv /\ [Next]_vars => DeliveryInv'
<1> SUFFICES ASSUME Typed, DeliveryInv, [Next]_vars PROVE DeliveryInv'
  OBVIOUS
<1>1. Typed' /\ TypeOK
  BY NextTyped DEF Typed
<1>. QED
  BY <1>1, OtherSteps, AcceptDelivery, BeginDelivery, EnqueueDelivery, OtherDelivery, StartDelivery,
     DeliveryUntouched

LEMMA DeliveryInvariant == Spec => [](Typed /\ DeliveryInv)
  BY InitTyped, NextTyped, InitDelivery, NextDelivery, PTL DEF Spec

LEMMA AcceptRefines ==
  ASSUME Typed, DeliveryInv, NEW e \in Events, Accept(e)
  PROVE  Delivery!Accept(EventDb[e], e)
<1>1. EventDb[e] \in Databases /\ at[e] = "sending" /\ accepted[EventDb[e]] \in Seq(Events)
  BY DispatchAssumption DEF Accept, Typed, TypeOK
<1>2. DOMAIN accepted[EventDb[e]] = 1 .. Len(accepted[EventDb[e]])
  BY <1>1, LenProperties
<1>3. \A i \in DOMAIN accepted[EventDb[e]] : accepted[EventDb[e]][i] # e
  BY <1>1, <1>2 DEF DeliveryInv, AcceptedOnce, Upto
<1>. QED  BY <1>3 DEF Delivery!Accept, Accept, runVars

LEMMA StartRefines ==
  ASSUME Typed, DeliveryInv, NEW w \in Workflows, StartRun(w)
  PROVE  Delivery!Start(w)
<1> DEFINE db == DbOf[w]
           e == jobs[w][1]
<1>1. /\ e \in Events /\ OnLine(w, e) /\ 1 \in 1 .. Len(jobs[w])
      /\ started' = [started EXCEPT ![w] = Append(started[w], e)]
      /\ UNCHANGED accepted
  <2>1. Len(jobs[w]) \in Nat \ {0} /\ Head(jobs[w]) \in Events /\ Head(jobs[w]) = e
    BY TakeJob DEF Typed
  <2>2. 1 \in 1 .. Len(jobs[w])
    BY <2>1
  <2>3. OnLine(w, e)
    BY <2>2 DEF OnLine
  <2>4. started' = [started EXCEPT ![w] = Append(started[w], e)]
    BY <2>1, TakeJob DEF Typed
  <2>. QED  BY <2>1, <2>2, <2>3, <2>4 DEF StartRun, eventVars
<1>2. /\ db \in Databases /\ accepted[db] \in Seq(Events) /\ started[w] \in Seq(Events)
      /\ DOMAIN accepted[db] = 1 .. Len(accepted[db])
  BY DispatchAssumption, LenProperties DEF Typed, TypeOK
<1>3. \E i \in DOMAIN accepted[db] : accepted[db][i] = e /\ Delivery!After(w, i)
  <2>1. CASE started[w] = <<>>
    <3>1. PICK i \in 1 .. Taken(db) : accepted[db][i] = e
      BY <1>1 DEF DeliveryInv, LineTaken, Upto
    <3>2. i \in DOMAIN accepted[db]
      BY <1>2, <3>1, TakenIs
    <3>. QED  BY <2>1, <3>1, <3>2 DEF Delivery!After
  <2>2. CASE started[w] # <<>>
    <3> DEFINE last == started[w][Len(started[w])]
    <3>1. last \in Events /\ Delivery!Last(started[w]) = last
      BY <1>2, <2>2, ElementOfSeq, EmptySeq, LenProperties DEF Delivery!Last
    <3>2. Precedes(db, last, e)
      BY <1>1, <2>2, <3>1 DEF Follows, DeliveryInv, LineAscends
    <3>3. PICK k, i \in 1 .. Len(accepted[db]) :
            k < i /\ accepted[db][k] = last /\ accepted[db][i] = e
      BY <3>2 DEF Precedes
    <3>4. k \in 1 .. i - 1
      BY <1>2, <3>3, LenProperties
    <3>5. Delivery!After(w, i)
      BY <3>1, <3>3, <3>4 DEF Delivery!After
    <3>. QED  BY <1>2, <3>3, <3>5
  <2>. QED  BY <2>1, <2>2
<1>. QED  BY <1>1, <1>3 DEF Delivery!Start

\* Channels and workers together start each workflow at most once per event,
\* in the order its database accepted the events, whatever the capacities, the
\* runs that make events of their own, the timeouts and the kills.
THEOREM DeliveryIsImplemented == Spec => DeliversInOrder
<1>1. Init => Delivery!Init
  BY DEF Init, Delivery!Init
<1>2. Typed /\ DeliveryInv /\ [Next]_vars => [Delivery!Next]_<<accepted, started>>
  <2> SUFFICES ASSUME Typed, DeliveryInv, [Next]_vars PROVE [Delivery!Next]_<<accepted, started>>
    OBVIOUS
  <2>1. ASSUME NEW e \in Events, Accept(e) PROVE Delivery!Next
    BY <2>1, AcceptRefines, DispatchAssumption DEF Delivery!Next
  <2>2. ASSUME NEW w \in Workflows, StartRun(w) PROVE Delivery!Next
    BY <2>2, StartRefines DEF Delivery!Next
  <2>3. ASSUME NEW db \in Databases,
               \/ BeginMatching(db) \/ Enqueue(db) \/ EndMatching(db)
               \/ \E w \in Workflows : Consider(db, w)
        PROVE  UNCHANGED <<accepted, started>>
    BY <2>3 DEF BeginMatching, Enqueue, EndMatching, Consider, eventVars, runVars
  <2>4. CASE Crash
    BY <2>4 DEF Crash
  <2>5. TypeOK
    BY DEF Typed
  <2>. QED  BY <2>1, <2>2, <2>3, <2>4, <2>5, OtherSteps
<1>. QED  BY <1>1, <1>2, DeliveryInvariant, PTL DEF Spec, DeliversInOrder, Delivery!Spec
=============================================================================
