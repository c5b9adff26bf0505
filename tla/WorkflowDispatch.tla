-------------------------- MODULE WorkflowDispatch --------------------------
(***************************************************************************)
(* Triggering and running workflows: the event workers, the run workers,   *)
(* the scheduler, manual runs and run-history cleanup of                   *)
(* src/internal/api/server.go, with Runner.RunAt of                        *)
(* src/internal/workflow/runner.go.                                        *)
(*                                                                         *)
(* A committed row change, a webhook call or a scheduler tick is an event. *)
(* Whoever makes it blocks until the database's event channel has room, or *)
(* gives up when its context ends.  One event worker per database takes    *)
(* the events in turn and offers each matching workflow a job on that      *)
(* workflow's own channel, and one run worker per workflow executes its    *)
(* jobs.  A run may itself change rows, and then it is the one that blocks *)
(* on the event channel.                                                   *)
(*                                                                         *)
(* What a script does is a constant: which events its trigger wants and    *)
(* which events its runs may make.  Time is that of the last tick.         *)
(***************************************************************************)
EXTENDS Integers, Sequences, FiniteSets, FiniteSetsExt, SequencesExt

CONSTANTS
  Databases, Workflows, DbOf,
  Interval,     \* interval_ms of a workflow's schedule, 0 when absent
  DailyAt,      \* daily_at of a workflow's schedule
  NoDaily,      \* ... absent
  Retention,    \* HistoryRetentionDays
  NoRetention,  \* ... absent: keep everything
  Day,          \* length of a day
  Events, Kind, EventDb,
  Wanted,       \* the workflows whose trigger matches what the event is about
  Source,       \* the workflow whose runs may make the event, if any
  TickTime,     \* the time of a tick
  Manuals,      \* requests that run a workflow by hand
  ManualOf,
  EventCap,     \* capacity of an event channel
  JobCap,       \* capacity of a job channel
  MaxCrashes,   \* bound: how often the process is killed
  NoEvent, NoWorkflow, NoRun

Runs == Workflows \cup Manuals  \* a workflow names the run its worker executes

ASSUME DispatchAssumption ==
  /\ DbOf \in [Workflows -> Databases]
  /\ Interval \in [Workflows -> Nat]
  /\ DailyAt \in [Workflows -> Nat \cup {NoDaily}]
  /\ Retention \in [Workflows -> Nat \cup {NoRetention}]
  /\ Day \in Nat \ {0}
  /\ Kind \in [Events -> {"row", "webhook", "tick"}]
  /\ EventDb \in [Events -> Databases]
  /\ Wanted \in [Events -> SUBSET Workflows]
  /\ Source \in [Events -> Workflows \cup {NoWorkflow}]
  /\ TickTime \in [Events -> Nat]
  /\ ManualOf \in [Manuals -> Workflows]
  /\ EventCap \in Nat \ {0} /\ JobCap \in Nat \ {0} /\ MaxCrashes \in Nat
  /\ NoEvent \notin Events /\ NoWorkflow \notin Workflows /\ NoRun \notin Runs
  /\ Workflows \cap Manuals = {}

VARIABLES
  at,        \* how far each event has come
  gone,      \* events whose request has ended (the client went away)
  sender,    \* the run that makes the event, if any
  events,    \* the event channel of each database
  accepted,  \* history: all the events it ever took
  cur,       \* the event that the event worker processes
  todo,      \* the workflows it has not considered yet
  offer,     \* the workflow it offers a job to
  jobs,      \* the job channel of each workflow, a job being named by its event
  worker,    \* the job that the run worker executes
  started,   \* history: the jobs it ever started
  manual,    \* progress of each manual run
  expired,   \* runs whose timeout has fired
  runTime,   \* the timestamp of each run
  stored,    \* per workflow, the timestamps of the runs in the history store
  enabled,   \* the Enabled flag of each workflow
  clock,     \* the time
  crashes

eventVars   == <<at, gone, sender, events, accepted>>
matchVars   == <<cur, todo, offer>>
runVars     == <<worker, started, manual, expired, runTime>>
settingVars == <<enabled, clock, crashes>>
vars == <<eventVars, matchVars, jobs, runVars, stored, settingVars>>

Stages == {"none", "sending", "queued", "matching", "handled", "dropped", "lost"}

TypeOK ==
  /\ at \in [Events -> Stages]
  /\ gone \in SUBSET Events
  /\ sender \in [Events -> Runs \cup {NoRun}]
  /\ events \in [Databases -> Seq(Events)]
  /\ \A db \in Databases : Len(events[db]) <= EventCap
  /\ accepted \in [Databases -> Seq(Events)]
  /\ cur \in [Databases -> Events \cup {NoEvent}]
  /\ todo \in [Databases -> SUBSET Workflows]
  /\ offer \in [Databases -> Workflows \cup {NoWorkflow}]
  /\ jobs \in [Workflows -> Seq(Events)]
  /\ \A w \in Workflows : Len(jobs[w]) <= JobCap
  /\ worker \in [Workflows -> Events \cup {NoEvent}]
  /\ started \in [Workflows -> Seq(Events)]
  /\ manual \in [Manuals -> {"none", "running", "done"}]
  /\ expired \in SUBSET Runs
  /\ runTime \in [Runs -> Nat]
  /\ stored \in [Workflows -> SUBSET Nat]
  /\ enabled \in [Workflows -> BOOLEAN]
  /\ clock \in Nat
  /\ crashes \in 0 .. MaxCrashes

Init ==
  /\ at = [e \in Events |-> "none"]
  /\ gone = {}
  /\ sender = [e \in Events |-> NoRun]
  /\ events = [db \in Databases |-> <<>>]
  /\ accepted = [db \in Databases |-> <<>>]
  /\ cur = [db \in Databases |-> NoEvent]
  /\ todo = [db \in Databases |-> {}]
  /\ offer = [db \in Databases |-> NoWorkflow]
  /\ jobs = [w \in Workflows |-> <<>>]
  /\ worker = [w \in Workflows |-> NoEvent]
  /\ started = [w \in Workflows |-> <<>>]
  /\ manual = [m \in Manuals |-> "none"]
  /\ expired = {}
  /\ runTime = [r \in Runs |-> 0]
  /\ stored = [w \in Workflows |-> {}]
  /\ enabled = [w \in Workflows |-> TRUE]
  /\ clock = 0
  /\ crashes = 0

WorkflowOf(r) == IF r \in Manuals THEN ManualOf[r] ELSE r

Active(r) == IF r \in Manuals THEN manual[r] = "running" ELSE worker[r] # NoEvent

\* A run executes its nodes one after the other: it is blocked while one of
\* them is sending an event.
Blocked(r) == \E e \in Events : at[e] = "sending" /\ sender[e] = r

-----------------------------------------------------------------------------
(* Events: dispatchWorkflowEvent, enqueueWorkflowEvent, the scheduler.     *)

\* A request has committed a row change and goes on to dispatch the event.
RowChanged(e) ==
  /\ Kind[e] = "row" /\ Source[e] = NoWorkflow
  /\ at[e] = "none"
  /\ at' = [at EXCEPT ![e] = "sending"]
  /\ UNCHANGED <<gone, sender, events, accepted, matchVars, jobs, runVars, stored, settingVars>>

\* handleWorkflowWebhook: the target is enabled and its trigger wants the call.
WebhookCalled(e) ==
  /\ Kind[e] = "webhook"
  /\ \E w \in Wanted[e] : enabled[w]
  /\ at[e] = "none"
  /\ at' = [at EXCEPT ![e] = "sending"]
  /\ UNCHANGED <<gone, sender, events, accepted, matchVars, jobs, runVars, stored, settingVars>>

\* The one scheduler goroutine dispatches a tick to a database; the ticker
\* skips ticks while it is blocked.
Tick(e) ==
  /\ Kind[e] = "tick"
  /\ TickTime[e] >= clock
  /\ \A f \in Events : ~(Kind[f] = "tick" /\ at[f] = "sending")
  /\ at[e] = "none"
  /\ at' = [at EXCEPT ![e] = "sending"]
  /\ clock' = TickTime[e]
  /\ UNCHANGED <<gone, sender, events, accepted, matchVars, jobs, runVars, stored, enabled, crashes>>

\* A node of run r has committed a row change.
RunChangesRow(r, e) ==
  /\ Active(r) /\ r \notin expired /\ ~Blocked(r)
  /\ Source[e] = WorkflowOf(r)
  /\ at[e] = "none"
  /\ at' = [at EXCEPT ![e] = "sending"]
  /\ sender' = [sender EXCEPT ![e] = r]
  /\ UNCHANGED <<gone, events, accepted, matchVars, jobs, runVars, stored, settingVars>>

\* The client of the request goes away.
RequestEnds(e) ==
  /\ at[e] = "sending" /\ sender[e] = NoRun /\ Kind[e] # "tick"
  /\ gone' = gone \cup {e}
  /\ UNCHANGED <<at, sender, events, accepted, matchVars, jobs, runVars, stored, settingVars>>

\* The context that dispatches the event is done.
ContextDone(e) == e \in gone \/ sender[e] \in expired

\* Mutant of HasRoom: one too many.
HasRoomOffByOne(db) == Len(events[db]) <= EventCap

HasRoom(db) == Len(events[db]) < EventCap

\* The event channel has room.
Accept(e) ==
  LET db == EventDb[e]
  IN  /\ at[e] = "sending"
      /\ HasRoom(db)
      /\ at' = [at EXCEPT ![e] = "queued"]
      /\ events' = [events EXCEPT ![db] = Append(@, e)]
      /\ accepted' = [accepted EXCEPT ![db] = Append(@, e)]
      /\ UNCHANGED <<gone, sender, matchVars, jobs, runVars, stored, settingVars>>

\* Mutant of Drop: the send on the event channel cannot be given up.
NeverDrop(e) == FALSE

\* The context is done: the event is dropped, although what it reports has
\* happened.
Drop(e) ==
  /\ at[e] = "sending"
  /\ ContextDone(e)
  /\ at' = [at EXCEPT ![e] = "dropped"]
  /\ UNCHANGED <<gone, sender, events, accepted, matchVars, jobs, runVars, stored, settingVars>>

-----------------------------------------------------------------------------
(* The event worker of a database: processWorkflowEvent.                   *)

\* Mutant of Candidates: disabled workflows are not skipped.
AllCandidates(db) == {w \in Workflows : DbOf[w] = db}

Candidates(db) == {w \in Workflows : DbOf[w] = db /\ enabled[w]}

\* The worker takes an event and lists the database's workflows.
BeginMatching(db) ==
  /\ cur[db] = NoEvent
  /\ events[db] # <<>>
  /\ cur' = [cur EXCEPT ![db] = Head(events[db])]
  /\ events' = [events EXCEPT ![db] = Tail(@)]
  /\ at' = [at EXCEPT ![Head(events[db])] = "matching"]
  /\ todo' = [todo EXCEPT ![db] = Candidates(db)]
  /\ UNCHANGED <<gone, sender, accepted, offer, jobs, runVars, stored, settingVars>>

\* dailyScheduleDue and scheduleTriggerMatches: t is the tick, the latest run
\* is the latest one in the history store.
DueAt(w, t) == (t \div Day) * Day + DailyAt[w]

IntervalDue(w, t) ==
  Interval[w] > 0 /\ (stored[w] = {} \/ t - Max(stored[w]) >= Interval[w])

DailyDue(w, t) ==
  /\ DailyAt[w] # NoDaily
  /\ t >= DueAt(w, t)
  /\ stored[w] = {} \/ Max(stored[w]) < DueAt(w, t)

ScheduleMatches(w, t) ==
  \/ IntervalDue(w, t)
  \/ DailyDue(w, t)
  \/ Interval[w] = 0 /\ DailyAt[w] = NoDaily

MayRun(w, e) ==
  /\ w \in Wanted[e]
  /\ Kind[e] = "tick" => ScheduleMatches(w, TickTime[e])

\* The worker decides about one workflow.  If the workflows cannot be listed, or
\* the trigger's script or the history store fails, it passes over one that
\* matches.
Consider(db, w) ==
  /\ w \in todo[db]
  /\ offer[db] = NoWorkflow
  /\ todo' = [todo EXCEPT ![db] = @ \ {w}]
  /\ \E v \in {v \in {w} : MayRun(v, cur[db])} \cup {NoWorkflow} :
       offer' = [offer EXCEPT ![db] = v]
  /\ UNCHANGED <<eventVars, cur, jobs, runVars, stored, settingVars>>

\* Mutant of Enqueue: a job for a full channel is discarded.
EnqueueOrDiscard(db) ==
  /\ offer[db] # NoWorkflow
  /\ jobs' = [jobs EXCEPT ![offer[db]] =
                IF Len(@) < JobCap THEN Append(@, cur[db]) ELSE @]
  /\ offer' = [offer EXCEPT ![db] = NoWorkflow]
  /\ UNCHANGED <<eventVars, cur, todo, runVars, stored, settingVars>>

\* The workflow's job channel has room; until then the worker is blocked and
\* with it every other workflow of the database.
Enqueue(db) ==
  /\ offer[db] # NoWorkflow
  /\ Len(jobs[offer[db]]) < JobCap
  /\ jobs' = [jobs EXCEPT ![offer[db]] = Append(@, cur[db])]
  /\ offer' = [offer EXCEPT ![db] = NoWorkflow]
  /\ UNCHANGED <<eventVars, cur, todo, runVars, stored, settingVars>>

EndMatching(db) ==
  /\ cur[db] # NoEvent /\ todo[db] = {} /\ offer[db] = NoWorkflow
  /\ at' = [at EXCEPT ![cur[db]] = "handled"]
  /\ cur' = [cur EXCEPT ![db] = NoEvent]
  /\ UNCHANGED <<gone, sender, events, accepted, todo, offer, jobs, runVars, stored, settingVars>>

-----------------------------------------------------------------------------
(* Runs: the run worker, handleRunWorkflow, RunAt, cleanup.                *)

\* Mutant of StartRun: the job at the other end of the channel is taken.
StartLastRun(w) ==
  /\ worker[w] = NoEvent
  /\ jobs[w] # <<>>
  /\ worker' = [worker EXCEPT ![w] = Last(jobs[w])]
  /\ started' = [started EXCEPT ![w] = Append(@, Last(jobs[w]))]
  /\ jobs' = [jobs EXCEPT ![w] = Front(@)]
  /\ UNCHANGED <<eventVars, matchVars, manual, expired, runTime, stored, settingVars>>

\* A scheduled run is stamped with its tick, any other with the time.
StartRun(w) ==
  /\ worker[w] = NoEvent
  /\ jobs[w] # <<>>
  /\ LET e == Head(jobs[w])
     IN  /\ worker' = [worker EXCEPT ![w] = e]
         /\ started' = [started EXCEPT ![w] = Append(@, e)]
         /\ runTime' = [runTime EXCEPT ![w] = IF Kind[e] = "tick" THEN TickTime[e] ELSE clock]
  /\ jobs' = [jobs EXCEPT ![w] = Tail(@)]
  /\ UNCHANGED <<eventVars, matchVars, manual, expired, stored, settingVars>>

\* A request runs the workflow in its own goroutine, enabled or not.
StartManual(m) ==
  /\ manual[m] = "none"
  /\ manual' = [manual EXCEPT ![m] = "running"]
  /\ runTime' = [runTime EXCEPT ![m] = clock]
  /\ UNCHANGED <<eventVars, matchVars, jobs, worker, started, expired, stored, settingVars>>

\* Mutant of Expire: runs have no timeout.
NeverExpire(r) == FALSE

\* The run's timeout fires: its context ends and its script is interrupted.
Expire(r) ==
  /\ Active(r) /\ r \notin expired
  /\ expired' = expired \cup {r}
  /\ UNCHANGED <<eventVars, matchVars, jobs, worker, started, manual, runTime, stored, settingVars>>

\* The run ends, with a result or an error, and is stored unless the workflow
\* keeps no history or the store fails.
Finish(r) ==
  /\ Active(r) /\ ~Blocked(r)
  /\ IF r \in Manuals
     THEN manual' = [manual EXCEPT ![r] = "done"] /\ UNCHANGED worker
     ELSE worker' = [worker EXCEPT ![r] = NoEvent] /\ UNCHANGED manual
  /\ expired' = expired \ {r}
  /\ \/ /\ Retention[WorkflowOf(r)] # 0
        /\ stored' = [stored EXCEPT ![WorkflowOf(r)] = @ \cup {runTime[r]}]
     \/ UNCHANGED stored
  /\ UNCHANGED <<eventVars, matchVars, jobs, started, runTime, settingVars>>

\* CleanupWorkflowHistory, for one workflow.
Kept(w) == IF Retention[w] = 0 THEN {}
           ELSE {t \in stored[w] : t >= clock - Retention[w] * Day}

Cleanup(w) ==
  /\ Retention[w] # NoRetention
  /\ stored[w] # Kept(w)
  /\ stored' = [stored EXCEPT ![w] = Kept(w)]
  /\ UNCHANGED <<eventVars, matchVars, jobs, runVars, settingVars>>

\* The workflow is disabled (or deleted): the jobs it has stay.
Disable(w) ==
  /\ enabled[w]
  /\ enabled' = [enabled EXCEPT ![w] = FALSE]
  /\ UNCHANGED <<eventVars, matchVars, jobs, runVars, stored, clock, crashes>>

\* The process is killed and starts again: channels, workers and runs are
\* gone, what the history store and the system database hold is not.
Crash ==
  /\ crashes < MaxCrashes
  /\ crashes' = crashes + 1
  /\ at' = [e \in Events |-> IF at[e] \in {"sending", "queued", "matching"}
                             THEN "lost" ELSE at[e]]
  /\ events' = [db \in Databases |-> <<>>]
  /\ cur' = [db \in Databases |-> NoEvent]
  /\ todo' = [db \in Databases |-> {}]
  /\ offer' = [db \in Databases |-> NoWorkflow]
  /\ jobs' = [w \in Workflows |-> <<>>]
  /\ worker' = [w \in Workflows |-> NoEvent]
  /\ manual' = [m \in Manuals |-> IF manual[m] = "running" THEN "done" ELSE manual[m]]
  /\ expired' = {}
  /\ UNCHANGED <<gone, sender, accepted, started, runTime, stored, enabled, clock>>

-----------------------------------------------------------------------------
EventStep(e) ==
  \/ RowChanged(e) \/ WebhookCalled(e) \/ Tick(e) \/ RequestEnds(e)
  \/ Accept(e) \/ Drop(e)

MatchStep(db) ==
  \/ BeginMatching(db) \/ Enqueue(db) \/ EndMatching(db)
  \/ \E w \in Workflows : Consider(db, w)

RunStep(r) ==
  \/ Expire(r) \/ Finish(r)
  \/ \E e \in Events : RunChangesRow(r, e)

Next ==
  \/ \E e \in Events : EventStep(e)
  \/ \E db \in Databases : MatchStep(db)
  \/ \E r \in Runs : RunStep(r)
  \/ \E w \in Workflows : StartRun(w) \/ Cleanup(w) \/ Disable(w)
  \/ \E m \in Manuals : StartManual(m)
  \/ Crash

Spec == Init /\ [][Next]_vars

(***************************************************************************)
(* Fairness: the Go scheduler runs every goroutine that is not blocked;    *)
(* goroutines blocked in a send on a channel are served in turn (strong    *)
(* fairness of Accept); every run's timer fires, and a run whose context   *)
(* has ended and that is not blocked ends.                                 *)
(***************************************************************************)
Fairness ==
  /\ \A e \in Events : SF_vars(Accept(e) \/ Drop(e))
  /\ \A db \in Databases : WF_vars(MatchStep(db))
  /\ \A w \in Workflows : WF_vars(StartRun(w))
  /\ \A r \in Runs : WF_vars(Expire(r)) /\ WF_vars(r \in expired /\ Finish(r))

FairSpec == Spec /\ Fairness

-----------------------------------------------------------------------------
(* Properties.                                                             *)

Delivery == INSTANCE TriggerDelivery

\* The channels and workers together start each workflow at most once per
\* event, in the order the database accepted the events, also when runs make
\* events of their own, time out, or the process is killed in between.
DeliversInOrder == Delivery!Spec

\* What the system still holds of a workflow's triggering.
Pending(w) ==
  \/ jobs[w] # <<>>
  \/ \E db \in Databases : w \in todo[db] \/ offer[db] = w

\* A disabled workflow ends: once the jobs it was given before are started,
\* no event starts it again.
DisabledEnds ==
  [][\A w \in Workflows : ~enabled[w] /\ ~Pending(w) => started'[w] = started[w] /\ ~Pending(w)']_vars

\* Nobody who dispatches an event is blocked for ever, and every event is
\* processed unless the process is killed or its context ends first: an event
\* worker waiting for a full job channel, the run that fills it and the run's
\* own row change waiting for the event worker come apart by the run's timeout.
EventsHandled ==
  \A e \in Events : at[e] = "sending" ~> at[e] \in {"handled", "dropped", "lost"}

\* Every run ends, also one that is blocked on the event channel.
RunsEnd == \A r \in Runs : Active(r) ~> ~Active(r)

\* A matched event starts its workflow, however full the job channel is.
MatchedEventsStart ==
  \A db \in Databases, w \in Workflows, e \in Events :
    offer[db] = w /\ cur[db] = e ~> Contains(started[w], e) \/ crashes > 0

-----------------------------------------------------------------------------
(* What the sources say and the code does not do.                          *)

\* server.go, workflowRunWorker: one workflow never runs concurrently with
\* itself.  A manual run does not go through the run worker.
NeverConcurrentWithItself ==
  \A q, r \in Runs : Active(q) /\ Active(r) /\ WorkflowOf(q) = WorkflowOf(r) => q = r

\* docs of the schedule trigger, daily_at: the workflow can run once per
\* matching UTC day.  The latest run is looked up in the history store, which
\* learns of a run when it ends.
OncePerDay ==
  \A w \in Workflows : DailyAt[w] # NoDaily /\ Interval[w] = 0 =>
    \A i, k \in DOMAIN started[w] :
      i < k => TickTime[started[w][i]] \div Day < TickTime[started[w][k]] \div Day
=============================================================================
