-------------------------- MODULE RemoteExecution --------------------------
(***************************************************************************)
(* Remote execution as a whole: the hub (RunnerHub) and the runner         *)
(* processes (RunnerCli) joined by the wire, and what is expected of them. *)
(***************************************************************************)
EXTENDS RunnerCli

vars == <<hubVars, wireVars, cliVars>>

TypeOK == HubTypeOK /\ CliTypeOK

Init == HubInit /\ CliInit

Next ==
  \/ HubNext /\ UNCHANGED cliVars
  \/ \E c \in Conns : CliStep(c)

Spec == Init /\ [][Next]_vars

(***************************************************************************)
(* Fairness: the Go scheduler runs every goroutine that is not blocked, a  *)
(* blocked write ends within writeWait, and a reader whose socket is gone  *)
(* sees it within readTimeout.  Nothing is assumed of the runner, of the   *)
(* network, of callers' contexts or of requests that have not arrived.     *)
(***************************************************************************)
HubFairness ==
  /\ \A j \in Jobs :
       /\ WF_vars(Enter(j) /\ UNCHANGED cliVars)
       /\ WF_vars((Send(j) \/ SendRefused(j)) /\ UNCHANGED cliVars)
       /\ WF_vars(Answered(j) /\ UNCHANGED cliVars)
       /\ WF_vars(Leave(j) /\ UNCHANGED cliVars)
  /\ \A c \in Conns :
       /\ WF_vars((Write(c) \/ WriteFails(c) \/ WriterStops(c)) /\ UNCHANGED cliVars)
       /\ WF_vars(ReadFails(c) /\ (closed[c] \/ ~link[c]) /\ UNCHANGED cliVars)
       /\ WF_vars(HandOver(c) /\ UNCHANGED cliVars)
       /\ WF_vars(Unregister(c) /\ UNCHANGED cliVars)
  /\ \A r \in Resets :
       WF_vars((CollectConns(r) \/ CloseConn(r)) /\ UNCHANGED cliVars)

FairSpec == Spec /\ HubFairness

\* The job timers: kept apart from the rest of the fairness, so that what must
\* happen before jobTimeout has passed can be told from what needs the timer.
TimersFire == \A j \in Jobs : WF_vars(TimedOut(j) /\ UNCHANGED cliVars)

-----------------------------------------------------------------------------
(* Safety.                                                                 *)

\* A pending job is answered by at most one party: while it is on the table
\* nobody holds an answer for it, an answer is held by one goroutine only and
\* finds the result channel empty.  So the send on the capacity-one channel
\* in readLoop and unregister never blocks, whatever dispatch, result and
\* disconnect do to each other.
SingleAnswer ==
  \A j \in Jobs :
    /\ j \in jobs =>
         /\ reply[j] = "none"
         /\ \A c \in Conns, a \in Answers : <<j, a>> \notin handoff[c]
    /\ \A c \in Conns, a \in Answers : <<j, a>> \in handoff[c] =>
         /\ reply[j] = "none"
         /\ \A d \in Conns, b \in Answers :
              <<j, b>> \in handoff[d] => d = c /\ b = a

\* No answer is lost: a Dispatch that waits is still on the table, where a
\* result can find it, or its answer is in a goroutine's hands or in its
\* result channel.
NoLostAnswer ==
  \A j \in Jobs : pc[j] = "waiting" =>
    \/ j \in jobs
    \/ reply[j] # "none"
    \/ \E c \in Conns, a \in Answers : <<j, a>> \in handoff[c]

\* What Dispatch returns tells the truth about the runner: no job is started
\* twice, a job refused as not connected or unsupported is never started, and
\* the output or error of a node is returned only for a job that was started.
OutcomeTellsExecution ==
  \A j \in Jobs :
    /\ executions[j] <= 1
    /\ outcome[j] \in {"not connected", "unsupported"} => executions[j] = 0
    /\ outcome[j] \in Results => executions[j] = 1

\* A job runs only on a runner of its workflow's database, under the name the
\* instance is bound to, that said it supports the node type.
RunsWhereItBelongs ==
  \A c \in Conns : \A j \in running[c] :
    /\ ConnDb[c] = JobDb[j]
    /\ HelloName[c] = JobRunner[j]
    /\ JobType[j] \in HelloTypes[c]

\* A job fails as disconnected only if the connection it was sent on really
\* closed, never because another connection of the same runner dropped.
DropFailsOnlyItsJobs ==
  \A j \in Jobs :
    outcome[j] = "disconnected" =>
      closed[picked[j]] /\ phase[picked[j]] = "gone"

\* The calls the detailed system makes, seen by the workflow.
Called(j) ==
  CASE outcome[j] \in Results -> outcome[j]
    [] outcome[j] \in {"not connected", "unsupported"} -> "refused"
    [] outcome[j] \in {"timeout", "cancelled", "disconnected"} -> "failed"
    [] outcome[j] = "none" /\ pc[j] = "idle" -> "idle"
    [] OTHER -> "called"

Abstract == INSTANCE RemoteCall
              WITH call <- [j \in Jobs |-> Called(j)], runs <- executions

\* The hub and the runners together implement an at-most-once remote call.
ImplementsRemoteCall == Abstract!Spec

-----------------------------------------------------------------------------
(* Liveness.                                                               *)

\* Every Dispatch that has picked a connection returns, whatever the runner
\* does: a full send channel is drained or the connection is closed by its
\* writer, and the timer bounds the wait for the answer.
DispatchReturns ==
  TimersFire => \A j \in Jobs : pc[j] = "picked" ~> pc[j] = "done"

\* When the connection of a waiting job drops, the job fails promptly: no
\* timer is needed for the jobs on the table at that moment.
DropFailsJobs ==
  \A j \in Jobs :
    (/\ pc[j] = "waiting"
     /\ j \in jobs
     /\ phase[picked[j]] = "serving"
     /\ closed[picked[j]] \/ ~link[picked[j]]) ~> pc[j] = "done"

\* Every connection that a token reset collects leaves the hub.
CollectedConnsLeave ==
  \A r \in Resets, c \in Conns : c \in toClose[r] ~> c \notin conns

-----------------------------------------------------------------------------
(* What the design document says and the code does not do.                 *)

\* docs/design/remote-runner.md: the server fails all in-flight jobs for a
\* connection the moment it drops.  Once unregister is over, no Dispatch
\* should be left waiting for that connection.
InFlightJobsFailOnDrop ==
  \A j \in Jobs :
    (/\ pc[j] = "waiting"
     /\ phase[picked[j]] = "gone"
     /\ handoff[picked[j]] = {}) => reply[j] # "none"

\* docs/design/remote-runner.md: resetting drops that database's runner
\* connections immediately.  Once a reset is answered, and no later one has
\* begun, no connection admitted with another token should be served.
ResetDropsConnections ==
  \A r \in Resets : (ResetAnswered(r) /\ token[ResetDb[r]] = r) =>
    \A c \in conns :
      ConnDb[c] = ResetDb[r] /\ ~closed[c] => connToken[c] = token[ResetDb[r]]
=============================================================================
