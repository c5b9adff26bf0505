----------------------------- MODULE RemoteCall -----------------------------
(***************************************************************************)
(* What remote execution promises to the workflow that calls it: a call    *)
(* whose node runs at most once.  A refused call never runs its node, a    *)
(* call that returns the node's output or the node's error has run it, and *)
(* a call that fails (timeout, cancellation, dropped connection) tells     *)
(* nothing: the node may have run, may be running, or may still run.       *)
(***************************************************************************)
EXTENDS Naturals

CONSTANT Jobs

VARIABLES
  call,  \* what the caller of each job knows
  runs   \* how many times the node of each job was started

Init ==
  /\ call = [j \in Jobs |-> "idle"]
  /\ runs = [j \in Jobs |-> 0]

Begin(j) ==
  /\ call[j] = "idle"
  /\ call' = [call EXCEPT ![j] = "called"]
  /\ UNCHANGED runs

Refuse(j) ==
  /\ call[j] \in {"idle", "called"}
  /\ runs[j] = 0
  /\ call' = [call EXCEPT ![j] = "refused"]
  /\ UNCHANGED runs

Execute(j) ==
  /\ call[j] \in {"called", "failed"}
  /\ runs[j] = 0
  /\ runs' = [runs EXCEPT ![j] = 1]
  /\ UNCHANGED call

Succeed(j) ==
  /\ call[j] = "called"
  /\ runs[j] = 1
  /\ \E result \in {"output", "error"} : call' = [call EXCEPT ![j] = result]
  /\ UNCHANGED runs

Fail(j) ==
  /\ call[j] = "called"
  /\ call' = [call EXCEPT ![j] = "failed"]
  /\ UNCHANGED runs

Next ==
  \E j \in Jobs : Begin(j) \/ Refuse(j) \/ Execute(j) \/ Succeed(j) \/ Fail(j)

Spec == Init /\ [][Next]_<<call, runs>>
=============================================================================
