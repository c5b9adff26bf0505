----------------------------- MODULE RunnerCli -----------------------------
(***************************************************************************)
(* The runner process: serveConnection of                                  *)
(* src/internal/runnercli/runnercli.go, one instance per connection.       *)
(*                                                                         *)
(* It reads job frames, takes one of MaxJobs slots for each (not reading   *)
(* while none is free) and executes them in goroutines that outlive the    *)
(* connection: a job that was read is executed even if the connection      *)
(* dropped meanwhile, and its result is then discarded.                    *)
(***************************************************************************)
EXTENDS RunnerHub, FiniteSets

CONSTANTS
  MaxJobs,  \* options.MaxJobs
  NoJob     \* no job frame in hand

ASSUME CliAssumption ==
  /\ MaxJobs \in Nat \ {0}
  /\ NoJob \notin Jobs

VARIABLES
  held,       \* the job frame the read loop has read and found no slot for yet
  running,    \* jobs being executed
  executions  \* history: how many times each job was started

cliVars == <<held, running, executions>>

CliTypeOK ==
  /\ held \in [Conns -> Jobs \cup {NoJob}]
  /\ running \in [Conns -> SUBSET Jobs]
  /\ executions \in [Jobs -> Nat]

CliInit ==
  /\ held = [c \in Conns |-> NoJob]
  /\ running = [c \in Conns |-> {}]
  /\ executions = [j \in Jobs |-> 0]

\* The read loop reads the next job frame.
ReadJob(c) ==
  /\ link[c]
  /\ held[c] = NoJob
  /\ toRunner[c] # <<>>
  /\ held' = [held EXCEPT ![c] = Head(toRunner[c])]
  /\ toRunner' = [toRunner EXCEPT ![c] = Tail(@)]
  /\ UNCHANGED <<hubVars, toServer, link, running, executions>>

\* Mutant of StartJob: the frame is not given up when the job starts.
StartJobKeepsFrame(c) ==
  /\ held[c] # NoJob
  /\ executions[held[c]] < 2
  /\ executions' = [executions EXCEPT ![held[c]] = @ + 1]
  /\ UNCHANGED <<hubVars, wireVars, held, running>>

\* A slot is free: the job starts in a goroutine of its own.
StartJob(c) ==
  /\ held[c] # NoJob
  /\ Cardinality(running[c]) < MaxJobs
  /\ running' = [running EXCEPT ![c] = @ \cup {held[c]}]
  /\ executions' = [executions EXCEPT ![held[c]] = @ + 1]
  /\ held' = [held EXCEPT ![c] = NoJob]
  /\ UNCHANGED <<hubVars, wireVars>>

\* executeJob returns (a panic of the node is turned into an error) and the
\* result frame is written.
FinishJob(c, j, result) ==
  /\ j \in running[c]
  /\ link[c]
  /\ toServer' = [toServer EXCEPT ![c] = Append(@, [job |-> j, result |-> result])]
  /\ running' = [running EXCEPT ![c] = @ \ {j}]
  /\ UNCHANGED <<hubVars, toRunner, link, held, executions>>

\* executeJob returns and the result cannot be delivered any more.
DiscardResult(c, j) ==
  /\ j \in running[c]
  /\ ~link[c]
  /\ running' = [running EXCEPT ![c] = @ \ {j}]
  /\ UNCHANGED <<hubVars, wireVars, held, executions>>

\* serveConnection returns or the network path breaks; the goroutines of the
\* running jobs and a read loop waiting for a slot are not interrupted.
DropLink(c) ==
  /\ link[c]
  /\ link' = [link EXCEPT ![c] = FALSE]
  /\ UNCHANGED <<hubVars, toRunner, toServer, cliVars>>

\* The runner process ends and takes the jobs it was executing with it.
RunnerExits(c) ==
  /\ link[c] \/ held[c] # NoJob \/ running[c] # {}
  /\ link' = [link EXCEPT ![c] = FALSE]
  /\ held' = [held EXCEPT ![c] = NoJob]
  /\ running' = [running EXCEPT ![c] = {}]
  /\ UNCHANGED <<hubVars, toRunner, toServer, executions>>

CliStep(c) ==
  \/ ReadJob(c) \/ StartJob(c)
  \/ \E j \in Jobs, result \in Results : FinishJob(c, j, result)
  \/ \E j \in Jobs : DiscardResult(c, j)
  \/ DropLink(c) \/ RunnerExits(c)
=============================================================================
