------------------------------ MODULE Requests ------------------------------
(***************************************************************************)
(* The requests that clients have under way at the HTTP server of          *)
(* src/internal/api/server.go, each handled by a goroutine of its own.     *)
(*                                                                         *)
(* A behaviour serves one scenario: a set of requests, each sent when the  *)
(* requests of "after" have been answered, and otherwise at any time.  A   *)
(* handler is a program counter; a step is one statement on a store, or    *)
(* one stretch of code under a lock.  Every handler answers an error of a  *)
(* statement at once, and undoes nothing that it did before.               *)
(***************************************************************************)
EXTENDS Integers, Sequences, FiniteSets

CONSTANTS
  Scenarios,  \* sets of requests: records with id, op, after and op's inputs
  MaxFaults,  \* bound: how many statements fail
  Nothing     \* no value

ASSUME RequestAssumption ==
  /\ MaxFaults \in Nat
  /\ \A s \in Scenarios : \A r \in s :
       /\ r.after \subseteq {q.id : q \in s}
       /\ \A q \in s : q.id = r.id => q = r

VARIABLES
  due,     \* the scenario
  pc,      \* progress of each of its requests
  result,  \* how it was answered
  held,    \* what its handler has read
  faults

requestVars == <<due, pc, result, held, faults>>

\* Where the handlers and their clients may be.
Labels ==
  {"start", "done", "upsert", "session", "away", "waiting", "store", "redeem", "issue", "forget",
   "conflicts", "grant", "role", "respond", "own", "read", "sync", "ensure", "change", "save",
   "insert", "row", "write", "delete", "remove", "previous", "file", "oldFile", "owner", "token",
   "scripts", "local", "record", "next", "post", "reply"}

RequestsTypeOK ==
  /\ due \in Scenarios
  /\ pc \in [due -> Labels]
  /\ result \in [due -> {"none", "ok", "unauthorized", "forbidden", "invalid", "notFound",
                         "conflict", "failed"}]
  /\ DOMAIN held = due
  /\ faults \in 0 .. MaxFaults
  /\ \A r \in due : result[r] # "none" <=> pc[r] = "done"

RequestsInit ==
  /\ due \in Scenarios
  /\ pc = [r \in due |-> "start"]
  /\ result = [r \in due |-> "none"]
  /\ held = [r \in due |-> Nothing]
  /\ faults = 0

\* The clients that r waits for have their answers.
Sent(r) == \A q \in due : q.id \in r.after => pc[q] = "done"

At(r, op, label) == r.op = op /\ pc[r] = label /\ (label = "start" => Sent(r))

UnderWay(r) == pc[r] \notin {"start", "done"}

\* The handler goes on at a label, holding a value.
Goto(r, label, value) ==
  /\ pc' = [pc EXCEPT ![r] = label]
  /\ held' = [held EXCEPT ![r] = value]
  /\ UNCHANGED <<due, result, faults>>

Answer(r, outcome) ==
  /\ pc' = [pc EXCEPT ![r] = "done"]
  /\ result' = [result EXCEPT ![r] = outcome]
  /\ held' = [held EXCEPT ![r] = Nothing]
  /\ UNCHANGED <<due, faults>>

\* A statement fails, or the context of the request ends before it.
StatementFails(r) ==
  /\ UnderWay(r) /\ faults < MaxFaults
  /\ faults' = faults + 1
  /\ pc' = [pc EXCEPT ![r] = "done"]
  /\ result' = [result EXCEPT ![r] = "failed"]
  /\ held' = [held EXCEPT ![r] = Nothing]
  /\ UNCHANGED due
=============================================================================
