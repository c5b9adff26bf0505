--------------------------- MODULE TriggerDelivery ---------------------------
(***************************************************************************)
(* What triggering promises to the author of a workflow: of the events its *)
(* database accepts, each starts the workflow at most once, and those that *)
(* start it do so in the order they were accepted.  Which events start it, *)
(* and whether one is lost on the way, is left open.                       *)
(***************************************************************************)
EXTENDS Naturals, Sequences, SequencesExt

CONSTANTS Databases, Workflows, DbOf, Events

VARIABLES
  accepted,  \* per database, the events accepted so far
  started    \* per workflow, the events that started it

Init ==
  /\ accepted = [db \in Databases |-> <<>>]
  /\ started = [w \in Workflows |-> <<>>]

Accept(db, e) ==
  /\ \A i \in DOMAIN accepted[db] : accepted[db][i] # e
  /\ accepted' = [accepted EXCEPT ![db] = Append(@, e)]
  /\ UNCHANGED started

\* The events a workflow may still be started by: those accepted after the
\* last one that started it.
After(w, i) ==
  started[w] = <<>> \/ \E k \in 1 .. i - 1 : accepted[DbOf[w]][k] = Last(started[w])

Start(w) ==
  /\ \E i \in DOMAIN accepted[DbOf[w]] :
       /\ After(w, i)
       /\ started' = [started EXCEPT ![w] = Append(@, accepted[DbOf[w]][i])]
  /\ UNCHANGED accepted

Next ==
  \/ \E db \in Databases, e \in Events : Accept(db, e)
  \/ \E w \in Workflows : Start(w)

Spec == Init /\ [][Next]_<<accepted, started>>
=============================================================================
