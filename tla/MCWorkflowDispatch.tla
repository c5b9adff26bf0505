------------------------- MODULE MCWorkflowDispatch -------------------------
(* Instances of WorkflowDispatch for TLC: the constants that are functions. *)
EXTENDS WorkflowDispatch

CONSTANTS db1, w1, w2, e1, e2, e3, e4, e5, h1, k1, k2, m1

OneDb == [w \in Workflows |-> db1]
EventsOneDb == [e \in Events |-> db1]

\* e1 is a row change made by a request, e2 to e5 are made by runs of w1, h1 calls the
\* webhook of w2; k1 and k2 are ticks.
KindOf == [e \in Events |->
             IF e \in {k1, k2} THEN "tick" ELSE IF e = h1 THEN "webhook" ELSE "row"]
SourceOf == [e \in Events |-> IF e \in {e2, e3, e4, e5} THEN w1 ELSE NoWorkflow]
TimeOf == [e \in Events |-> IF e = k1 THEN 2 ELSE IF e = k2 THEN 3 ELSE 0]
TimeNextDay == [e \in Events |-> IF e = k1 THEN 2 ELSE IF e = k2 THEN 7 ELSE 0]

\* The trigger of w1 wants every row change, its own included, that of w2
\* wants ticks, or webhook calls.
WantedBy == [e \in Events |-> IF e \in {k1, k2, h1} THEN {w2} ELSE {w1}]

\* Settings of the workflows.
NoInterval == [w \in Workflows |-> 0]
NoDailyAt  == [w \in Workflows |-> NoDaily]
DailyAtOne == [w \in Workflows |-> IF w = w2 THEN 1 ELSE NoDaily]
KeepAll    == [w \in Workflows |-> NoRetention]
KeepOneDay == [w \in Workflows |-> 1]
IntervalNine == [w \in Workflows |-> IF w = w2 THEN 9 ELSE 0]

OfW1 == [m \in Manuals |-> w1]
OfW2 == [m \in Manuals |-> w2]

\* The events that runs of w1 make are alike: they are made in this order.
InOrder ==
  \A pair \in {<<e2, e3>>, <<e3, e4>>, <<e4, e5>>} :
    pair[1] \in Events /\ at[pair[1]] = "none" => pair[2] \notin Events \/ at[pair[2]] = "none"

\* Of the things users and the machine do to a workflow on its way, at most
\* one is explored in a behaviour; none of them is bound by fairness.
OneDisturbance ==
  Cardinality({w \in Workflows : ~enabled[w]} \cup gone
              \cup {m \in Manuals : manual[m] # "none"}) + crashes <= 1

\* Events arrive as they like: three of them in each behaviour.
ThreeEvents == Cardinality({e \in Events : at[e] # "none"}) <= 3

\* The trigger of w2 wants calls in one behaviour and ticks in another.
HookOrTicks == at[h1] = "none" \/ (at[k1] = "none" /\ at[k2] = "none")
=============================================================================
