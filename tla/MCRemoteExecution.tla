------------------------- MODULE MCRemoteExecution -------------------------
(* Instances of RemoteExecution for TLC: the constants that are functions. *)
EXTENDS RemoteExecution, TLC

CONSTANTS c1, c2, j1, j2, db1, db2, n1, t1, t2, r1, r2

\* All connections and jobs alike: one database, one name, one node type.
SameConnDb     == [c \in Conns |-> db1]
SameHelloName  == [c \in Conns |-> n1]
SameJobDb      == [j \in Jobs |-> db1]
SameJobRunner  == [j \in Jobs |-> n1]
SameJobType    == [j \in Jobs |-> t1]
SameResetDb    == [r \in Resets |-> db1]

\* Two node types: every runner supports t1, j1 is of type t1 and every other
\* job of type t2, which no runner supports.
OneTypeHello   == [c \in Conns |-> {t1}]
TwoTypesJob  == [j \in Jobs |-> IF j = j1 THEN t1 ELSE t2]

\* The reset r1 and the job j2 are not both explored in one behaviour: neither
\* is bound by fairness, so leaving one out is a behaviour of the system.
ResetOrJob == pc[j2] = "idle" \/ \A r \in Resets : resetPc[r] = "idle"

Symmetric == Permutations(Conns)
=============================================================================
