-------------------------- MODULE MCRepositorySync --------------------------
(* An instance of RepositorySync for TLC. *)
EXTENDS RepositorySync

CONSTANTS c1, c2, c3

\* c1 changes the catalog, c2 a script that is on the branch, c3 creates one.
TwoPaths == <<"metadata", "workflow">>
PathOfThree == [c \in Changes |-> IF c = c1 THEN "metadata" ELSE "workflow"]
=============================================================================
