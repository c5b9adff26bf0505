---------------------------- MODULE MCRowService ----------------------------
(* Instances of RowService for TLC: the constants that are functions. *)
EXTENDS RowService, TLC

CONSTANTS code, note, file, k1, v1, v2, f1, update, delete, upsert1, upsert2, upsert3

KindOf == [o \in Ops |-> CASE o = update -> "update" [] o = delete -> "delete"
                           [] OTHER -> "upsert"]

\* The update and the delete are for the first record, which has the match value
\* of the upserts; the update and one upsert give the same file, which the
\* other upsert does not give.
FirstRecord == [o \in Ops |-> 1]
PatchOf == [o \in Ops |->
  CASE o = update -> (note :> v2 @@ file :> f1)
    [] o = delete -> <<>>
    [] o = upsert1 -> (code :> k1 @@ file :> f1)
    [] o \in {upsert2, upsert3} -> (code :> k1)]
First == [f \in Fields |-> CASE f = note -> v1 [] f = code -> k1 [] OTHER -> Null]

\* Who may not read "all" sees the rows whose note is v1.
SeesV1 == [o \in Ops |-> {v1}]
AnyFile == [o \in Ops |-> Files]

\* At most one statement fails or one client leaves in a behaviour, in which
\* three operations meet.
OneFault ==
  /\ faults + Cardinality(gone) <= 1
  /\ Cardinality({o \in Ops : pc[o] # "start" \/ act[o] # Kind[o]}) <= 3
=============================================================================
