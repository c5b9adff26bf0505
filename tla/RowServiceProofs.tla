-------------------------- MODULE RowServiceProofs --------------------------
(***************************************************************************)
(* Theorems about RowService: what an acknowledged write has done outside  *)
(* the table, in the file table and in the history store; types; that a    *)
(* record at rest agrees with its history, whatever statement fails; and   *)
(* that upserts keep their match values unique, as far as they do.         *)
(***************************************************************************)
EXTENDS RowService, FiniteSetTheorems, TLAPS

-----------------------------------------------------------------------------
(* Progress.                                                               *)

Labels == {"start", "read", "bind", "write", "reread", "delete",
           "record", "put", "notify", "undo", "done"}

\* The record an operation works on is set once it has started, what it does
\* once its first statement has told, and its result when it is done.
Progress ==
  /\ nextId \in Nat /\ nextId > 0
  /\ pc \in [Ops -> Labels]
  /\ act \in [Ops -> {"create", "update", "delete", "upsert", "noop"}]
  /\ id \in [Ops -> Nat]
  /\ result \in [Ops -> {"none", "ok", "failed"}]
  /\ \A o \in Ops :
       /\ pc[o] \notin {"start", "done"} => id[o] # 0
       /\ pc[o] # "done" => result[o] = "none"
       /\ pc[o] = "read" => act[o] \in {"update", "delete"}
       /\ pc[o] = "delete" => act[o] = "delete"

LEMMA InitProgress == Init => Progress
  BY RowAssumption DEF Init, Progress, Labels

LEMMA Others ==
  ASSUME Progress, NEW o \in Ops, OpStep(o)
  PROVE  \A p \in Ops \ {o} : /\ pc'[p] = pc[p] /\ act'[p] = act[p] /\ id'[p] = id[p]
                              /\ result'[p] = result[p]
  BY DEF Progress, OpStep, Insert, UpsertCreates, UpsertUpdates, UpsertDoesNothing, UpsertRefused,
     CheckRowSet, ReadRow, Delete, Bind, CannotBind, Write, Reread, PickKey, Put, Notify, Undo,
     ClientLeaves, StatementFails, Begin, Goto, Finish, GiveUp, storeVars, opVars, ghosts

\* The step of one operation, seen by itself.
LEMMA OwnStep ==
  ASSUME Progress, NEW o \in Ops, OpStep(o)
  PROVE  /\ pc'[o] \in Labels /\ id'[o] \in Nat /\ result'[o] \in {"none", "ok", "failed"}
         /\ act'[o] \in {"create", "update", "delete", "upsert", "noop"}
         /\ pc'[o] \notin {"start", "done"} => id'[o] # 0
         /\ pc'[o] # "done" => result'[o] = "none"
         /\ pc'[o] = "read" => act'[o] \in {"update", "delete"}
         /\ pc'[o] = "delete" => act'[o] = "delete"
         /\ pc[o] # "start" => act'[o] = act[o] /\ id'[o] = id[o]
<1>0. /\ pc[o] \in Labels /\ id[o] \in Nat /\ nextId \in Nat /\ nextId # 0
      /\ act[o] \in {"create", "update", "delete", "upsert", "noop"}
      /\ pc[o] \notin {"start", "done"} => id[o] # 0
      /\ pc[o] # "done" => result[o] = "none"
      /\ result[o] \in {"none", "ok", "failed"}
      /\ pc[o] = "read" => act[o] \in {"update", "delete"}
      /\ pc[o] = "delete" => act[o] = "delete"
  BY DEF Progress
<1>1. \A i \in Ids : i \in Nat /\ i # 0
  BY DEF Ids
<1>2. CASE Insert(o) \/ UpsertCreates(o) \/ UpsertDoesNothing(o) \/ UpsertRefused(o)
  BY <1>0, <1>2 DEF Progress, Insert, UpsertCreates, UpsertDoesNothing, UpsertRefused, At, Begin,
     Goto, Finish, storeVars, Labels
<1>3. CASE UpsertUpdates(o)
  BY <1>0, <1>1, <1>3 DEF Progress, UpsertUpdates, Matches, At, Begin, Labels
<1>4. CASE CheckRowSet(o)
  <2>1. PICK i \in Nat : i # 0 /\ id' = [id EXCEPT ![o] = i]
    BY <1>0, <1>1, <1>4, RowAssumption DEF CheckRowSet, Begin
  <2>. QED  BY <1>0, <1>4, <2>1 DEF Progress, CheckRowSet, At, Goto, Finish, Labels
<1>5. CASE ReadRow(o) \/ Delete(o)
  BY <1>0, <1>5 DEF Progress, ReadRow, Delete, At, Goto, Finish, opVars, Labels
<1>6. CASE Bind(o) \/ CannotBind(o) \/ Write(o) \/ Reread(o)
  BY <1>0, <1>6 DEF Progress, Bind, CannotBind, Write, Reread, At, GiveUp, Goto, Finish, opVars, Labels
<1>7. CASE PickKey(o) \/ Put(o) \/ Notify(o) \/ Undo(o) \/ ClientLeaves(o)
  BY <1>0, <1>7 DEF Progress, PickKey, Put, Notify, Undo, ClientLeaves, At, Goto, Finish, opVars, Labels
<1>8. CASE StatementFails(o)
  <2>1. \/ pc' = [pc EXCEPT ![o] = "undo"] /\ UNCHANGED result /\ pc[o] \notin {"start", "done"}
        \/ pc' = [pc EXCEPT ![o] = "done"] /\ result' = [result EXCEPT ![o] = "failed"]
    BY <1>0, <1>8 DEF StatementFails, GiveUp, Goto, Finish
  <2>2. UNCHANGED <<act, id>>
    BY <1>8 DEF StatementFails, opVars
  <2>. QED  BY <1>0, <2>1, <2>2 DEF Progress, Labels
<1>. QED  BY <1>2, <1>3, <1>4, <1>5, <1>6, <1>7, <1>8 DEF OpStep

LEMMA NextProgress == Progress /\ [Next]_vars => Progress'
<1> SUFFICES ASSUME Progress, [Next]_vars PROVE Progress'
  OBVIOUS
<1>1. CASE UNCHANGED vars
  BY <1>1 DEF vars, storeVars, opVars, Progress
<1>2. ASSUME NEW o \in Ops, OpStep(o) PROVE Progress'
  <2>1. /\ pc' = [pc EXCEPT ![o] = pc'[o]] /\ act' = [act EXCEPT ![o] = act'[o]]
        /\ id' = [id EXCEPT ![o] = id'[o]] /\ result' = [result EXCEPT ![o] = result'[o]]
    BY <1>2 DEF Progress, OpStep, Insert, UpsertCreates, UpsertUpdates, UpsertDoesNothing,
       UpsertRefused, CheckRowSet, ReadRow, Delete, Bind, CannotBind, Write, Reread, PickKey, Put,
       Notify, Undo, ClientLeaves, StatementFails, Begin, Goto, Finish, GiveUp, storeVars, opVars,
       ghosts
  <2>2. nextId' \in Nat /\ nextId' > 0
    BY <1>2 DEF Progress, OpStep, Insert, UpsertCreates, UpsertUpdates, UpsertDoesNothing,
       UpsertRefused, CheckRowSet, ReadRow, Delete, Bind, CannotBind, Write, Reread, PickKey, Put,
       Notify, Undo, ClientLeaves, StatementFails, storeVars
  <2>3. /\ pc' \in [Ops -> Labels] /\ id' \in [Ops -> Nat]
        /\ act' \in [Ops -> {"create", "update", "delete", "upsert", "noop"}]
        /\ result' \in [Ops -> {"none", "ok", "failed"}]
    BY <1>2, <2>1, OwnStep DEF Progress
  <2>. QED  BY <1>2, <2>2, <2>3, OwnStep, Others DEF Progress
<1>. QED  BY <1>1, <1>2 DEF Next

-----------------------------------------------------------------------------
(* Files.                                                                  *)

\* The write has bound its file, if it gives one.
HasBound(o) ==
  act[o] \in {"create", "update"} /\ (pc[o] \in {"write", "reread", "record", "put", "notify"}
                                      \/ result[o] = "ok")

FilesBound ==
  /\ bound \in [Files -> Nat]
  /\ \A o \in Ops : HasBound(o) /\ GivesFile(o) => id[o] # 0 /\ bound[Patch[o][FileField]] = id[o]

LEMMA InitFiles == Init => FilesBound
  BY DEF Init, FilesBound, HasBound

LEMMA NextFiles == Progress /\ FilesBound /\ [Next]_vars => FilesBound'
<1> SUFFICES ASSUME Progress, FilesBound, [Next]_vars PROVE FilesBound'
  OBVIOUS
<1>0. \A o \in Ops : GivesFile(o) => Patch[o][FileField] \in Files
  BY RowAssumption DEF GivesFile
<1>1. CASE UNCHANGED vars
  BY <1>1 DEF vars, storeVars, opVars, FilesBound, HasBound
<1>2. ASSUME NEW o \in Ops, OpStep(o) PROVE FilesBound'
  <2>0. Progress'
    BY <1>2, NextProgress DEF Next
  <2>1. \A p \in Ops \ {o} : (HasBound(p)' <=> HasBound(p)) /\ id'[p] = id[p]
    BY <1>2, Others DEF HasBound
  <2>2. CASE Bind(o)
    <3>1. pc[o] = "bind" /\ id[o] # 0 /\ id[o] \in Nat /\ id' = id
      BY <2>2 DEF Progress, Bind, At, opVars
    <3>2. CASE ~GivesFile(o)
      BY <1>0, <2>0, <2>1, <2>2, <3>2 DEF FilesBound, Bind
    <3>3. CASE GivesFile(o)
      <4>1. PICK f \in Files : f = Patch[o][FileField]
        BY <1>0, <3>3
      <4>2. bound' = [bound EXCEPT ![f] = id[o]] /\ bound[f] \in {0, id[o]}
        BY <2>2, <3>3, <4>1 DEF Bind, Bindable
      <4>3. ASSUME NEW p \in Ops, p # o, HasBound(p), GivesFile(p)
            PROVE  id[p] # 0 /\ bound'[Patch[p][FileField]] = id[p]
        BY <1>0, <4>2, <4>3 DEF FilesBound
      <4>. QED  BY <2>1, <3>1, <4>1, <4>2, <4>3 DEF FilesBound
    <3>. QED  BY <3>2, <3>3
  <2>3. CASE ~Bind(o)
    <3>1. UNCHANGED bound
      BY <1>2, <2>3 DEF OpStep, Insert, UpsertCreates, UpsertUpdates, UpsertDoesNothing,
         UpsertRefused, CheckRowSet, ReadRow, Delete, CannotBind, Write, Reread, PickKey, Put,
         Notify, Undo, ClientLeaves, StatementFails, storeVars
    <3>2. HasBound(o)' => HasBound(o) /\ id'[o] = id[o]
      <4>1. /\ pc[o] \in Labels /\ act[o] \in {"create", "update", "delete", "upsert", "noop"}
            /\ pc[o] = "read" => act[o] \in {"update", "delete"}
            /\ pc[o] = "delete" => act[o] = "delete"
            /\ pc[o] # "done" => result[o] = "none"
        BY DEF Progress
      <4>2. CASE Insert(o) \/ UpsertCreates(o) \/ UpsertUpdates(o) \/ UpsertDoesNothing(o)
                 \/ UpsertRefused(o) \/ CheckRowSet(o)
        BY <4>1, <4>2 DEF Progress, Insert, UpsertCreates, UpsertUpdates, UpsertDoesNothing,
           UpsertRefused, CheckRowSet, At, Begin, Goto, Finish, HasBound, storeVars
      <4>3. CASE ReadRow(o) \/ Delete(o) \/ CannotBind(o) \/ Write(o) \/ Reread(o)
        BY <4>1, <4>3 DEF Progress, ReadRow, Delete, CannotBind, Write, Reread, At, GiveUp, Goto,
           Finish, HasBound, opVars
      <4>4. CASE PickKey(o) \/ Put(o) \/ Notify(o) \/ Undo(o) \/ ClientLeaves(o)
        BY <4>1, <4>4 DEF Progress, PickKey, Put, Notify, Undo, ClientLeaves, At, Goto, Finish,
           HasBound, opVars
      <4>5. CASE StatementFails(o)
        BY <4>1, <4>5 DEF Progress, StatementFails, GiveUp, Goto, Finish, HasBound, opVars
      <4>. QED  BY <1>2, <2>3, <4>2, <4>3, <4>4, <4>5 DEF OpStep
    <3>. QED  BY <2>1, <3>1, <3>2 DEF FilesBound
  <2>. QED  BY <2>2, <2>3
<1>. QED  BY <1>1, <1>2 DEF Next

\* The file that an acknowledged write put in a row is bound to that row,
\* however many writes compete for it: a binding is never taken over or given up.
THEOREM FilesStayBound == Spec => []AcknowledgedFilesBound
<1>1. FilesBound => AcknowledgedFilesBound
  BY DEF FilesBound, AcknowledgedFilesBound, HasBound
<1>. QED
  BY <1>1, InitProgress, NextProgress, InitFiles, NextFiles, PTL DEF Spec

-----------------------------------------------------------------------------
(* History.                                                                *)

Keyed(o) == \E e \in entries : e.rec = id[o] /\ e.at = key[o]

AnnouncedKept ==
  /\ \E S : key \in [Ops -> S]
  /\ told \subseteq Ops
  /\ \A o \in told : pc[o] = "done"
  /\ \A o \in Ops : pc[o] = "notify" \/ o \in told => Keyed(o)

LEMMA InitAnnounced == Init => AnnouncedKept
<1>1. Init => key \in [Ops -> {0}]
  BY DEF Init
<1>. QED  BY <1>1 DEF Init, AnnouncedKept

LEMMA NextAnnounced == Progress /\ AnnouncedKept /\ [Next]_vars => AnnouncedKept'
<1> SUFFICES ASSUME Progress, AnnouncedKept, [Next]_vars PROVE AnnouncedKept'
  OBVIOUS
<1>1. CASE UNCHANGED vars
  BY <1>1 DEF vars, storeVars, opVars, AnnouncedKept, Keyed
<1>2. ASSUME NEW o \in Ops, OpStep(o) PROVE AnnouncedKept'
  <2>. PICK S : key \in [Ops -> S]
    BY DEF AnnouncedKept
  <2>1. \A p \in Ops \ {o} : pc'[p] = pc[p] /\ id'[p] = id[p]
    BY <1>2, Others
  <2>2. /\ \E T : key' \in [Ops -> T]
        /\ \A p \in Ops \ {o} : key'[p] = key[p]
        /\ pc[o] # "record" => key'[o] = key[o]
    <3>1. CASE PickKey(o)
      <4>1. PICK t : key' = [key EXCEPT ![o] = t] /\ pc[o] = "record"
        BY <3>1 DEF PickKey, At
      <4>2. key' \in [Ops -> S \cup {t}]
        BY <4>1
      <4>. QED  BY <4>1, <4>2
    <3>2. CASE ~PickKey(o)
      <4>1. UNCHANGED key
        BY <1>2, <3>2 DEF OpStep, Insert, UpsertCreates, UpsertUpdates, UpsertDoesNothing,
           UpsertRefused, CheckRowSet, ReadRow, Delete, Bind, CannotBind, Write, Reread, Put,
           Notify, Undo, ClientLeaves, StatementFails, opVars
      <4>. QED  BY <4>1
    <3>. QED  BY <3>1, <3>2
  <2>3. \A r, t : (\E e \in entries : e.rec = r /\ e.at = t) => \E e \in entries' : e.rec = r /\ e.at = t
    <3>1. CASE Put(o)
      <4>1. PICK f : /\ f.rec = id[o] /\ f.at = key[o]
                     /\ entries' = {e \in entries : ~(e.rec = id[o] /\ e.at = key[o])} \cup {f}
        BY <3>1 DEF Put
      <4>. QED  BY <4>1
    <3>2. CASE ~Put(o)
      <4>1. UNCHANGED entries
        BY <1>2, <3>2 DEF OpStep, Insert, UpsertCreates, UpsertUpdates, UpsertDoesNothing,
           UpsertRefused, CheckRowSet, ReadRow, Delete, Bind, CannotBind, Write, Reread, PickKey,
           Notify, Undo, ClientLeaves, StatementFails, storeVars
      <4>. QED  BY <4>1
    <3>. QED  BY <3>1, <3>2
  <2>4. ASSUME NEW p \in Ops, p # o, pc'[p] = "notify" \/ p \in told, pc[p] = "notify" \/ p \in told
        PROVE  Keyed(p)'
    BY <2>1, <2>2, <2>3, <2>4 DEF AnnouncedKept, Keyed
  <2>5. CASE Put(o)
    <3>1. pc[o] = "put" /\ UNCHANGED <<told, id, key>> /\ pc' = [pc EXCEPT ![o] = "notify"]
      BY <2>5 DEF Put, At, Goto, opVars
    <3>2. Keyed(o)'
      <4>1. PICK f : f.rec = id[o] /\ f.at = key[o] /\ f \in entries'
        BY <2>5 DEF Put
      <4>. QED  BY <3>1, <4>1 DEF Keyed
    <3>3. \A p \in told : p # o
      BY <3>1 DEF AnnouncedKept
    <3>. QED  BY <2>1, <2>2, <2>4, <3>1, <3>2, <3>3 DEF AnnouncedKept
  <2>6. CASE Notify(o)
    <3>1. /\ pc[o] = "notify" /\ told' = told \cup {o} /\ UNCHANGED <<id, key>>
          /\ pc' = [pc EXCEPT ![o] = "done"]
      BY <2>6 DEF Notify, Goto, Finish, opVars
    <3>2. Keyed(o)'
      BY <2>3, <3>1 DEF AnnouncedKept, Keyed
    <3>3. pc'[o] = "done"
      BY <3>1 DEF Progress
    <3>. QED  BY <2>1, <2>2, <2>4, <3>1, <3>2, <3>3 DEF AnnouncedKept
  <2>7. CASE ~Put(o) /\ ~Notify(o)
    <3>1. UNCHANGED told
      BY <1>2, <2>7 DEF OpStep, Insert, UpsertCreates, UpsertUpdates, UpsertDoesNothing,
         UpsertRefused, CheckRowSet, ReadRow, Delete, Bind, CannotBind, Write, Reread, PickKey,
         Undo, ClientLeaves, StatementFails, storeVars
    <3>2. /\ pc'[o] = "notify" => pc[o] = "notify"
          /\ pc[o] = "done" => pc'[o] = "done"
      BY <1>2, <2>7 DEF Progress, Labels, OpStep, Insert, UpsertCreates, UpsertUpdates,
         UpsertDoesNothing, UpsertRefused, CheckRowSet, ReadRow, Delete, Bind, CannotBind, Write,
         Reread, PickKey, Undo, ClientLeaves, StatementFails, At, GiveUp, Goto, Finish
    <3>3. pc[o] \in {"notify", "done"} => id'[o] = id[o] /\ key'[o] = key[o]
      BY <1>2, <2>2, OwnStep
    <3>4. pc'[o] = "notify" \/ o \in told => Keyed(o)'
      <4> SUFFICES ASSUME pc'[o] = "notify" \/ o \in told PROVE Keyed(o)'
        OBVIOUS
      <4>1. Keyed(o) /\ pc[o] \in {"notify", "done"}
        BY <3>2 DEF AnnouncedKept
      <4>2. id'[o] = id[o] /\ key'[o] = key[o]
        BY <3>3, <4>1
      <4>3. PICK e \in entries' : e.rec = id[o] /\ e.at = key[o]
        BY <2>3, <4>1 DEF Keyed
      <4>. QED  BY <4>2, <4>3 DEF Keyed
    <3>. QED  BY <2>1, <2>2, <2>4, <3>1, <3>2, <3>4 DEF AnnouncedKept
  <2>. QED  BY <2>5, <2>6, <2>7
<1>. QED  BY <1>1, <1>2 DEF Next

\* A change is announced only when its history key holds an entry, also when
\* several operations choose the same key.
THEOREM ChangesAreRecorded == Spec => []AnnouncedIsRecorded
<1>1. AnnouncedKept => AnnouncedIsRecorded
  BY DEF AnnouncedKept, AnnouncedIsRecorded, Keyed
<1>. QED
  BY <1>1, InitProgress, NextProgress, InitAnnounced, NextAnnounced, PTL DEF Spec

-----------------------------------------------------------------------------
(* Types.                                                                  *)

\* The operations that have made a record.
Inserted == {o \in Creators : act[o] = "create" /\ id[o] # 0}

\* Who makes records, what is done at which statement, and that an operation
\* has at most one entry, put at its very end.
Bookkeeping ==
  /\ nextId = Cardinality(Inserted) + 2
  /\ \A o \in Ops :
       /\ act[o] \in {"create", "upsert"} => o \in Creators
       /\ act[o] = "upsert" \/ (act[o] = "create" /\ pc[o] = "start") => id[o] = 0
       /\ pc[o] \in {"bind", "write", "reread"} => act[o] \in {"create", "update"}
       /\ pc[o] \in {"record", "put", "notify", "undo"} => act[o] \in {"create", "update", "delete"}
       /\ act[o] = "delete" => new[o] = NoRow
       /\ pc[o] \in {"bind", "write"} /\ act[o] # "create" => base[o] # NoRow
  /\ \A e \in entries : e.op # Null => pc[e.op] \in {"notify", "done"}
  /\ \A d, e \in entries : d.op = e.op => d = e

Typed == TypeOK /\ Progress /\ Bookkeeping

LEMMA Counts ==
  /\ IsFiniteSet(Creators) /\ Cardinality(Creators) \in Nat
  /\ Cardinality(Ops) \in Nat
  /\ Ids = 1 .. Cardinality(Creators) + 1
  /\ 1 \in Ids /\ 0 \notin Ids
  /\ \A i \in Ids : i \in Nat
<1>1. IsFiniteSet(Ops) /\ Creators \subseteq Ops
  BY RowAssumption DEF Creators
<1>2. IsFiniteSet(Creators) /\ Cardinality(Creators) \in Nat /\ Cardinality(Ops) \in Nat
  BY <1>1, FS_Subset, FS_CardinalityType
<1>. QED  BY <1>2 DEF Ids

\* The rows that are written are rows.
LEMMA Rows ==
  /\ \A v \in Vals : Calculated(v) \in Row /\ [vals |-> v, calc |-> Null] \in Row
  /\ \A o \in Ops, v \in Vals : Merged(v, Patch[o]) \in Vals
  /\ \A o \in Ops : Fresh(Patch[o]) \in Vals
  /\ \A r \in Row : r # NoRow /\ r.vals \in Vals
<1>1. \A v \in Vals : Calculated(v) \in Row /\ [vals |-> v, calc |-> Null] \in Row
  BY DEF Calculated, Row
<1>2. \A o \in Ops, v \in Vals : Merged(v, Patch[o]) \in Vals
  BY RowAssumption DEF Merged, Vals
<1>3. [f \in Fields |-> Null] \in Vals
  BY DEF Vals
<1>. QED  BY <1>1, <1>2, <1>3, RowAssumption DEF Fresh, Row

LEMMA InitTyped == Init => Typed
<1> SUFFICES ASSUME Init PROVE Typed
  OBVIOUS
<1>1. FirstRow \in Vals /\ Calculated(FirstRow) \in Row
  BY Rows, RowAssumption DEF Vals
<1>2. 0 \in Times /\ 0 \in 0 .. MaxTime /\ 0 \in 0 .. MaxFaults /\ 2 \in Ids \cup {Cardinality(Creators) + 2}
  <2>1. MaxTime \in Nat /\ MaxFaults \in Nat
    BY RowAssumption
  <2>. QED  BY <2>1, Counts DEF Times
<1>3. TypeOK
  <2>1. rows \in [Ids -> Row \cup {NoRow}]
    BY <1>1 DEF Init
  <2>2. entries \in SUBSET Entry
    BY <1>1, <1>2, Counts DEF Init, Entry
  <2>. QED  BY <1>2, <2>1, <2>2, RowAssumption DEF Init, TypeOK
<1>4. Bookkeeping
  <2>1. Inserted = {}
    BY DEF Init, Inserted, Creators
  <2>2. nextId = Cardinality(Inserted) + 2
    BY <2>1, FS_EmptySet DEF Init
  <2>. QED  BY <2>2, RowAssumption DEF Init, Bookkeeping, Creators
<1>. QED  BY <1>3, <1>4, InitProgress DEF Typed

\* A record can be made as long as an operation has none.
LEMMA RoomForOne ==
  ASSUME Typed, NEW o \in Ops, act[o] = "create", pc[o] = "start"
  PROVE  nextId \in Ids /\ nextId + 1 \in Ids \cup {Cardinality(Creators) + 2}
<1>1. o \in Creators /\ o \notin Inserted /\ Inserted \cup {o} \subseteq Creators
  BY DEF Typed, Bookkeeping, Inserted
<1>2. IsFiniteSet(Inserted) /\ Cardinality(Inserted \cup {o}) = Cardinality(Inserted) + 1
  BY <1>1, Counts, FS_Subset, FS_AddElement
<1>3. Cardinality(Inserted) + 1 <= Cardinality(Creators) /\ Cardinality(Inserted) \in Nat
  BY <1>1, <1>2, Counts, FS_Subset, FS_CardinalityType
<1>. QED  BY <1>3, Counts DEF Typed, Bookkeeping

\* A set of natural numbers has a least one.
LEMMA Least ==
  ASSUME NEW S \in SUBSET Nat, S # {}
  PROVE  Min(S) \in S /\ \A y \in S : Min(S) <= y
<1> DEFINE R == {p \in Nat \X Nat : p[1] < p[2]}
<1>1. IsWellFoundedOn(R, Nat)
  BY NatLessThanWellFounded DEF OpToRel
<1>2. \E x \in S : \A y \in S : x <= y
  <2>1. PICK x \in S : \A y \in S : <<y, x>> \notin R
    BY <1>1, WFMin
  <2>2. ASSUME NEW y \in S PROVE x <= y
    <3>1. x \in Nat /\ y \in Nat
      OBVIOUS
    <3>2. ~(y < x)
      BY <2>1, <3>1
    <3>. QED  BY <3>1, <3>2
  <2>. QED  BY <2>2
<1>. QED  BY <1>2 DEF Min

\* There is a free history key: each operation takes at most one.
LEMMA FreeKey ==
  ASSUME Typed, NEW o \in Ops, pc[o] = "record", NEW i \in Ids, NEW now \in 0 .. MaxTime
  PROVE  /\ Min(FreeTimes(i, now)) \in FreeTimes(i, now)
         /\ \A t \in FreeTimes(i, now) : Min(FreeTimes(i, now)) <= t
<1>0. MaxTime \in Nat /\ Cardinality(Ops) \in Nat
  BY RowAssumption, Counts
<1>1. FreeTimes(i, now) \in SUBSET Nat
  BY <1>0 DEF FreeTimes, Times
<1>2. ASSUME FreeTimes(i, now) = {} PROVE FALSE
  <2> DEFINE Window == now .. (MaxTime + Cardinality(Ops))
             Takers == (Ops \ {o}) \cup {Null}
             At0(t) == CHOOSE e \in entries : e.rec = i /\ e.at = t
             taker == [t \in Window |-> At0(t).op]
  <2>1. \A t \in Window : At0(t) \in entries /\ At0(t).at = t
    <3>1. ASSUME NEW t \in Window PROVE \E e \in entries : e.rec = i /\ e.at = t
      BY <1>0, <1>2 DEF FreeTimes, Times
    <3>. QED  BY <3>1
  <2>2. \A e \in entries : e.op \in Takers
    BY DEF Typed, TypeOK, Bookkeeping, Entry
  <2>3. \A t, u \in Window : At0(t).op = At0(u).op => t = u
    <3>1. \A d, e \in entries : d.op = e.op => d = e
      BY DEF Typed, Bookkeeping
    <3>. HIDE DEF At0, Window
    <3>. QED  BY <2>1, <3>1
  <2>4. taker \in [Window -> Takers] /\ \A t, u \in Window : taker[t] = taker[u] => t = u
    <3>. HIDE DEF At0, Window, Takers
    <3>. QED  BY <2>1, <2>2, <2>3
  <2>5. IsFiniteSet(Takers) /\ Cardinality(Takers) <= Cardinality(Ops)
    <3>1. IsFiniteSet(Ops \ {o}) /\ Cardinality(Ops \ {o}) = Cardinality(Ops) - 1
      BY RowAssumption, FS_RemoveElement
    <3>. QED  BY <1>0, <3>1, FS_AddElement
  <2>6. IsFiniteSet(Window) /\ Cardinality(Window) > Cardinality(Ops)
    <3>1. PICK last \in Int : last = MaxTime + Cardinality(Ops)
      BY <1>0
    <3>2. now \in Int /\ ~(now > last) /\ last - now + 1 > Cardinality(Ops)
      BY <1>0, <3>1
    <3>3. IsFiniteSet(now .. last) /\ Cardinality(now .. last) = last - now + 1
      BY <3>2, FS_Interval
    <3>. QED  BY <3>1, <3>2, <3>3
  <2>7. Cardinality(Takers) < Cardinality(Window)
    <3>. HIDE DEF Window, Takers
    <3>. QED  BY <1>0, <2>5, <2>6, FS_CardinalityType
  <2>8. \E t, u \in Window : t # u /\ taker[t] = taker[u]
    <3>. HIDE DEF Window, Takers, taker
    <3>. QED  BY <2>4, <2>5, <2>6, <2>7, FS_PigeonHole
  <2>. QED  BY <2>4, <2>8
<1>. QED  BY <1>1, <1>2, Least

\* What a step of one operation leaves alone.
LEMMA Effects ==
  ASSUME Typed, NEW o \in Ops, OpStep(o)
  PROVE  /\ \A p \in Ops \ {o} : /\ pc'[p] = pc[p] /\ act'[p] = act[p] /\ id'[p] = id[p]
                                 /\ result'[p] = result[p] /\ base'[p] = base[p]
                                 /\ new'[p] = new[p] /\ key'[p] = key[p]
         /\ id[o] # 0 => id'[o] = id[o]
         /\ overlap \subseteq overlap' /\ cut \subseteq cut'
         /\ clock \in Nat /\ clock' \in Nat /\ clock <= clock'
<1>. Progress /\ TypeOK
  BY DEF Typed
<1>1. \A p \in Ops \ {o} : /\ pc'[p] = pc[p] /\ act'[p] = act[p] /\ id'[p] = id[p]
                           /\ result'[p] = result[p]
  BY Others
<1>2. \A p \in Ops \ {o} : base'[p] = base[p] /\ new'[p] = new[p] /\ key'[p] = key[p]
  BY DEF TypeOK, OpStep, Insert, UpsertCreates, UpsertUpdates, UpsertDoesNothing, UpsertRefused,
     CheckRowSet, ReadRow, Delete, Bind, CannotBind, Write, Reread, PickKey, Put, Notify, Undo,
     ClientLeaves, StatementFails, opVars
<1>3. id[o] # 0 => id'[o] = id[o]
  <2>1. CASE Insert(o) \/ UpsertUpdates(o)
    BY <2>1 DEF Typed, Bookkeeping, Insert, UpsertUpdates, At
  <2>2. CASE CheckRowSet(o)
    BY <2>2 DEF TypeOK, CheckRowSet, Begin
  <2>. QED
    BY <2>1, <2>2 DEF OpStep, UpsertCreates, UpsertDoesNothing, UpsertRefused, ReadRow, Delete,
       Bind, CannotBind, Write, Reread, PickKey, Put, Notify, Undo, ClientLeaves, StatementFails,
       opVars
<1>4. overlap \subseteq overlap' /\ cut \subseteq cut'
  BY DEF OpStep, Insert, UpsertCreates, UpsertUpdates, UpsertDoesNothing, UpsertRefused,
     CheckRowSet, ReadRow, Delete, Bind, CannotBind, Write, Reread, PickKey, Put, Notify, Undo,
     ClientLeaves, StatementFails, Begin, ghosts
<1>5. clock \in Nat /\ clock' \in Nat /\ clock <= clock'
  <2>1. MaxTime \in Nat /\ clock \in 0 .. MaxTime
    BY RowAssumption DEF TypeOK
  <2>2. UNCHANGED clock \/ clock' \in clock .. MaxTime
    BY DEF OpStep, Insert, UpsertCreates, UpsertUpdates, UpsertDoesNothing, UpsertRefused,
       CheckRowSet, ReadRow, Delete, Bind, CannotBind, Write, Reread, PickKey, Put, Notify, Undo,
       ClientLeaves, StatementFails, storeVars
  <2>. QED  BY <2>1, <2>2
<1>. QED  BY <1>1, <1>2, <1>3, <1>4, <1>5

LEMMA RowsTyped ==
  ASSUME Typed, NEW o \in Ops, OpStep(o)
  PROVE  /\ rows' \in [Ids -> Row \cup {NoRow}]
         /\ nextId' \in Ids \cup {Cardinality(Creators) + 2}
         /\ base' \in [Ops -> Row \cup {NoRow}] /\ new' \in [Ops -> Row \cup {NoRow}]
         /\ id' \in [Ops -> Ids \cup {0}]
<1>0. /\ rows \in [Ids -> Row \cup {NoRow}] /\ nextId \in Ids \cup {Cardinality(Creators) + 2}
      /\ base \in [Ops -> Row \cup {NoRow}] /\ new \in [Ops -> Row \cup {NoRow}]
      /\ id \in [Ops -> Ids \cup {0}]
  BY DEF Typed, TypeOK
<1>1. CASE Insert(o)
  <2>1. nextId \in Ids /\ nextId + 1 \in Ids \cup {Cardinality(Creators) + 2}
    BY <1>1, RoomForOne DEF Insert, At
  <2>2. [vals |-> Fresh(Patch[o]), calc |-> Null] \in Row
    BY Rows
  <2>. QED  BY <1>0, <1>1, <2>1, <2>2 DEF Insert, Begin
<1>2. CASE Write(o)
  <2>1. UNCHANGED rows \/ Written(o) \in Row
    <3>1. CASE act[o] = "create"
      BY <3>1, Rows DEF Written
    <3>2. CASE act[o] # "create" /\ base[o] \in Row
      BY <3>2, Rows DEF Written
    <3>. QED  BY <1>0, <1>2, <3>1, <3>2 DEF Typed, Bookkeeping, Write, At
  <2>. QED  BY <1>0, <1>2, <2>1 DEF Write, opVars
<1>3. CASE CheckRowSet(o) \/ UpsertUpdates(o)
  <2>1. \E i \in Ids : id' = [id EXCEPT ![o] = i]
    BY <1>0, <1>3, RowAssumption DEF CheckRowSet, UpsertUpdates, Matches, Begin
  <2>. QED  BY <1>0, <1>3, <2>1 DEF CheckRowSet, UpsertUpdates, storeVars
<1>4. CASE ReadRow(o) \/ Reread(o)
  <2>1. id[o] \in Ids
    BY <1>0, <1>4 DEF Typed, Progress, ReadRow, Reread, At
  <2>. QED  BY <1>0, <1>4, <2>1 DEF ReadRow, Reread, storeVars
<1>5. CASE Delete(o) \/ Undo(o)
  BY <1>0, <1>5 DEF Delete, Undo, opVars
<1>. QED
  BY <1>0, <1>1, <1>2, <1>3, <1>4, <1>5 DEF OpStep, UpsertCreates, UpsertDoesNothing,
     UpsertRefused, Bind, CannotBind, PickKey, Put, Notify, ClientLeaves, StatementFails,
     storeVars, opVars

\* What is written to the history store.
LEMMA HistoryTyped ==
  ASSUME Typed, NEW o \in Ops, OpStep(o)
  PROVE  /\ entries' \in SUBSET Entry /\ key' \in [Ops -> Times] /\ clock' \in 0 .. MaxTime
         /\ \A e \in entries' : e.op # Null => pc'[e.op] \in {"notify", "done"}
         /\ \A d, e \in entries' : d.op = e.op => d = e
<1>0. /\ entries \in SUBSET Entry /\ key \in [Ops -> Times] /\ clock \in 0 .. MaxTime
      /\ pc \in [Ops -> Labels] /\ id \in [Ops -> Ids \cup {0}]
      /\ \A e \in entries : e.op # Null => pc[e.op] \in {"notify", "done"}
      /\ \A d, e \in entries : d.op = e.op => d = e
      /\ MaxTime \in Nat
  BY RowAssumption DEF Typed, TypeOK, Progress, Bookkeeping
<1>1. CASE PickKey(o)
  <2>1. pc[o] = "record" /\ id[o] \in Ids /\ clock' \in 0 .. MaxTime
    BY <1>0, <1>1 DEF Typed, Progress, PickKey, At
  <2>2. Min(FreeTimes(id[o], clock')) \in Times
    BY <2>1, FreeKey DEF FreeTimes
  <2>3. /\ key' = [key EXCEPT ![o] = Min(FreeTimes(id[o], clock'))]
        /\ pc' = [pc EXCEPT ![o] = "put"] /\ UNCHANGED entries
    BY <1>1 DEF PickKey, Goto
  <2>. QED  BY <1>0, <2>1, <2>2, <2>3
<1>2. CASE Put(o)
  <2>1. /\ pc[o] = "put" /\ id[o] \in Ids /\ pc' = [pc EXCEPT ![o] = "notify"]
        /\ UNCHANGED <<key, clock>>
    BY <1>0, <1>2 DEF Typed, Progress, Put, At, Goto, opVars
  <2> DEFINE f == [rec |-> id[o], at |-> key[o], op |-> o, row |-> new[o]]
  <2>2. f \in Entry /\ f.op = o
    BY <1>0, <2>1 DEF Typed, TypeOK, Entry
  <2>3. entries' \subseteq entries \cup {f}
    BY <1>2 DEF Put
  <2>4. \A e \in entries : e.op # o /\ e.op \in Ops \cup {Null}
    BY <1>0, <2>1, RowAssumption DEF Entry
  <2>. HIDE DEF f
  <2>. QED  BY <1>0, <2>1, <2>2, <2>3, <2>4
<1>3. CASE ~PickKey(o) /\ ~Put(o)
  <2>1. UNCHANGED <<entries, key, clock>>
    BY <1>3 DEF OpStep, Insert, UpsertCreates, UpsertUpdates, UpsertDoesNothing, UpsertRefused,
       CheckRowSet, ReadRow, Delete, Bind, CannotBind, Write, Reread, Notify, Undo, ClientLeaves,
       StatementFails, storeVars, opVars
  <2>2. \A p \in Ops : pc[p] \in {"notify", "done"} => pc'[p] \in {"notify", "done"}
    <3>1. pc[o] \in {"notify", "done"} => pc'[o] \in {"notify", "done"}
      BY <1>0, <1>3 DEF OpStep, Insert, UpsertCreates, UpsertUpdates, UpsertDoesNothing,
         UpsertRefused, CheckRowSet, ReadRow, Delete, Bind, CannotBind, Write, Reread, Notify,
         Undo, ClientLeaves, StatementFails, At, Goto, Finish
    <3>. QED  BY <3>1, Effects
  <2>3. \A e \in entries : e.op \in Ops \cup {Null}
    BY <1>0 DEF Entry
  <2>. QED  BY <1>0, <2>1, <2>2, <2>3
<1>. QED  BY <1>1, <1>2, <1>3

\* What else an operation keeps of itself.
LEMMA OpTyped ==
  ASSUME Typed, NEW o \in Ops, OpStep(o)
  PROVE  /\ nextId' = Cardinality(Inserted') + 2
         /\ act'[o] \in {"create", "upsert"} => o \in Creators
         /\ act'[o] = "upsert" \/ (act'[o] = "create" /\ pc'[o] = "start") => id'[o] = 0
         /\ pc'[o] \in {"bind", "write", "reread"} => act'[o] \in {"create", "update"}
         /\ pc'[o] \in {"record", "put", "notify", "undo"} => act'[o] \in {"create", "update", "delete"}
         /\ act'[o] = "delete" => new'[o] = NoRow
         /\ pc'[o] \in {"bind", "write"} /\ act'[o] # "create" => base'[o] # NoRow
<1>0. /\ pc \in [Ops -> Labels] /\ act \in [Ops -> {"create", "update", "delete", "upsert", "noop"}]
      /\ id \in [Ops -> Nat] /\ base \in [Ops -> Row \cup {NoRow}] /\ new \in [Ops -> Row \cup {NoRow}]
      /\ pc[o] = "read" => act[o] \in {"update", "delete"}
      /\ pc[o] = "delete" => act[o] = "delete"
      /\ nextId \in Nat /\ nextId > 0
  BY DEF Typed, TypeOK, Progress
<1>1. CASE Insert(o)
  <2>1. o \in Creators /\ o \notin Inserted /\ IsFiniteSet(Inserted)
    <3>1. Inserted \subseteq Creators
      BY DEF Inserted
    <3>. QED  BY <1>1, <3>1, Counts, FS_Subset DEF Typed, Bookkeeping, Insert, At, Inserted
  <2>2. Inserted' = Inserted \cup {o}
    BY <1>0, <1>1, <2>1 DEF Insert, Begin, Inserted, At
  <2>3. Cardinality(Inserted') = Cardinality(Inserted) + 1 /\ Cardinality(Inserted) \in Nat
    BY <2>1, <2>2, FS_AddElement, FS_CardinalityType
  <2>4. nextId' = Cardinality(Inserted') + 2
    BY <1>1, <2>3 DEF Typed, Bookkeeping, Insert
  <2>. QED  BY <1>0, <1>1, <2>1, <2>4 DEF Typed, Bookkeeping, Insert, At, Begin, Goto
<1>2. CASE ~Insert(o)
  <2>1. UNCHANGED nextId
    BY <1>2 DEF OpStep, UpsertCreates, UpsertUpdates, UpsertDoesNothing, UpsertRefused,
       CheckRowSet, ReadRow, Delete, Bind, CannotBind, Write, Reread, PickKey, Put, Notify, Undo,
       ClientLeaves, StatementFails, storeVars
  <2>2. (act'[o] = "create" /\ id'[o] # 0) <=> (act[o] = "create" /\ id[o] # 0)
    BY <1>0, <1>2 DEF Typed, Bookkeeping, OpStep, UpsertCreates, UpsertUpdates, UpsertDoesNothing,
       UpsertRefused, CheckRowSet, ReadRow, Delete, Bind, CannotBind, Write, Reread, PickKey, Put,
       Notify, Undo, ClientLeaves, StatementFails, At, Begin, opVars
  <2>3. Inserted' = Inserted
    <3>1. \A p \in Ops : (act'[p] = "create" /\ id'[p] # 0) <=> (act[p] = "create" /\ id[p] # 0)
      BY <2>2, Effects
    <3>. QED  BY <3>1 DEF Inserted, Creators
  <2>4. nextId' = Cardinality(Inserted') + 2
    BY <2>1, <2>3 DEF Typed, Bookkeeping
  <2>5. CASE UpsertCreates(o) \/ UpsertUpdates(o) \/ UpsertDoesNothing(o) \/ UpsertRefused(o)
             \/ CheckRowSet(o)
    BY <1>0, <2>4, <2>5 DEF Typed, Bookkeeping, UpsertCreates, UpsertUpdates, UpsertDoesNothing,
       UpsertRefused, CheckRowSet, At, Begin, Goto, Finish
  <2>6. CASE ReadRow(o) \/ Delete(o)
    BY <1>0, <2>4, <2>6 DEF Typed, Bookkeeping, ReadRow, Delete, At, Goto, Finish, opVars
  <2>7. CASE Bind(o) \/ CannotBind(o) \/ Write(o) \/ Reread(o)
    BY <1>0, <2>4, <2>7 DEF Typed, Bookkeeping, Bind, CannotBind, Write, Reread, At, GiveUp, Goto,
       Finish, opVars
  <2>8. CASE PickKey(o) \/ Put(o) \/ Notify(o) \/ Undo(o) \/ ClientLeaves(o)
    BY <1>0, <2>4, <2>8 DEF Typed, Bookkeeping, PickKey, Put, Notify, Undo, ClientLeaves, At, Goto,
       Finish, opVars
  <2>9. CASE StatementFails(o)
    BY <1>0, <2>4, <2>9 DEF Typed, Bookkeeping, Labels, StatementFails, GiveUp, Goto, Finish, opVars
  <2>. QED  BY <1>2, <2>5, <2>6, <2>7, <2>8, <2>9 DEF OpStep
<1>. QED  BY <1>1, <1>2

LEMMA NextTyped == Typed /\ [Next]_vars => Typed'
<1> SUFFICES ASSUME Typed, [Next]_vars PROVE Typed'
  OBVIOUS
<1>1. CASE UNCHANGED vars
  BY <1>1 DEF vars, storeVars, opVars, ghosts, Typed, TypeOK, Progress, Bookkeeping, Inserted
<1>2. ASSUME NEW o \in Ops, OpStep(o) PROVE Typed'
  <2>1. Progress'
    BY <1>2, NextProgress DEF Typed, Next
  <2>2. Bookkeeping'
    BY <1>2, Effects, HistoryTyped, OpTyped DEF Typed, Bookkeeping
  <2>3. TypeOK'
    <3>1. /\ bound' \in [Files -> Ids \cup {0}]
          /\ told' \in SUBSET Ops /\ gone' \in SUBSET Ops
          /\ faults' \in 0 .. MaxFaults /\ raced' \in BOOLEAN
          /\ overlap' \in SUBSET Ids /\ cut' \in SUBSET Ids
      <4>0. /\ bound \in [Files -> Ids \cup {0}]
            /\ told \in SUBSET Ops /\ gone \in SUBSET Ops
            /\ faults \in 0 .. MaxFaults /\ raced \in BOOLEAN
            /\ overlap \in SUBSET Ids /\ cut \in SUBSET Ids
            /\ id[o] \in Ids \cup {0} /\ id'[o] \in Ids \cup {0}
            /\ MaxFaults \in Nat
        BY <1>2, RowsTyped, RowAssumption DEF Typed, TypeOK
      <4>1. bound' \in [Files -> Ids \cup {0}] /\ told' \in SUBSET Ops
        BY <1>2, <4>0 DEF OpStep, Insert, UpsertCreates, UpsertUpdates, UpsertDoesNothing,
           UpsertRefused, CheckRowSet, ReadRow, Delete, Bind, CannotBind, Write, Reread, PickKey,
           Put, Notify, Undo, ClientLeaves, StatementFails, storeVars
      <4>2. gone' \in SUBSET Ops /\ raced' \in BOOLEAN
        BY <1>2, <4>0 DEF OpStep, Insert, UpsertCreates, UpsertUpdates, UpsertDoesNothing,
           UpsertRefused, CheckRowSet, ReadRow, Delete, Bind, CannotBind, Write, Reread, PickKey,
           Put, Notify, Undo, ClientLeaves, StatementFails, ghosts
      <4>3. faults' \in 0 .. MaxFaults
        BY <1>2, <4>0 DEF OpStep, Insert, UpsertCreates, UpsertUpdates, UpsertDoesNothing,
           UpsertRefused, CheckRowSet, ReadRow, Delete, Bind, CannotBind, Write, Reread, PickKey,
           Put, Notify, Undo, ClientLeaves, StatementFails
      <4>4. overlap' \in SUBSET Ids
        <5>1. \/ UNCHANGED overlap
              \/ \E i \in Ids : Begin(o, i)
          BY <1>2, <4>0, RowAssumption, RoomForOne DEF Typed, TypeOK, OpStep, Insert,
             UpsertCreates, UpsertUpdates, UpsertDoesNothing, UpsertRefused, CheckRowSet, ReadRow,
             Delete, Bind, CannotBind, Write, Reread, PickKey, Put, Notify, Undo, ClientLeaves,
             StatementFails, ghosts, Matches, At
        <5>. QED  BY <4>0, <5>1 DEF Begin
      <4>5. cut' \in SUBSET Ids
        <5>1. \/ UNCHANGED cut
              \/ cut' = cut \cup {id[o]} /\ pc[o] \in {"reread", "undo"}
          BY <1>2 DEF OpStep, Insert, UpsertCreates, UpsertUpdates, UpsertDoesNothing,
             UpsertRefused, CheckRowSet, ReadRow, Delete, Bind, CannotBind, Write, Reread, PickKey,
             Put, Notify, Undo, ClientLeaves, StatementFails, ghosts
        <5>. QED  BY <4>0, <5>1 DEF Typed, Progress
      <4>. QED  BY <4>1, <4>2, <4>3, <4>4, <4>5
    <3>2. /\ pc' \in [Ops -> Labels]
          /\ act' \in [Ops -> {"create", "update", "delete", "upsert", "noop"}]
          /\ result' \in [Ops -> {"none", "ok", "failed"}]
      BY <2>1 DEF Progress
    <3>. QED  BY <1>2, <3>1, <3>2, RowsTyped, HistoryTyped DEF TypeOK, Labels
  <2>. QED  BY <2>1, <2>2, <2>3 DEF Typed
<1>. QED  BY <1>1, <1>2 DEF Next

LEMMA TypedInvariant == Spec => []Typed
  BY InitTyped, NextTyped, PTL DEF Spec

\* Every reachable state is type correct: there is always a free history key
\* within the bound, and never more records than operations that make them.
THEOREM TypeCorrect == Spec => []TypeOK
<1>1. Typed => TypeOK
  BY DEF Typed
<1>. QED  BY <1>1, TypedInvariant, PTL

-----------------------------------------------------------------------------
(* Records and their history.                                              *)

\* Nobody has worked on a record that was not made yet.
Unborn ==
  \A i \in Ids : i >= nextId =>
    /\ rows[i] = NoRow /\ History(i) = {}
    /\ \A o \in Ops : id[o] = i => pc[o] = "done" /\ result[o] = "failed"

\* Two operations under way on one record are remembered.
Alone ==
  \A i \in Ids \ overlap, o, p \in Ops : UnderWay(o, i) /\ UnderWay(p, i) => o = p

Clean(i) == i \notin overlap \cup cut

Sound(row) == row # NoRow => row.calc = row.vals

\* The operations that have an entry, if all is well.
Credited(i) == {o \in Ops : id[o] = i /\ (result[o] = "ok" \/ pc[o] = "notify")}

HasAt(i, t) == \E e \in History(i) : e.at = t

\* What an undoing puts back.
Former(o) == IF act[o] = "create" THEN NoRow ELSE base[o]

\* The row at each statement of an operation that is alone with it: as recorded
\* until it is written, sound and known from then on.
Working(o, i) ==
  /\ pc[o] \in {"start", "read"} => rows[i] = Recorded(i)
  /\ pc[o] \in {"delete", "bind", "write"} /\ act[o] # "create" => rows[i] = base[o]
  /\ pc[o] \in {"delete", "bind", "write", "reread", "record", "put", "undo"} => Recorded(i) = Former(o)
  /\ pc[o] \in {"bind", "write", "reread"} => rows[i] # NoRow
  /\ pc[o] \in {"reread", "record", "put", "notify"} => Sound(rows[i])
  /\ pc[o] \in {"record", "put", "notify"} => rows[i] = new[o]
  /\ pc[o] = "notify" => rows[i] = Recorded(i)
  /\ pc[o] = "put" => /\ \A e \in History(i) : e.at < key[o]
                      /\ \A t \in Nat : clock <= t /\ t < key[o] => HasAt(i, t)

\* History keys are taken without gaps from the present time on, so that the
\* first free one is later than all others of the record.
Gapless(i) ==
  \A e \in History(i) : \A t \in Nat : clock <= t /\ t <= e.at => HasAt(i, t)

RecordInv(i) ==
  Clean(i) =>
    /\ {e.op : e \in History(i)} \ {Null} = Credited(i)
    /\ Gapless(i)
    /\ Sound(Recorded(i))
    /\ Quiet(i) => rows[i] = Recorded(i)
    /\ \A o \in Ops : UnderWay(o, i) => Working(o, i)

HistoryInv == Unborn /\ Alone /\ \A i \in Ids : RecordInv(i)

\* An entry that is later than all others is the latest.
LEMMA Latest ==
  ASSUME NEW H, \A d \in H : d.at \in Nat, NEW e \in H, \A d \in H : d = e \/ d.at < e.at
  PROVE  (CHOOSE f \in H : \A d \in H : d.at <= f.at) = e
<1> DEFINE Top(f) == \A d \in H : d.at <= f.at
<1>1. Top(e) /\ \A f \in H : Top(f) => f = e
  OBVIOUS
<1>2. (CHOOSE f \in H : Top(f)) = e
  <2>. HIDE DEF Top
  <2>. QED  BY <1>1
<1>. QED  BY <1>2

LEMMA InitHistory == Init => HistoryInv
<1> SUFFICES ASSUME Init PROVE HistoryInv
  OBVIOUS
<1>0. Typed
  BY InitTyped
<1>1. Unborn
  BY Counts DEF Init, Unborn, History
<1>2. Alone
  BY Counts DEF Init, Alone, UnderWay
<1>3. ASSUME NEW i \in Ids PROVE RecordInv(i)
  <2>1. Quiet(i) /\ Credited(i) = {} /\ \A o \in Ops : ~UnderWay(o, i)
    BY Counts DEF Init, Quiet, Credited, UnderWay
  <2>2. CASE i = 1
    <3> DEFINE e == [rec |-> 1, at |-> 0, op |-> Null, row |-> Calculated(FirstRow)]
    <3>1. History(i) = {e}
      BY <2>2 DEF Init, History
    <3>2. Recorded(i) = Calculated(FirstRow)
      <4>1. /\ e \in History(i) /\ e.row = Calculated(FirstRow)
            /\ \A d \in History(i) : d = e /\ d.at \in Nat
        BY <3>1
      <4>. HIDE DEF e
      <4>. QED  BY <4>1, Latest DEF Recorded
    <3>3. Gapless(i)
      BY <3>1 DEF Init, Gapless, HasAt
    <3>4. {d.op : d \in History(i)} \ {Null} = {}
      BY <3>1
    <3>. QED  BY <2>1, <2>2, <3>2, <3>3, <3>4 DEF Init, RecordInv, Sound, Calculated
  <2>3. CASE i # 1
    <3>1. History(i) = {}
      BY <2>3 DEF Init, History
    <3>2. Recorded(i) = NoRow
      BY <3>1 DEF Recorded
    <3>. QED  BY <2>1, <2>3, <3>1, <3>2 DEF Init, RecordInv, Sound, Gapless
  <2>. QED  BY <2>2, <2>3
<1>. QED  BY <1>1, <1>2, <1>3 DEF HistoryInv

\* Only Put adds to a history, and only to that of its record.
LEMMA HistoryKept ==
  ASSUME Typed, NEW o \in Ops, OpStep(o), NEW i \in Ids, ~Put(o) \/ id[o] # i
  PROVE  History(i)' = History(i) /\ Recorded(i)' = Recorded(i)
<1>1. History(i)' = History(i)
  <2>1. CASE Put(o)
    <3>1. id[o] # i
      BY <2>1
    <3>. QED  BY <2>1, <3>1 DEF Put, History
  <2>2. CASE ~Put(o)
    <3>1. UNCHANGED entries
      BY <2>2 DEF OpStep, Insert, UpsertCreates, UpsertUpdates, UpsertDoesNothing, UpsertRefused,
         CheckRowSet, ReadRow, Delete, Bind, CannotBind, Write, Reread, PickKey, Notify, Undo,
         ClientLeaves, StatementFails, storeVars
    <3>. QED  BY <3>1 DEF History
  <2>. QED  BY <2>1, <2>2
<1>. QED  BY <1>1 DEF Recorded

\* Rows are changed by the operation of their record only.
LEMMA RowsKept ==
  ASSUME Typed, NEW o \in Ops, OpStep(o), NEW i \in Ids, id[o] # i, id'[o] # i
  PROVE  rows'[i] = rows[i]
<1>1. rows \in [Ids -> Row \cup {NoRow}] /\ id \in [Ops -> Nat] /\ nextId \in Nat
  BY DEF Typed, TypeOK, Progress
<1>. QED
  BY <1>1 DEF OpStep, Insert, UpsertCreates, UpsertUpdates, UpsertDoesNothing, UpsertRefused,
     CheckRowSet, ReadRow, Delete, Bind, CannotBind, Write, Reread, PickKey, Put, Notify, Undo,
     ClientLeaves, StatementFails, Begin, storeVars

\* An operation gains credit when it puts its entry.
LEMMA CreditKept ==
  ASSUME Typed, NEW o \in Ops, OpStep(o), NEW i \in Ids, ~Put(o) \/ id[o] # i
  PROVE  Credited(i)' = Credited(i)
<1>0. /\ pc \in [Ops -> Labels] /\ id \in [Ops -> Nat] /\ result \in [Ops -> {"none", "ok", "failed"}]
      /\ i # 0 /\ id[o] \in Nat /\ result[o] \in {"none", "ok", "failed"}
      /\ pc[o] # "done" => result[o] = "none"
      /\ pc[o] \in {"start", "read", "bind", "write", "reread", "delete",
                   "record", "put", "notify", "undo", "done"}
  BY Counts DEF Typed, Progress, Labels
<1>1. (id'[o] = i /\ (result'[o] = "ok" \/ pc'[o] = "notify"))
        <=> (id[o] = i /\ (result[o] = "ok" \/ pc[o] = "notify"))
  <2>1. CASE Insert(o) \/ UpsertCreates(o) \/ UpsertUpdates(o) \/ UpsertDoesNothing(o)
             \/ UpsertRefused(o) \/ CheckRowSet(o)
    BY <1>0, <2>1 DEF Typed, Bookkeeping, Insert, UpsertCreates, UpsertUpdates, UpsertDoesNothing,
       UpsertRefused, CheckRowSet, At, Begin, Goto, Finish
  <2>2. CASE ReadRow(o) \/ Delete(o) \/ Bind(o) \/ CannotBind(o) \/ Write(o) \/ Reread(o)
    BY <1>0, <2>2 DEF ReadRow, Delete, Bind, CannotBind, Write, Reread, At, GiveUp, Goto, Finish, opVars
  <2>3. CASE PickKey(o) \/ Put(o) \/ Notify(o) \/ Undo(o) \/ ClientLeaves(o)
    BY <1>0, <2>3 DEF PickKey, Put, Notify, Undo, ClientLeaves, At, Goto, Finish, opVars
  <2>4. CASE StatementFails(o)
    BY <1>0, <2>4 DEF StatementFails, GiveUp, Goto, Finish, opVars
  <2>. QED  BY <2>1, <2>2, <2>3, <2>4 DEF OpStep
<1>. QED  BY <1>1, Effects DEF Credited

\* A record that the operation does not work on stays as it is.
LEMMA OtherRecord ==
  ASSUME Typed, NEW o \in Ops, OpStep(o), NEW i \in Ids, id[o] # i, id'[o] # i, RecordInv(i)
  PROVE  RecordInv(i)'
<1> SUFFICES ASSUME Clean(i)' PROVE RecordInv(i)'
  BY DEF RecordInv
<1>1. Clean(i)
  BY Effects DEF Clean
<1>2. /\ History(i)' = History(i) /\ Recorded(i)' = Recorded(i)
      /\ rows'[i] = rows[i] /\ Credited(i)' = Credited(i)
  BY HistoryKept, RowsKept, CreditKept
<1>3. \A p \in Ops : UnderWay(p, i)' <=> UnderWay(p, i)
  BY Effects DEF UnderWay
<1>4. Gapless(i)'
  BY <1>1, <1>2, Effects DEF RecordInv, Gapless, HasAt
<1>5. Quiet(i)' => Quiet(i)
  BY <1>3 DEF Quiet
<1>6. ASSUME NEW p \in Ops, UnderWay(p, i) PROVE Working(p, i)'
  <2>1. p # o
    BY <1>6 DEF UnderWay
  <2>2. /\ pc'[p] = pc[p] /\ act'[p] = act[p] /\ base'[p] = base[p]
        /\ new'[p] = new[p] /\ key'[p] = key[p]
    BY <2>1, Effects
  <2>3. Working(p, i)
    BY <1>1, <1>6 DEF RecordInv
  <2>. QED  BY <1>2, <2>2, <2>3, Effects DEF Working, Former, HasAt
<1>. QED  BY <1>1, <1>2, <1>3, <1>4, <1>5, <1>6 DEF RecordInv

\* The operation's own record, when the step is not the put of its entry.
LEMMA OwnRow ==
  ASSUME Typed, HistoryInv, NEW o \in Ops, OpStep(o), ~Put(o),
         NEW i \in Ids, id'[o] = i, Clean(i)'
  PROVE  /\ pc'[o] = "done" => rows'[i] = Recorded(i)
         /\ pc'[o] # "done" => Working(o, i)'
<1>0. /\ pc \in [Ops -> Labels] /\ act \in [Ops -> {"create", "update", "delete", "upsert", "noop"}]
      /\ id \in [Ops -> Nat] /\ rows \in [Ids -> Row \cup {NoRow}]
      /\ base \in [Ops -> Row \cup {NoRow}] /\ new \in [Ops -> Row \cup {NoRow}]
      /\ key \in [Ops -> Times]
      /\ i # 0
  BY Counts DEF Typed, TypeOK, Progress
<1>1. Clean(i) /\ i \notin overlap' /\ i \notin cut'
  BY Effects DEF Clean
<1>2. Sound(Recorded(i)) /\ Gapless(i)
  BY <1>1 DEF HistoryInv, RecordInv
<1>3. History(i)' = History(i) /\ Recorded(i)' = Recorded(i)
  BY HistoryKept
<1>4. ASSUME id[o] = 0 PROVE rows[i] = Recorded(i) \/ Insert(o)
  <2>1. CASE CheckRowSet(o) \/ UpsertUpdates(o)
    <3>1. Begin(o, i)
      BY <1>0, <1>4, <2>1 DEF CheckRowSet, UpsertUpdates, Begin
    <3>2. \A p \in Ops \ {o} : ~UnderWay(p, i)
      BY <1>1, <3>1 DEF Begin
    <3>3. Quiet(i)
      BY <1>0, <1>4, <3>2 DEF Quiet, UnderWay
    <3>. QED  BY <1>1, <3>3 DEF HistoryInv, RecordInv
  <2>2. CASE ~CheckRowSet(o) /\ ~UpsertUpdates(o) /\ ~Insert(o)
    <3>1. UNCHANGED id
      BY <2>2 DEF OpStep, UpsertCreates, UpsertDoesNothing, UpsertRefused, ReadRow, Delete, Bind,
         CannotBind, Write, Reread, PickKey, Put, Notify, Undo, ClientLeaves, StatementFails,
         opVars
    <3>. QED  BY <1>0, <1>4, <3>1
  <2>. QED  BY <2>1, <2>2
<1>5. CASE Insert(o)
  <2>1. id[o] = 0 /\ act[o] = "create" /\ pc[o] = "start"
    BY <1>5 DEF Typed, Bookkeeping, Insert, At
  <2>2. nextId \in Ids /\ nextId = i
    BY <1>0, <1>5, <2>1, RoomForOne DEF Insert, Begin
  <2>3. History(i) = {} /\ Recorded(i) = NoRow
    <3>1. i >= nextId
      BY <2>2, Counts
    <3>2. History(i) = {}
      BY <3>1 DEF HistoryInv, Unborn
    <3>. QED  BY <3>2 DEF Recorded
  <2>4. rows'[i] # NoRow
    BY <1>0, <1>5, <2>2, Rows DEF Insert
  <2>5. pc'[o] = "bind" /\ act'[o] = "create"
    BY <1>0, <1>5, <2>1 DEF Insert, Goto
  <2>. QED  BY <1>3, <2>3, <2>4, <2>5 DEF Working, Former
<1>6. CASE UpsertUpdates(o)
  <2>1. rows[i] = Recorded(i)
    BY <1>4, <1>6 DEF Typed, Bookkeeping, UpsertUpdates, Insert, At
  <2>2. pc'[o] = "start" /\ UNCHANGED rows
    BY <1>6 DEF UpsertUpdates, At, storeVars
  <2>. QED  BY <1>3, <2>1, <2>2 DEF Working
<1>7. CASE CheckRowSet(o)
  <2>1. rows[i] = Recorded(i)
    <3>1. CASE id[o] = 0
      BY <1>4, <1>7, <3>1 DEF CheckRowSet, Insert, At
    <3>2. CASE id[o] = i
      <4>1. UnderWay(o, i) /\ pc[o] = "start"
        BY <1>7, <3>2 DEF CheckRowSet, At, UnderWay
      <4>. QED  BY <1>1, <4>1 DEF HistoryInv, RecordInv, Working
    <3>. QED  BY <1>0, <3>1, <3>2, Effects
  <2>2. pc'[o] \in {"read", "done"} /\ UNCHANGED rows
    BY <1>0, <1>7 DEF CheckRowSet, Goto, Finish, storeVars
  <2>. QED  BY <1>3, <2>1, <2>2 DEF Working
<1>8. CASE ~Insert(o) /\ ~UpsertUpdates(o) /\ ~CheckRowSet(o)
  <2>1. UNCHANGED id
    BY <1>8 DEF OpStep, UpsertCreates, UpsertDoesNothing, UpsertRefused, ReadRow, Delete, Bind,
       CannotBind, Write, Reread, PickKey, Put, Notify, Undo, ClientLeaves, StatementFails, opVars
  <2>2. id[o] = i
    BY <2>1
  <2>3. ~UpsertCreates(o) /\ ~UpsertDoesNothing(o) /\ ~UpsertRefused(o)
    BY <1>0, <2>2 DEF Typed, Bookkeeping, UpsertCreates, UpsertDoesNothing, UpsertRefused, At
  <2>4. CASE pc[o] = "done"
    BY <2>3, <2>4, <1>8 DEF OpStep, ReadRow, Delete, Bind, CannotBind, Write, Reread, PickKey, Put,
       Notify,
       Undo, ClientLeaves, StatementFails, At
  <2>5. CASE pc[o] # "done"
    <3>1. Working(o, i)
      BY <1>1, <2>2, <2>5 DEF HistoryInv, RecordInv, UnderWay
    <3>0. /\ pc[o] \in Labels
          /\ pc[o] = "read" => act[o] \in {"update", "delete"}
          /\ pc[o] = "delete" => act[o] = "delete"
          /\ pc[o] \in {"bind", "write", "reread"} => act[o] \in {"create", "update"}
          /\ act[o] = "delete" => new[o] = NoRow
      BY <1>0 DEF Typed, Progress, Bookkeeping
    <3>2. CASE ReadRow(o)
      BY <1>0, <1>3, <2>2, <3>0, <3>1, <3>2 DEF ReadRow, At, Goto, Finish, storeVars, Working, Former
    <3>3. CASE Delete(o)
      BY <1>0, <1>3, <2>2, <3>0, <3>1, <3>3 DEF Delete, At, Goto, opVars, Working, Former, Sound
    <3>4. CASE Bind(o)
      BY <1>0, <1>3, <2>2, <3>0, <3>1, <3>4 DEF Bind, At, Goto, opVars, Working, Former
    <3>5. CASE CannotBind(o)
      BY <1>0, <1>3, <2>2, <3>0, <3>1, <3>5 DEF CannotBind, GiveUp, At, Goto, Finish, opVars, storeVars,
         Working, Former
    <3>6. CASE Write(o)
      <4>1. Written(o) # NoRow /\ Sound(Written(o))
        <5>1. PICK v \in Vals : Written(o) = Calculated(v)
          BY <1>0, <3>6, Rows DEF Typed, Bookkeeping, Write, At, Written
        <5>2. Calculated(v) # NoRow
          BY Rows
        <5>3. Calculated(v).calc = Calculated(v).vals
          BY DEF Calculated
        <5>. QED  BY <5>1, <5>2, <5>3 DEF Sound
      <4>2. /\ rows' = [rows EXCEPT ![i] = Written(o)] /\ pc' = [pc EXCEPT ![o] = "reread"]
            /\ UNCHANGED <<act, base>> /\ pc[o] = "write"
        BY <2>2, <3>1, <3>6 DEF Write, At, Goto, opVars, Working
      <4>. QED  BY <1>0, <1>3, <3>1, <4>1, <4>2 DEF Working, Former
    <3>7. CASE Reread(o)
      BY <1>0, <1>3, <2>2, <3>0, <3>1, <3>7 DEF Reread, At, Goto, storeVars, Working, Former
    <3>8. CASE PickKey(o)
      <4> DEFINE free == FreeTimes(i, clock')
      <4>1. /\ pc[o] = "record" /\ pc' = [pc EXCEPT ![o] = "put"]
            /\ key' = [key EXCEPT ![o] = Min(free)]
            /\ UNCHANGED <<rows, act, base, new>>
        BY <2>2, <3>8 DEF PickKey, At, Goto
      <4>2. clock \in Nat /\ clock' \in Nat /\ clock <= clock' /\ clock' \in 0 .. MaxTime
        BY Effects, HistoryTyped
      <4>3. Min(free) \in free /\ \A t \in free : Min(free) <= t
        BY <4>1, <4>2, FreeKey
      <4>4. PICK k \in Nat : k = Min(free)
        <5>1. free \subseteq Times /\ Times \subseteq Nat
          BY RowAssumption, Counts DEF FreeTimes, Times
        <5>. HIDE DEF free
        <5>. QED  BY <4>3, <5>1
      <4>5. clock' <= k /\ ~HasAt(i, k)
        BY <4>3, <4>4 DEF FreeTimes, HasAt, History
      <4>6. ASSUME NEW t \in Nat, clock' <= t, t < k PROVE HasAt(i, t)
        <5>1. t \in Times
          <6>1. k \in Times /\ MaxTime + Cardinality(Ops) \in Nat
            BY <4>3, <4>4, RowAssumption, Counts DEF FreeTimes
          <6>. QED  BY <4>6, <6>1 DEF Times
        <5>2. t \notin free
          BY <4>3, <4>4, <4>6
        <5>. QED  BY <4>6, <5>1, <5>2 DEF FreeTimes, HasAt, History
      <4>7. ASSUME NEW e \in History(i) PROVE e.at < k
        <5>1. e.at \in Nat
          BY RowAssumption, Counts DEF Typed, TypeOK, History, Entry, Times
        <5>2. k <= e.at => HasAt(i, k)
          BY <1>2, <4>2, <4>5 DEF Gapless
        <5>. QED  BY <4>5, <5>1, <5>2
      <4>8. pc'[o] = "put" /\ key'[o] = k
        BY <1>0, <4>1, <4>4
      <4>. HIDE DEF free
      <4>. QED  BY <1>3, <3>1, <4>1, <4>6, <4>7, <4>8 DEF Working, Former, HasAt
    <3>9. CASE Notify(o)
      BY <1>0, <1>3, <2>2, <3>0, <3>1, <3>9 DEF Notify, Goto, Finish, Working
    <3>10. CASE Undo(o)
      BY <1>0, <1>3, <2>2, <3>0, <3>1, <3>10 DEF Undo, At, Finish, Goto, Working, Former
    <3>11. CASE ClientLeaves(o)
      BY <1>0, <1>3, <2>2, <3>0, <3>1, <3>11 DEF ClientLeaves, opVars, storeVars, Working, Former, HasAt
    <3>12. CASE StatementFails(o)
      BY <1>0, <1>1, <1>3, <2>2, <3>0, <3>1, <3>12 DEF StatementFails, GiveUp, Goto, Finish,
         opVars, storeVars,
         Working, Former, Labels
    <3>. QED
      BY <1>8, <2>3, <3>2, <3>3, <3>4, <3>5, <3>6, <3>7, <3>8, <3>9, <3>10, <3>11, <3>12 DEF OpStep
  <2>. QED  BY <2>4, <2>5
<1>. QED  BY <1>5, <1>6, <1>7, <1>8

\* The put of its entry, the latest of its record.
LEMMA PutRecord ==
  ASSUME Typed, HistoryInv, NEW o \in Ops, Put(o), NEW i \in Ids, id[o] = i, Clean(i)'
  PROVE  RecordInv(i)'
<1>0. OpStep(o)
  BY DEF OpStep
<1>1. /\ pc[o] = "put" /\ pc' = [pc EXCEPT ![o] = "notify"] /\ pc' \in [Ops -> Labels]
      /\ UNCHANGED <<rows, clock, act, id, base, new, key, result, overlap, cut>>
  BY NextProgress DEF Typed, Progress, Put, At, Goto, opVars, ghosts, Labels
<1>2. Clean(i) /\ UnderWay(o, i)
  BY <1>1 DEF Clean, UnderWay
<1>3. RecordInv(i) /\ Working(o, i)
  BY <1>2 DEF HistoryInv, RecordInv
<1> DEFINE f == [rec |-> i, at |-> key[o], op |-> o, row |-> new[o]]
<1>4. /\ f \in Entry /\ f.op = o /\ f.at = key[o] /\ f.row = new[o] /\ f.rec = i
      /\ key[o] \in Nat /\ clock \in Nat /\ o # Null
  <2>1. key[o] \in Times /\ new[o] \in Row \cup {NoRow}
    BY DEF Typed, TypeOK
  <2>2. key[o] \in Nat
    BY <2>1, RowAssumption, Counts DEF Times
  <2>. QED  BY <2>1, <2>2, Effects, <1>0, RowAssumption DEF Entry
<1>5. History(i)' = History(i) \cup {f}
  <2>1. \A e \in History(i) : e.at \in Nat /\ e.at < key[o]
    BY <1>1, <1>3, RowAssumption, Counts DEF Working, Typed, TypeOK, History, Entry, Times
  <2>2. entries' = {e \in entries : ~(e.rec = i /\ e.at = key[o])} \cup {f}
    BY DEF Put
  <2>3. {e \in entries : ~(e.rec = i /\ e.at = key[o])} = entries
    BY <1>4, <2>1 DEF History
  <2>. HIDE DEF f
  <2>. QED  BY <1>4, <2>2, <2>3 DEF History
<1>6. Recorded(i)' = new[o]
  <2>1. \A d \in History(i) : d.at \in Nat
    BY RowAssumption, Counts DEF Typed, TypeOK, History, Entry, Times
  <2>2. \A d \in History(i) : d.at < key[o]
    BY <1>1, <1>3 DEF Working
  <2>3. Recorded(i)' = f.row
    <3>. HIDE DEF f
    <3>1. f \in History(i)' /\ \A d \in History(i)' : d.at \in Nat /\ (d = f \/ d.at < f.at)
      BY <1>4, <1>5, <2>1, <2>2
    <3>. QED  BY <3>1, Latest DEF Recorded
  <2>. QED  BY <1>4, <2>3
<1>7. {e.op : e \in History(i)'} \ {Null} = Credited(i)'
  <2>1. {e.op : e \in History(i)'} \ {Null} = ({e.op : e \in History(i)} \ {Null}) \cup {o}
    <3>. HIDE DEF f
    <3>. QED  BY <1>4, <1>5
  <2>2. Credited(i)' = Credited(i) \cup {o}
    BY <1>1 DEF Credited
  <2>. QED  BY <1>2, <1>3, <2>1, <2>2 DEF RecordInv
<1>8. Gapless(i)'
  <2>1. \A t : HasAt(i, t) => HasAt(i, t)'
    BY <1>5 DEF HasAt
  <2>2. HasAt(i, key[o])'
    <3>. HIDE DEF f
    <3>. QED  BY <1>1, <1>4, <1>5 DEF HasAt
  <2>3. ASSUME NEW t \in Nat, clock <= t, t <= key[o] PROVE HasAt(i, t)'
    <3>1. t = key[o] \/ HasAt(i, t)
      BY <1>1, <1>3, <1>4, <2>3 DEF Working
    <3>2. CASE t = key[o]
      BY <1>1, <2>2, <3>2 DEF HasAt
    <3>3. CASE HasAt(i, t)
      BY <2>1, <3>3
    <3>. QED  BY <3>1, <3>2, <3>3
  <2>4. \A e \in History(i), t \in Nat : clock <= t /\ t <= e.at => HasAt(i, t)'
    BY <1>2, <1>3, <2>1 DEF RecordInv, Gapless
  <2>. QED  BY <1>1, <1>4, <1>5, <2>3, <2>4 DEF Gapless
<1>9. Working(o, i)' /\ Sound(Recorded(i)')
  BY <1>1, <1>3, <1>6 DEF Working
<1>10. ASSUME NEW p \in Ops, UnderWay(p, i)' PROVE p = o
  BY <1>1, <1>2, <1>10 DEF HistoryInv, Alone, Clean, UnderWay
<1>11. ~Quiet(i)'
  BY <1>1 DEF Quiet, UnderWay, Labels
<1>. QED  BY <1>7, <1>8, <1>9, <1>10, <1>11 DEF RecordInv

\* An operation that takes a record which another one is working on is noticed.
LEMMA OnlyOne ==
  ASSUME Typed, Alone, NEW o \in Ops, OpStep(o), NEW i \in Ids, id'[o] = i, i \notin overlap',
         NEW p \in Ops, p # o
  PROVE  ~UnderWay(p, i)'
<1>1. UnderWay(p, i)' <=> UnderWay(p, i)
  BY Effects DEF UnderWay
<1>2. pc[o] # "done"
  BY DEF OpStep, Insert, UpsertCreates, UpsertUpdates, UpsertDoesNothing, UpsertRefused,
     CheckRowSet, ReadRow, Delete, Bind, CannotBind, Write, Reread, PickKey, Put, Notify, Undo,
     ClientLeaves, StatementFails, At
<1>3. CASE id[o] = i
  BY <1>1, <1>2, <1>3, Effects DEF Alone, UnderWay
<1>4. CASE id[o] # i
  <2>1. id \in [Ops -> Nat]
    BY DEF Typed, Progress
  <2>2. Begin(o, i)
    BY <1>4, <2>1 DEF OpStep, Insert, UpsertCreates, UpsertUpdates, UpsertDoesNothing,
       UpsertRefused, CheckRowSet, ReadRow, Delete, Bind, CannotBind, Write, Reread, PickKey, Put,
       Notify, Undo, ClientLeaves, StatementFails, Begin, opVars
  <2>. QED  BY <1>1, <2>2 DEF Begin
<1>. QED  BY <1>3, <1>4

LEMMA NextAlone ==
  ASSUME Typed, Alone, NEW o \in Ops, OpStep(o)
  PROVE  Alone'
<1> SUFFICES ASSUME NEW i \in Ids, i \notin overlap', NEW p \in Ops, NEW q \in Ops,
                    UnderWay(p, i)', UnderWay(q, i)', p # q
             PROVE  FALSE
  BY DEF Alone
<1>1. CASE p # o /\ q # o
  BY <1>1, Effects DEF Alone, UnderWay
<1>2. CASE p = o \/ q = o
  BY <1>2, OnlyOne DEF UnderWay
<1>. QED  BY <1>1, <1>2

LEMMA NextUnborn ==
  ASSUME Typed, Unborn, NEW o \in Ops, OpStep(o)
  PROVE  Unborn'
<1>0. nextId \in Nat /\ nextId' \in Nat /\ nextId <= nextId'
  BY DEF Typed, Progress, OpStep, Insert, UpsertCreates, UpsertUpdates, UpsertDoesNothing,
     UpsertRefused, CheckRowSet, ReadRow, Delete, Bind, CannotBind, Write, Reread, PickKey, Put,
     Notify, Undo, ClientLeaves, StatementFails, storeVars
<1> SUFFICES ASSUME NEW i \in Ids, i >= nextId'
             PROVE  /\ rows'[i] = NoRow /\ History(i)' = {}
                    /\ \A p \in Ops : id'[p] = i => pc'[p] = "done" /\ result'[p] = "failed"
  BY DEF Unborn
<1>1. /\ rows[i] = NoRow /\ History(i) = {}
      /\ \A p \in Ops : id[p] = i => pc[p] = "done" /\ result[p] = "failed"
  BY <1>0, Counts DEF Unborn
<1>2. pc[o] # "done" /\ id[o] # i
  BY <1>1 DEF OpStep, Insert, UpsertCreates, UpsertUpdates, UpsertDoesNothing, UpsertRefused,
     CheckRowSet, ReadRow, Delete, Bind, CannotBind, Write, Reread, PickKey, Put, Notify, Undo,
     ClientLeaves, StatementFails, At
<1>3. History(i)' = {}
  BY <1>1, <1>2, HistoryKept
<1>4. CASE id'[o] # i
  BY <1>1, <1>2, <1>3, <1>4, RowsKept, Effects
<1>5. CASE id'[o] = i
  <2>0. /\ id \in [Ops -> Nat] /\ pc \in [Ops -> Labels] /\ i \in Nat
        /\ result \in [Ops -> {"none", "ok", "failed"}]
    BY Counts DEF Typed, Progress
  <2>1. CheckRowSet(o)
    <3>1. ~Insert(o)
      BY <1>0, <1>5, <2>0 DEF Insert, Begin
    <3>2. ~UpsertUpdates(o)
      BY <1>1, <1>5, <2>0 DEF UpsertUpdates, Matches, Begin
    <3>. QED
      BY <1>2, <1>5, <3>1, <3>2 DEF OpStep, UpsertCreates, UpsertDoesNothing, UpsertRefused,
         ReadRow, Delete, Bind, CannotBind, Write, Reread, PickKey, Put, Notify, Undo,
         ClientLeaves, StatementFails, opVars
  <2>2. pc'[o] = "done" /\ result'[o] = "failed" /\ UNCHANGED rows
    BY <1>1, <1>5, <2>0, <2>1 DEF CheckRowSet, Begin, Finish, Goto, storeVars
  <2>. QED  BY <1>1, <1>3, <2>2, Effects
<1>. QED  BY <1>4, <1>5

LEMMA OwnRecord ==
  ASSUME Typed, HistoryInv, NEW o \in Ops, OpStep(o), NEW i \in Ids, id'[o] = i
  PROVE  RecordInv(i)'
<1> SUFFICES ASSUME Clean(i)' PROVE RecordInv(i)'
  BY DEF RecordInv
<1>0. id[o] \in {0, i} /\ pc'[o] \in Labels
  BY Effects, NextProgress DEF Next, Typed, Progress
<1>1. CASE Put(o)
  <2>1. id[o] = i
    BY <1>1 DEF Typed, TypeOK, Put, opVars
  <2>. QED  BY <1>1, <2>1, PutRecord
<1>2. CASE ~Put(o)
  <2>1. Clean(i)
    BY Effects DEF Clean
  <2>2. RecordInv(i)
    BY DEF HistoryInv
  <2>3. /\ History(i)' = History(i) /\ Recorded(i)' = Recorded(i) /\ Credited(i)' = Credited(i)
    BY <1>2, HistoryKept, CreditKept
  <2>4. Gapless(i)'
    BY <2>1, <2>2, <2>3, Effects DEF RecordInv, Gapless, HasAt
  <2>5. /\ pc'[o] = "done" => rows'[i] = Recorded(i)
        /\ pc'[o] # "done" => Working(o, i)'
    BY <1>2, OwnRow
  <2>6. ASSUME NEW p \in Ops, p # o PROVE ~UnderWay(p, i)'
    BY <2>6, OnlyOne DEF HistoryInv, Clean
  <2>7. Quiet(i)' => pc'[o] = "done"
    BY DEF Quiet, UnderWay
  <2>8. \A p \in Ops : UnderWay(p, i)' => p = o /\ pc'[o] # "done"
    BY <2>6 DEF UnderWay
  <2>. QED  BY <2>1, <2>2, <2>3, <2>4, <2>5, <2>7, <2>8 DEF RecordInv
<1>. QED  BY <1>1, <1>2

LEMMA NextHistory == Typed /\ HistoryInv /\ [Next]_vars => HistoryInv'
<1> SUFFICES ASSUME Typed, HistoryInv, [Next]_vars PROVE HistoryInv'
  OBVIOUS
<1>1. CASE UNCHANGED vars
  <2>1. /\ \A i \in Ids : History(i)' = History(i) /\ Recorded(i)' = Recorded(i)
        /\ \A i \in Ids : Credited(i)' = Credited(i)
    BY <1>1 DEF vars, storeVars, opVars, History, Recorded, Credited
  <2>2. Unborn' /\ Alone'
    BY <1>1, <2>1 DEF vars, storeVars, opVars, ghosts, HistoryInv, Unborn, Alone, UnderWay
  <2>3. ASSUME NEW i \in Ids PROVE RecordInv(i)'
    BY <1>1, <2>1 DEF vars, storeVars, opVars, ghosts, HistoryInv, RecordInv, Clean, Gapless,
       HasAt, Quiet,
       UnderWay, Working, Former
  <2>. QED  BY <2>2, <2>3 DEF HistoryInv
<1>2. ASSUME NEW o \in Ops, OpStep(o) PROVE HistoryInv'
  <2>1. ASSUME NEW i \in Ids PROVE RecordInv(i)'
    <3>1. CASE id'[o] = i
      BY <1>2, <3>1, OwnRecord
    <3>2. CASE id'[o] # i
      <4>1. id[o] # i
        BY <1>2, <3>2, Effects, Counts
      <4>. QED  BY <1>2, <3>2, <4>1, OtherRecord DEF HistoryInv
    <3>. QED  BY <3>1, <3>2
  <2>. QED  BY <1>2, <2>1, NextAlone, NextUnborn DEF HistoryInv
<1>. QED  BY <1>1, <1>2 DEF Next

\* A record at rest agrees with its history: whatever statement failed and
\* whoever left, the row, its formulas included, is the one after the latest
\* entry, and the entries are those of the operations that succeeded.
THEOREM RecordsAgree == Spec => []SerialRecordsAgree
<1>1. HistoryInv /\ Typed => SerialRecordsAgree
  <2> SUFFICES ASSUME HistoryInv, Typed, NEW i \in Ids, Quiet(i), i \notin overlap \cup cut
               PROVE  Agrees(i)
    BY DEF SerialRecordsAgree
  <2>1. /\ {e.op : e \in History(i)} \ {Null} = Credited(i)
        /\ Sound(Recorded(i)) /\ rows[i] = Recorded(i)
    BY DEF HistoryInv, RecordInv, Clean
  <2>2. \A o \in Ops : id[o] = i => pc[o] = "done"
    BY DEF Quiet, UnderWay
  <2>3. Credited(i) = {o \in Ops : id[o] = i /\ result[o] = "ok"}
    BY <2>2 DEF Credited
  <2>. QED  BY <2>1, <2>3 DEF Agrees, Sound
<1>. QED
  BY <1>1, TypedInvariant, InitTyped, InitHistory, NextHistory, PTL DEF Spec
-----------------------------------------------------------------------------
(* Match values.                                                           *)

\* The match value that an operation gives the record it writes.
Given(o) ==
  IF act[o] = "create" THEN {Fresh(Patch[o])[MatchField]}
  ELSE IF act[o] = "update" /\ MatchField \in DOMAIN Patch[o] THEN {Patch[o][MatchField]} ELSE {}

\* A match value that a record has, or that somebody has read or will write there.
Carries(i, m) ==
  \/ rows[i] # NoRow /\ rows[i].vals[MatchField] = m
  \/ \E o \in Ops : /\ id[o] = i
                    /\ (base[o] # NoRow /\ base[o].vals[MatchField] = m) \/ m \in Given(o)

\* A row is there or may come back.
Present(i) == rows[i] # NoRow \/ \E p \in Ops : id[p] = i /\ MayPutBack(p)

\* An upsert has found no row and is about to insert one.
Pending(o) == Kind[o] = "upsert" /\ act[o] = "create" /\ pc[o] = "start"

\* A record never changes its match value, not even when it is put back.
Steady ==
  /\ \A i \in Ids : \A m, n : Carries(i, m) /\ Carries(i, n) => m = n
  /\ \A i \in Ids : i >= nextId => \A m : ~Carries(i, m)
  /\ \A o \in Ops :
       /\ act[o] # Kind[o] => Kind[o] = "upsert" /\ (act[o] = "update" => id[o] # 0)
       /\ id[o] = 0 => base[o] = NoRow
       /\ (act[o] # "create" /\ pc[o] \in {"bind", "write", "reread", "delete", "record", "put", "undo"})
          => base[o] # NoRow

\* No two records that are there or may come back have one match value, and
\* none has that of the only row which is about to be inserted.
Distinct ==
  ~raced =>
    /\ \A o, p \in Ops : Pending(o) /\ Pending(p) => o = p
    /\ \A i, k \in Ids : \A m :
         (Present(i) /\ Present(k) /\ Carries(i, m) /\ Carries(k, m) /\ m # Null) => i = k
    /\ \A o \in Ops, i \in Ids : Pending(o) /\ Present(i) => ~Carries(i, Patch[o][MatchField])

LEMMA InitMatches == Init => Steady /\ Distinct
<1> SUFFICES ASSUME Init PROVE Steady /\ Distinct
  OBVIOUS
<1>1. \A i \in Ids : i # 0 /\ i \in Nat /\ (rows[i] # NoRow => i = 1)
  BY Counts DEF Init
<1>2. \A i \in Ids : Present(i) => i = 1
  BY <1>1 DEF Init, Present
<1>3. \A i \in Ids : \A m : Carries(i, m) => i = 1 /\ m = rows[1].vals[MatchField]
  BY <1>1 DEF Init, Carries
<1>4. \A o \in Ops : ~Pending(o)
  BY DEF Init, Pending
<1>5. Steady
  BY <1>1, <1>3 DEF Init, Steady
<1>. QED  BY <1>2, <1>4, <1>5 DEF Distinct

\* What a step but an insertion leaves in a record was carried there before.
LEMMA RowCarried ==
  ASSUME Typed, Steady, OnlyUpsertsMatch, NEW o \in Ops, OpStep(o), ~Insert(o), NEW i \in Ids,
         rows'[i] # NoRow
  PROVE  Carries(i, rows'[i].vals[MatchField])
<1>0. /\ rows \in [Ids -> Row \cup {NoRow}] /\ id \in [Ops -> Nat]
      /\ base \in [Ops -> Row \cup {NoRow}] /\ MatchField \in Fields
      /\ i # 0
  BY Counts, RowAssumption DEF Typed, TypeOK, Progress
<1>1. CASE rows'[i] = rows[i]
  BY <1>1 DEF Carries
<1>2. CASE Write(o) /\ rows'[i] # rows[i]
  <2>1. id[o] = i /\ rows'[i] = Written(o) /\ act[o] \in {"create", "update"} /\ pc[o] = "write"
    BY <1>0, <1>2 DEF Write, At, Typed, Bookkeeping
  <2>2. CASE act[o] = "create"
    <3>1. rows'[i].vals[MatchField] = Fresh(Patch[o])[MatchField]
      BY <2>1, <2>2 DEF Written, Calculated
    <3>2. rows'[i].vals[MatchField] \in Given(o)
      BY <2>2, <3>1 DEF Given
    <3>. QED  BY <2>1, <3>2 DEF Carries
  <2>3. CASE act[o] = "update"
    <3>1. rows'[i].vals = Merged(base[o].vals, Patch[o]) /\ base[o] # NoRow
      BY <2>1, <2>3 DEF Written, Calculated, Steady
    <3>2. CASE MatchField \in DOMAIN Patch[o]
      <4>1. rows'[i].vals[MatchField] = Patch[o][MatchField]
        BY <1>0, <3>1, <3>2 DEF Merged
      <4>2. rows'[i].vals[MatchField] \in Given(o)
        BY <2>3, <3>2, <4>1 DEF Given
      <4>. QED  BY <2>1, <4>2 DEF Carries
    <3>3. CASE MatchField \notin DOMAIN Patch[o]
      <4>1. rows'[i].vals[MatchField] = base[o].vals[MatchField]
        BY <1>0, <3>1, <3>3 DEF Merged
      <4>. QED  BY <2>1, <3>1, <4>1 DEF Carries
    <3>. QED  BY <3>2, <3>3
  <2>. QED  BY <2>1, <2>2, <2>3
<1>3. CASE Undo(o) /\ rows'[i] # rows[i]
  BY <1>0, <1>3 DEF Undo, At, Carries
<1>4. CASE Delete(o)
  BY <1>0, <1>4 DEF Delete, Carries
<1>. QED
  BY <1>1, <1>2, <1>3, <1>4 DEF OpStep, UpsertCreates, UpsertUpdates, UpsertDoesNothing,
     UpsertRefused, CheckRowSet, ReadRow, Bind, CannotBind, Reread, PickKey, Put, Notify,
     ClientLeaves, StatementFails, storeVars

\* So was what the operation has read and is to write.
LEMMA OwnCarried ==
  ASSUME Typed, Steady, OnlyUpsertsMatch, NEW o \in Ops, OpStep(o), ~Insert(o), NEW i \in Ids,
         id'[o] = i
  PROVE  /\ base'[o] # NoRow => Carries(i, base'[o].vals[MatchField])
         /\ \A m \in Given(o)' : Carries(i, m)
<1>0. /\ rows \in [Ids -> Row \cup {NoRow}] /\ id \in [Ops -> Nat] /\ pc \in [Ops -> Labels]
      /\ base \in [Ops -> Row \cup {NoRow}]
      /\ act \in [Ops -> {"create", "update", "delete", "upsert", "noop"}]
      /\ i # 0
  BY Counts DEF Typed, TypeOK, Progress
<1>1. CASE UpsertUpdates(o)
  <2>1. /\ rows[i] # NoRow /\ rows[i].vals[MatchField] = Patch[o][MatchField]
        /\ id[o] = 0 /\ base'[o] = base[o] /\ act'[o] = "update"
    BY <1>0, <1>1 DEF UpsertUpdates, Matches, Begin, At, Typed, Bookkeeping
  <2>2. base'[o] = NoRow
    BY <2>1 DEF Steady
  <2>3. Carries(i, Patch[o][MatchField])
    BY <2>1 DEF Carries
  <2>. QED  BY <2>1, <2>2, <2>3 DEF Given
<1>2. CASE CheckRowSet(o)
  <2>1. base'[o] = base[o] /\ act'[o] = act[o] /\ act[o] \in {"update", "delete"}
    BY <1>2 DEF CheckRowSet, At
  <2>2. CASE id[o] = 0
    <3>1. act[o] = "update" => MatchField \notin DOMAIN Patch[o]
      BY <2>2 DEF Steady, OnlyUpsertsMatch
    <3>. QED  BY <2>1, <2>2, <3>1 DEF Steady, Given
  <2>3. CASE id[o] # 0
    <3>1. id[o] = i
      BY <2>3, Effects
    <3>. QED  BY <2>1, <3>1 DEF Carries, Given
  <2>. QED  BY <2>2, <2>3
<1>3. CASE ReadRow(o)
  <2>1. id[o] = i /\ base'[o] = rows[i] /\ act'[o] = act[o]
    BY <1>0, <1>3 DEF ReadRow
  <2>. QED  BY <2>1 DEF Carries, Given
<1>4. CASE UpsertCreates(o) \/ UpsertDoesNothing(o) \/ UpsertRefused(o)
  <2>1. id'[o] = 0
    BY <1>4 DEF UpsertCreates, UpsertDoesNothing, UpsertRefused, At, Typed, Bookkeeping
  <2>. QED  BY <1>0, <2>1
<1>5. CASE ~UpsertUpdates(o) /\ ~CheckRowSet(o) /\ ~ReadRow(o) /\ ~UpsertCreates(o)
           /\ ~UpsertDoesNothing(o) /\ ~UpsertRefused(o)
  <2>1. id'[o] = id[o] /\ base'[o] = base[o] /\ act'[o] = act[o]
    BY <1>5 DEF OpStep, Delete, Bind, CannotBind, Write, Reread, PickKey, Put, Notify, Undo,
       ClientLeaves, StatementFails, opVars
  <2>. QED  BY <2>1 DEF Carries, Given
<1>. QED  BY <1>1, <1>2, <1>3, <1>4, <1>5

LEMMA CarriedBefore ==
  ASSUME Typed, Steady, OnlyUpsertsMatch, NEW o \in Ops, OpStep(o), ~Insert(o), NEW i \in Ids, NEW m,
         Carries(i, m)'
  PROVE  Carries(i, m)
<1>1. CASE rows'[i] # NoRow /\ rows'[i].vals[MatchField] = m
  BY <1>1, RowCarried
<1>2. ASSUME NEW p \in Ops, id'[p] = i,
             (base'[p] # NoRow /\ base'[p].vals[MatchField] = m) \/ m \in Given(p)'
      PROVE  Carries(i, m)
  <2>1. CASE p = o
    BY <1>2, <2>1, OwnCarried
  <2>2. CASE p # o
    BY <1>2, <2>2, Effects DEF Given, Carries
  <2>. QED  BY <2>1, <2>2
<1>. QED  BY <1>1, <1>2 DEF Carries

\* No row comes back that was not known to.
LEMMA PresentBefore ==
  ASSUME Typed, NEW o \in Ops, OpStep(o), ~Insert(o), NEW i \in Ids, Present(i)'
  PROVE  Present(i)
<1>0. /\ rows \in [Ids -> Row \cup {NoRow}] /\ id \in [Ops -> Nat] /\ pc \in [Ops -> Labels]
      /\ act \in [Ops -> {"create", "update", "delete", "upsert", "noop"}] /\ i # 0
      /\ pc[o] = "delete" => act[o] = "delete"
  BY Counts DEF Typed, TypeOK, Progress
<1>1. CASE rows'[i] # NoRow /\ rows[i] = NoRow
  BY <1>0, <1>1 DEF OpStep, UpsertCreates, UpsertUpdates, UpsertDoesNothing, UpsertRefused,
     CheckRowSet, ReadRow, Delete, Bind, CannotBind, Write, Reread, PickKey, Put, Notify, Undo,
     ClientLeaves, StatementFails, storeVars, At, Present, MayPutBack
<1>2. ASSUME NEW p \in Ops, p # o, id'[p] = i, MayPutBack(p)' PROVE Present(i)
  BY <1>2, Effects DEF Present, MayPutBack
<1>3. CASE id'[o] = i /\ MayPutBack(o)'
  <2>1. CASE UpsertCreates(o) \/ UpsertUpdates(o) \/ UpsertDoesNothing(o) \/ UpsertRefused(o)
             \/ CheckRowSet(o)
    BY <1>0, <1>3, <2>1 DEF UpsertCreates, UpsertUpdates, UpsertDoesNothing, UpsertRefused,
       CheckRowSet, At, Goto, Finish, MayPutBack
  <2>2. CASE ReadRow(o) \/ Delete(o) \/ Bind(o) \/ CannotBind(o) \/ Write(o) \/ Reread(o)
    BY <1>0, <1>3, <2>2 DEF ReadRow, Delete, Bind, CannotBind, Write, Reread, At, GiveUp, Goto, Finish,
       opVars, MayPutBack, Present
  <2>3. CASE PickKey(o) \/ Put(o) \/ Notify(o) \/ Undo(o) \/ ClientLeaves(o)
    BY <1>0, <1>3, <2>3 DEF PickKey, Put, Notify, Undo, ClientLeaves, At, Goto, Finish, opVars,
       MayPutBack, Present
  <2>4. CASE StatementFails(o)
    BY <1>0, <1>3, <2>4 DEF StatementFails, GiveUp, Goto, Finish, opVars, MayPutBack, Present
  <2>. QED  BY <2>1, <2>2, <2>3, <2>4 DEF OpStep
<1>. QED  BY <1>1, <1>2, <1>3 DEF Present

LEMMA OwnSteady ==
  ASSUME Typed, Steady, NEW o \in Ops, OpStep(o)
  PROVE  /\ act'[o] # Kind[o] => Kind[o] = "upsert" /\ (act'[o] = "update" => id'[o] # 0)
         /\ id'[o] = 0 => base'[o] = NoRow
         /\ (act'[o] # "create" /\ pc'[o] \in {"bind", "write", "reread", "delete", "record", "put", "undo"})
            => base'[o] # NoRow
<1>0. /\ id \in [Ops -> Nat] /\ pc \in [Ops -> Labels] /\ base \in [Ops -> Row \cup {NoRow}]
      /\ act \in [Ops -> {"create", "update", "delete", "upsert", "noop"}]
      /\ act[o] # Kind[o] => Kind[o] = "upsert" /\ (act[o] = "update" => id[o] # 0)
      /\ id[o] = 0 => base[o] = NoRow
      /\ (act[o] # "create" /\ pc[o] \in {"bind", "write", "reread", "delete", "record", "put", "undo"})
         => base[o] # NoRow
      /\ pc[o] \notin {"start", "done"} => id[o] # 0
      /\ pc[o] \in {"bind", "write", "reread"} => act[o] \in {"create", "update"}
      /\ act[o] \in {"create", "upsert"} => o \in Creators
      /\ act[o] = "upsert" \/ (act[o] = "create" /\ pc[o] = "start") => id[o] = 0
      /\ \A i \in Ids : i # 0
  BY Counts DEF Typed, TypeOK, Progress, Steady, Bookkeeping
<1>1. id[o] # 0 => id'[o] # 0
  BY <1>0, Effects
<1>2. CASE Insert(o)
  BY <1>0, <1>2 DEF Insert, At, Goto, Begin
<1>3. CASE UpsertCreates(o) \/ UpsertDoesNothing(o) \/ UpsertRefused(o)
  BY <1>0, <1>3 DEF UpsertCreates, UpsertDoesNothing, UpsertRefused, At, Goto, Finish
<1>4. CASE UpsertUpdates(o)
  <2>1. id'[o] # 0
    BY <1>0, <1>4 DEF UpsertUpdates, Matches, Begin
  <2>. QED  BY <1>0, <1>4, <2>1 DEF UpsertUpdates, At
<1>5. CASE CheckRowSet(o)
  <2>1. id'[o] # 0
    BY <1>0, <1>5, RowAssumption DEF CheckRowSet, Begin
  <2>. QED  BY <1>0, <1>5, <2>1 DEF CheckRowSet, At, Goto, Finish
<1>6. CASE ReadRow(o) \/ Delete(o) \/ Bind(o) \/ CannotBind(o) \/ Write(o) \/ Reread(o)
  BY <1>0, <1>6 DEF ReadRow, Delete, Bind, CannotBind, Write, Reread, At, GiveUp, Goto, Finish, opVars
<1>7. CASE PickKey(o) \/ Put(o) \/ Notify(o) \/ Undo(o) \/ ClientLeaves(o)
  BY <1>0, <1>7 DEF PickKey, Put, Notify, Undo, ClientLeaves, At, Goto, Finish, opVars
<1>8. CASE StatementFails(o)
  BY <1>0, <1>8 DEF StatementFails, GiveUp, Goto, Finish, opVars
<1>. QED  BY <1>2, <1>3, <1>4, <1>5, <1>6, <1>7, <1>8 DEF OpStep

\* A row is inserted: its record carried nothing, and carries one match value.
LEMMA InsertCarries ==
  ASSUME Typed, Steady, NEW o \in Ops, OpStep(o), Insert(o), NEW n, n = nextId
  PROVE  /\ n \in Ids /\ nextId' = n + 1 /\ id[o] = 0 /\ raced' = raced
         /\ \A m : Carries(n, m)' => m = Fresh(Patch[o])[MatchField]
         /\ \A i \in Ids : i # n => /\ Present(i)' => Present(i)
                                    /\ \A m : Carries(i, m)' => Carries(i, m)
<1>0. /\ rows \in [Ids -> Row \cup {NoRow}] /\ id \in [Ops -> Nat] /\ pc \in [Ops -> Labels]
      /\ act[o] = "create" /\ pc[o] = "start" /\ id[o] = 0
      /\ n \in Ids /\ 0 \notin Ids /\ n \in Nat
  BY Counts, RoomForOne DEF Typed, TypeOK, Progress, Bookkeeping, Insert, At
<1>1. /\ rows' = [rows EXCEPT ![n] = [vals |-> Fresh(Patch[o]), calc |-> Null]]
      /\ id' = [id EXCEPT ![o] = n] /\ pc' = [pc EXCEPT ![o] = "bind"]
      /\ nextId' = n + 1 /\ UNCHANGED <<act, base, raced>>
  BY DEF Insert, Begin, Goto
<1>2. base[o] = NoRow /\ \A m : ~Carries(n, m)
  BY <1>0 DEF Steady
<1>3. \A p \in Ops : Given(p)' = Given(p)
  BY <1>1 DEF Given
<1>4. ASSUME NEW m, Carries(n, m)' PROVE m = Fresh(Patch[o])[MatchField]
  <2>1. CASE rows'[n] # NoRow /\ rows'[n].vals[MatchField] = m
    BY <1>0, <1>1, <2>1
  <2>2. ASSUME NEW p \in Ops, id'[p] = n,
               (base'[p] # NoRow /\ base'[p].vals[MatchField] = m) \/ m \in Given(p)'
        PROVE  m = Fresh(Patch[o])[MatchField]
    <3>1. CASE p = o
      BY <1>0, <1>1, <1>2, <1>3, <2>2, <3>1 DEF Given
    <3>2. CASE p # o
      <4>1. Carries(n, m)
        BY <1>0, <1>1, <1>3, <2>2, <3>2 DEF Carries
      <4>. QED  BY <1>2, <4>1
    <3>. QED  BY <3>1, <3>2
  <2>. QED  BY <1>4, <2>1, <2>2 DEF Carries
<1>5. ASSUME NEW i \in Ids, i # n
      PROVE  /\ Present(i)' => Present(i)
             /\ \A m : Carries(i, m)' => Carries(i, m)
  <2>1. rows'[i] = rows[i] /\ \A p \in Ops : id'[p] = i => id[p] = i /\ p # o
    BY <1>0, <1>1, <1>5
  <2>2. \A p \in Ops : MayPutBack(p)' => MayPutBack(p)
    BY <1>0, <1>1 DEF MayPutBack
  <2>. QED  BY <1>1, <1>3, <2>1, <2>2 DEF Carries, Present
<1>. QED  BY <1>0, <1>1, <1>4, <1>5

LEMMA NextSteady ==
  ASSUME Typed, Steady, OnlyUpsertsMatch, NEW o \in Ops, OpStep(o)
  PROVE  Steady'
<1>1. ASSUME NEW p \in Ops
      PROVE  /\ act'[p] # Kind[p] => Kind[p] = "upsert" /\ (act'[p] = "update" => id'[p] # 0)
             /\ id'[p] = 0 => base'[p] = NoRow
             /\ (act'[p] # "create" /\ pc'[p] \in {"bind", "write", "reread", "delete", "record", "put", "undo"})
                => base'[p] # NoRow
  <2>1. CASE p = o
    BY <2>1, OwnSteady
  <2>2. CASE p # o
    BY <2>2, Effects DEF Steady
  <2>. QED  BY <2>1, <2>2
<1>2. CASE Insert(o)
  <2>1. PICK n : n = nextId
    OBVIOUS
  <2>2. \A i \in Ids : i # n => \A m : Carries(i, m)' => Carries(i, m)
    BY <1>2, <2>1, InsertCarries
  <2>3. n \in Ids /\ nextId' = n + 1 /\ \A m : Carries(n, m)' => m = Fresh(Patch[o])[MatchField]
    BY <1>2, <2>1, InsertCarries
  <2>4. \A i \in Ids : \A m, q : Carries(i, m)' /\ Carries(i, q)' => m = q
    BY <2>2, <2>3 DEF Steady
  <2>5. \A i \in Ids : i >= nextId' => i # n /\ i >= n
    BY <2>3, Counts
  <2>6. \A i \in Ids : i >= nextId' => \A m : ~Carries(i, m)'
    BY <2>1, <2>2, <2>5 DEF Steady
  <2>. QED  BY <1>1, <2>4, <2>6 DEF Steady
<1>3. CASE ~Insert(o)
  <2>1. \A i \in Ids : \A m : Carries(i, m)' => Carries(i, m)
    BY <1>3, CarriedBefore
  <2>2. nextId' = nextId
    BY <1>3 DEF OpStep, UpsertCreates, UpsertUpdates, UpsertDoesNothing, UpsertRefused,
       CheckRowSet, ReadRow, Delete, Bind, CannotBind, Write, Reread, PickKey, Put, Notify, Undo,
       ClientLeaves, StatementFails, storeVars
  <2>. QED  BY <1>1, <2>1, <2>2 DEF Steady
<1>. QED  BY <1>2, <1>3

\* Who is about to insert a row, when no upsert has just found none.
LEMMA PendingBefore ==
  ASSUME Typed, NEW o \in Ops, OpStep(o), ~UpsertCreates(o)
  PROVE  raced' = raced /\ \A p \in Ops : Pending(p)' => Pending(p) /\ (Insert(o) => p # o)
<1>0. /\ pc \in [Ops -> Labels] /\ act \in [Ops -> {"create", "update", "delete", "upsert", "noop"}]
  BY DEF Typed, TypeOK, Progress
<1>1. raced' = raced
  BY DEF OpStep, Insert, UpsertUpdates, UpsertDoesNothing, UpsertRefused, CheckRowSet, ReadRow,
     Delete, Bind, CannotBind, Write, Reread, PickKey, Put, Notify, Undo, ClientLeaves,
     StatementFails, ghosts
<1>2. Pending(o)' => Pending(o) /\ ~Insert(o)
  <2>1. CASE Insert(o) \/ UpsertUpdates(o) \/ UpsertDoesNothing(o) \/ UpsertRefused(o) \/ CheckRowSet(o)
    BY <1>0, <2>1 DEF Insert, UpsertUpdates, UpsertDoesNothing, UpsertRefused, CheckRowSet, At,
       Goto, Finish, Pending
  <2>2. CASE ReadRow(o) \/ Delete(o) \/ Bind(o) \/ CannotBind(o) \/ Write(o) \/ Reread(o)
    BY <1>0, <2>2 DEF ReadRow, Delete, Bind, CannotBind, Write, Reread, At, GiveUp, Goto, Finish,
       opVars, Pending, Insert
  <2>3. CASE PickKey(o) \/ Put(o) \/ Notify(o) \/ Undo(o)
    BY <1>0, <2>3 DEF PickKey, Put, Notify, Undo, At, Goto, Finish, opVars, Pending, Insert
  <2>4. CASE ClientLeaves(o) \/ StatementFails(o)
    <3>1. act'[o] = act[o] /\ (pc'[o] = "start" => pc[o] = "start")
      BY <1>0, <2>4 DEF ClientLeaves, StatementFails, GiveUp, Goto, Finish, opVars
    <3>2. pc'[o] = "start" => UNCHANGED pc
      BY <1>0, <2>4 DEF ClientLeaves, StatementFails, GiveUp, Goto, Finish
    <3>. QED  BY <1>0, <3>1, <3>2 DEF Pending, Insert, Goto
  <2>. QED  BY <2>1, <2>2, <2>3, <2>4 DEF OpStep
<1>. QED  BY <1>1, <1>2, Effects DEF Pending

\* An upsert that finds no row, while no row is deleted that may come back and
\* nobody is about to insert one.
LEMMA CreatesAlone ==
  ASSUME Typed, Steady, OnlyUpsertsMatch, NEW o \in Ops, OpStep(o), UpsertCreates(o), ~raced'
  PROVE  /\ ~raced
         /\ \A p \in Ops : Pending(p)' => p = o
         /\ \A i \in Ids : Present(i) => ~Carries(i, Patch[o][MatchField])
<1>1. /\ act[o] = "upsert" /\ pc[o] = "start" /\ ~raced
      /\ \A p \in Ops \ {o} : /\ ~(Kind[p] = "upsert" /\ act[p] = "create" /\ pc[p] = "start")
                              /\ MayPutBack(p) => rows[id[p]] # NoRow
      /\ Matches(o) = {}
  BY DEF UpsertCreates, At
<1>2. Kind[o] = "upsert" /\ MatchField \in DOMAIN Patch[o]
  BY <1>1, RowAssumption DEF Steady, OnlyUpsertsMatch
<1>3. \A p \in Ops : Pending(p)' => p = o
  BY <1>1, Effects DEF Pending
<1>4. ASSUME NEW i \in Ids, Present(i), Carries(i, Patch[o][MatchField]) PROVE FALSE
  <2>1. ~MayPutBack(o)
    BY <1>1 DEF MayPutBack
  <2>2. rows[i] # NoRow
    BY <1>1, <1>4, <2>1 DEF Present
  <2>3. Carries(i, rows[i].vals[MatchField])
    BY <2>2 DEF Carries
  <2>4. rows[i].vals[MatchField] = Patch[o][MatchField]
    BY <1>4, <2>3 DEF Steady
  <2>. QED  BY <1>1, <1>2, <2>2, <2>4 DEF Matches
<1>. QED  BY <1>1, <1>3, <1>4

LEMMA NextDistinct ==
  ASSUME Typed, Steady, Distinct, OnlyUpsertsMatch, NEW o \in Ops, OpStep(o)
  PROVE  Distinct'
<1> SUFFICES ASSUME ~raced' PROVE Distinct'
  BY DEF Distinct
<1>1. CASE Insert(o)
  <2>0. ~raced /\ ~UpsertCreates(o)
    BY <1>1, PendingBefore DEF Insert, UpsertCreates, At
  <2>1. PICK n : n = nextId
    OBVIOUS
  <2>2. PICK given : given = Fresh(Patch[o])[MatchField]
    OBVIOUS
  <2>3. n \in Ids /\ \A m : Carries(n, m)' => m = given
    BY <1>1, <2>1, <2>2, InsertCarries
  <2>4. \A i \in Ids : i # n => /\ Present(i)' => Present(i)
                                /\ \A m : Carries(i, m)' => Carries(i, m)
    BY <1>1, <2>1, InsertCarries
  <2>5. \A p \in Ops : Pending(p)' => Pending(p) /\ p # o
    BY <1>1, <2>0, PendingBefore
  <2>6. given = Null \/ (given = Patch[o][MatchField] /\ Pending(o))
    <3>0. MatchField \in Fields /\ act[o] = "create" /\ pc[o] = "start"
      BY <1>1, RowAssumption DEF Insert, At
    <3>1. CASE MatchField \in DOMAIN Patch[o]
      BY <2>2, <3>0, <3>1 DEF Fresh, Merged, OnlyUpsertsMatch, Pending
    <3>2. CASE MatchField \notin DOMAIN Patch[o]
      BY <2>2, <3>0, <3>2 DEF Fresh, Merged
    <3>. QED  BY <3>1, <3>2
  <2>7. \A i \in Ids : given # Null /\ i # n => ~(Present(i) /\ Carries(i, given))
    BY <2>0, <2>6 DEF Distinct
  <2>8. \A i, k \in Ids : \A m :
          (Present(i)' /\ Present(k)' /\ Carries(i, m)' /\ Carries(k, m)' /\ m # Null) => i = k
    BY <2>0, <2>3, <2>4, <2>7 DEF Distinct
  <2>9. ASSUME NEW p \in Ops, NEW i \in Ids, Pending(p)', Present(i)', Carries(i, Patch[p][MatchField])'
        PROVE  FALSE
    <3>1. Pending(p) /\ p # o
      BY <2>5, <2>9
    <3>2. CASE i = n
      <4>1. Patch[p][MatchField] # Null
        BY <3>1, RowAssumption DEF Pending
      <4>2. Pending(o)
        BY <2>3, <2>6, <2>9, <3>2, <4>1
      <4>. QED  BY <2>0, <3>1, <4>2 DEF Distinct
    <3>3. CASE i # n
      BY <2>0, <2>4, <2>9, <3>1, <3>3 DEF Distinct
    <3>. QED  BY <3>2, <3>3
  <2>. QED  BY <2>0, <2>5, <2>8, <2>9 DEF Distinct
<1>2. CASE UpsertCreates(o)
  <2>1. /\ ~raced /\ \A p \in Ops : Pending(p)' => p = o
        /\ \A i \in Ids : Present(i) => ~Carries(i, Patch[o][MatchField])
    BY <1>2, CreatesAlone
  <2>2. \A i \in Ids : /\ Present(i)' => Present(i)
                       /\ \A m : Carries(i, m)' => Carries(i, m)
    <3>1. ~Insert(o)
      BY <1>2 DEF UpsertCreates, Insert, At
    <3>. QED  BY <3>1, CarriedBefore, PresentBefore
  <2>. QED  BY <2>1, <2>2 DEF Distinct
<1>3. CASE ~Insert(o) /\ ~UpsertCreates(o)
  <2>1. \A i \in Ids : /\ Present(i)' => Present(i)
                       /\ \A m : Carries(i, m)' => Carries(i, m)
    BY <1>3, CarriedBefore, PresentBefore
  <2>2. ~raced /\ \A p \in Ops : Pending(p)' => Pending(p)
    BY <1>3, PendingBefore
  <2>. QED  BY <2>1, <2>2 DEF Distinct
<1>. QED  BY <1>1, <1>2, <1>3

\* Upserts keep match values unique: upsertTableRow of
\* src/internal/api/workflow_table_nodes.go looks for a row and then inserts one,
\* with nothing that keeps others out in between; so they do only as long as
\* nobody inserts a row, or puts one back, between the two.
THEOREM MatchValuesAreUnique == Spec => []UpsertsKeepUnique
<1>1. CASE ~OnlyUpsertsMatch
  <2>1. UpsertsKeepUnique
    BY <1>1 DEF UpsertsKeepUnique
  <2>. QED  BY <2>1, PTL
<1>2. CASE OnlyUpsertsMatch
  <2>1. Typed /\ Steady /\ Distinct /\ [Next]_vars => (Steady /\ Distinct)'
    <3> SUFFICES ASSUME Typed, Steady, Distinct, [Next]_vars PROVE (Steady /\ Distinct)'
      OBVIOUS
    <3>1. CASE UNCHANGED vars
      <4>1. UNCHANGED <<rows, nextId, pc, act, id, base, raced>>
        BY <3>1 DEF vars, storeVars, opVars, ghosts
      <4>2. \A i, m : Carries(i, m)' <=> Carries(i, m)
        BY <4>1 DEF Carries, Given
      <4>3. /\ \A i : Present(i)' <=> Present(i)
            /\ \A o : Pending(o)' <=> Pending(o)
        BY <4>1 DEF Present, MayPutBack, Pending
      <4>4. Steady'
        BY <4>1, <4>2 DEF Steady
      <4>5. Distinct'
        BY <4>1, <4>2, <4>3 DEF Distinct
      <4>. QED  BY <4>4, <4>5
    <3>2. ASSUME NEW o \in Ops, OpStep(o) PROVE (Steady /\ Distinct)'
      BY <1>2, <3>2, NextSteady, NextDistinct
    <3>. QED  BY <3>1, <3>2 DEF Next
  <2>2. Steady /\ Distinct => UpsertsKeepUnique
    BY DEF Distinct, UpsertsKeepUnique, Present, Carries
  <2>. QED  BY <2>1, <2>2, TypedInvariant, InitMatches, PTL DEF Spec
<1>. QED  BY <1>1, <1>2
=============================================================================
