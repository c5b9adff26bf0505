----------------------------- MODULE RowService -----------------------------
(***************************************************************************)
(* Creating, updating, deleting and upserting rows of one table: Service   *)
(* of src/internal/table/table.go over the row repository                  *)
(* (src/internal/recorddb/repository.go), the history store                *)
(* (src/internal/history/history.go) and the file table of                 *)
(* src/internal/systemdb/db.go.                                            *)
(*                                                                         *)
(* A write is a sequence of statements on three stores that share no       *)
(* transaction: the row first, then its history entry, then the            *)
(* notification.  When a later statement fails an earlier one is undone,   *)
(* with the context of the request, so not when the client is gone.  No    *)
(* lock is held between two statements.                                    *)
(*                                                                         *)
(* A row is its values, one per field, and the values from which its       *)
(* formula fields were calculated.                                         *)
(***************************************************************************)
EXTENDS Integers, FiniteSets, FiniteSetsExt, Functions

CONSTANTS
  Fields, Values, Null,
  FileField,   \* the field that holds a file; the others are plain
  Files,
  MatchField,  \* the match field of upserts
  ViewField,   \* the field that decides which rows an actor sees
  Ops,         \* requests (and nodes of runs) that write
  Kind,        \* what each of them is
  Target,      \* the record an update or a delete is for
  Patch,       \* the values it gives
  Sees,        \* the values of ViewField of the rows its actor sees
  Owner,       \* operations of the database's owner, who sees every row
  ReadsAll,    \* operations whose actor may read the built-in view "all"
  MayBind,     \* the files it may bind: uploaded by its actor for this table
  FirstRow,    \* the values of record 1, which exists from the start
  MaxTime,     \* bound: the last millisecond
  MaxFaults,   \* bound: how many statements fail with the client still there
  NoRow        \* no row

Creators == {o \in Ops : Kind[o] \in {"create", "upsert"}}
Ids == 1 .. Cardinality(Creators) + 1  \* record 1 and those created
Times == 0 .. MaxTime + Cardinality(Ops)

Vals == [Fields -> Values \cup {Null}]
Row  == [vals : Vals, calc : Vals \cup {Null}]

ASSUME RowAssumption ==
  /\ {FileField, MatchField, ViewField} \subseteq Fields
  /\ Files \subseteq Values
  /\ Kind \in [Ops -> {"create", "update", "delete", "upsert"}]
  /\ Target \in [Ops -> Ids]
  /\ \A o \in Ops : /\ DOMAIN Patch[o] \subseteq Fields
                    /\ \A f \in DOMAIN Patch[o] : Patch[o][f] \in Values
                    /\ FileField \in DOMAIN Patch[o] => Patch[o][FileField] \in Files
                    /\ Kind[o] = "upsert" => MatchField \in DOMAIN Patch[o]
  /\ Sees \in [Ops -> SUBSET (Values \cup {Null})]
  /\ Owner \subseteq Ops /\ ReadsAll \subseteq Ops
  /\ MayBind \in [Ops -> SUBSET Files]
  /\ FirstRow \in [Fields -> Values \cup {Null}] /\ FirstRow[FileField] = Null
  /\ MaxTime \in Nat /\ MaxFaults \in Nat
  /\ IsFiniteSet(Ops)
  /\ Null \notin Values \cup Ops /\ NoRow \notin Row

VARIABLES
  rows,     \* the table: a row or NoRow for each record id
  nextId,   \* its autoincrement counter
  bound,    \* the record each file is bound to, 0 for none
  entries,  \* the history store: record, timestamp, operation, row afterwards
  told,     \* operations whose change was handed to the row change handler
  clock,    \* the time when it was last read
  pc,       \* progress of each operation
  act,      \* what it turned out to be: an upsert creates, updates or does nothing
  id,       \* the record it writes
  base,     \* the row it read, or deleted
  new,      \* the row it wrote, read back
  key,      \* the timestamp of its history key
  result,
  gone,     \* operations whose client went away
  faults,
  overlap,  \* history: records on which two operations were under way at once
  cut,      \* history: records with a failed write that was not undone
  raced     \* history: an upsert found no row while another was about to insert
            \* one, or while one was deleted that may be put back

storeVars == <<rows, nextId, bound, entries, told, clock>>
opVars    == <<act, id, base, new, key>>
ghosts    == <<overlap, cut, raced>>
vars == <<storeVars, pc, opVars, result, gone, faults, ghosts>>

Entry == [rec : Ids, at : Times, op : Ops \cup {Null}, row : Row \cup {NoRow}]

TypeOK ==
  /\ rows \in [Ids -> Row \cup {NoRow}]
  /\ nextId \in Ids \cup {Cardinality(Creators) + 2}
  /\ bound \in [Files -> Ids \cup {0}]
  /\ entries \in SUBSET Entry
  /\ told \in SUBSET Ops
  /\ clock \in 0 .. MaxTime
  /\ pc \in [Ops -> {"start", "read", "bind", "write", "reread", "delete",
                     "record", "put", "notify", "undo", "done"}]
  /\ act \in [Ops -> {"create", "update", "delete", "upsert", "noop"}]
  /\ id \in [Ops -> Ids \cup {0}]
  /\ base \in [Ops -> Row \cup {NoRow}]
  /\ new \in [Ops -> Row \cup {NoRow}]
  /\ key \in [Ops -> Times]
  /\ result \in [Ops -> {"none", "ok", "failed"}]
  /\ gone \in SUBSET Ops
  /\ faults \in 0 .. MaxFaults
  /\ overlap \in SUBSET Ids /\ cut \in SUBSET Ids /\ raced \in BOOLEAN

Calculated(vals) == [vals |-> vals, calc |-> vals]

Init ==
  /\ rows = [i \in Ids |-> IF i = 1 THEN Calculated(FirstRow) ELSE NoRow]
  /\ nextId = 2
  /\ bound = [f \in Files |-> 0]
  /\ entries = {[rec |-> 1, at |-> 0, op |-> Null, row |-> Calculated(FirstRow)]}
  /\ told = {}
  /\ clock = 0
  /\ pc = [o \in Ops |-> "start"]
  /\ act = Kind
  /\ id = [o \in Ops |-> 0]
  /\ base = [o \in Ops |-> NoRow]
  /\ new = [o \in Ops |-> NoRow]
  /\ key = [o \in Ops |-> 0]
  /\ result = [o \in Ops |-> "none"]
  /\ gone = {} /\ faults = 0
  /\ overlap = {} /\ cut = {} /\ raced = FALSE

-----------------------------------------------------------------------------
(* Helpers.                                                                *)

Goto(o, label) == pc' = [pc EXCEPT ![o] = label]

Finish(o, outcome) ==
  /\ Goto(o, "done")
  /\ result' = [result EXCEPT ![o] = outcome]

\* Operation o is at a statement, and it succeeds.
At(o, label) == pc[o] = label /\ o \notin gone

\* Operation o is under way on a record; the record is remembered when it is
\* not alone there.
UnderWay(o, i) == id[o] = i /\ pc[o] # "done"

Begin(o, i) ==
  /\ id' = [id EXCEPT ![o] = i]
  /\ overlap' = IF \E p \in Ops \ {o} : UnderWay(p, i) THEN overlap \cup {i} ELSE overlap

\* Values that a patch changes; absent fields of a new row are null.
Merged(vals, patch) == [f \in Fields |-> IF f \in DOMAIN patch THEN patch[f] ELSE vals[f]]
Fresh(patch) == Merged([f \in Fields |-> Null], patch)

\* The view "all" selects every row.
MayReadAll(o) == o \in Owner \cup ReadsAll

\* RowInActorRowSet: the views that the actor may read select the row.
InRowSet(o, i) == MayReadAll(o) \/ rows[i].vals[ViewField] \in Sees[o]

-----------------------------------------------------------------------------
(* The statements of a write.                                              *)

\* CreateRow inserts the row, its formulas not calculated yet.
Insert(o) ==
  /\ At(o, "start") /\ act[o] = "create"
  /\ rows' = [rows EXCEPT ![nextId] = [vals |-> Fresh(Patch[o]), calc |-> Null]]
  /\ nextId' = nextId + 1
  /\ Begin(o, nextId)
  /\ Goto(o, "bind")
  /\ UNCHANGED <<bound, entries, told, clock, act, base, new, key, result, gone, faults, cut, raced>>

\* Mutant of Matches: no row is found.
NoMatches(o) == {}

\* upsertTableRow lists the rows with the match value.  It names no view, so it
\* lists them through "all", and an actor without that view is refused.
Matches(o) ==
  {i \in Ids : rows[i] # NoRow /\ rows[i].vals[MatchField] = Patch[o][MatchField]}

UpsertRefused(o) ==
  /\ At(o, "start") /\ act[o] = "upsert"
  /\ ~MayReadAll(o)
  /\ Finish(o, "failed")
  /\ UNCHANGED <<storeVars, act, id, base, new, key, gone, faults, ghosts>>

\* An operation that undoes its write when a statement to come fails.
MayPutBack(p) == act[p] # "create" /\ pc[p] \in {"delete", "record", "put", "undo"}

UpsertCreates(o) ==
  /\ At(o, "start") /\ act[o] = "upsert"
  /\ MayReadAll(o) /\ Matches(o) = {}
  /\ act' = [act EXCEPT ![o] = "create"]
  /\ raced' = (raced \/ \E p \in Ops \ {o} : \/ Kind[p] = "upsert" /\ act[p] = "create" /\ pc[p] = "start"
                                             \/ MayPutBack(p) /\ rows[id[p]] = NoRow)
  /\ UNCHANGED <<storeVars, pc, id, base, new, key, result, gone, faults, overlap, cut>>

UpsertUpdates(o) ==
  /\ At(o, "start") /\ act[o] = "upsert"
  /\ MayReadAll(o)
  /\ \E i \in Matches(o) :
       /\ Merged(rows[i].vals, Patch[o]) # rows[i].vals
       /\ Begin(o, i)
  /\ act' = [act EXCEPT ![o] = "update"]
  /\ UNCHANGED <<storeVars, pc, base, new, key, result, gone, faults, cut, raced>>

UpsertDoesNothing(o) ==
  /\ At(o, "start") /\ act[o] = "upsert"
  /\ MayReadAll(o)
  /\ \E i \in Matches(o) : Merged(rows[i].vals, Patch[o]) = rows[i].vals
  /\ act' = [act EXCEPT ![o] = "noop"]
  /\ Finish(o, "ok")
  /\ UNCHANGED <<storeVars, id, base, new, key, gone, faults, ghosts>>

\* UpdateRow and DeleteRow check that the record is in the actor's row set.
CheckRowSet(o) ==
  /\ At(o, "start") /\ act[o] \in {"update", "delete"}
  /\ LET i == IF id[o] = 0 THEN Target[o] ELSE id[o]
     IN  /\ Begin(o, i)
         /\ IF rows[i] # NoRow /\ InRowSet(o, i)
            THEN Goto(o, "read") /\ UNCHANGED result
            ELSE Finish(o, "failed")
  /\ UNCHANGED <<storeVars, act, base, new, key, gone, faults, cut, raced>>

\* They read the row ...
ReadRow(o) ==
  /\ At(o, "read")
  /\ base' = [base EXCEPT ![o] = rows[id[o]]]
  /\ IF rows[id[o]] = NoRow
     THEN Finish(o, "failed")
     ELSE Goto(o, IF act[o] = "update" THEN "bind" ELSE "delete") /\ UNCHANGED result
  /\ UNCHANGED <<storeVars, act, id, new, key, gone, faults, ghosts>>

\* ... and DeleteRow deletes it, if it is still there.
Delete(o) ==
  /\ At(o, "delete")
  /\ rows' = [rows EXCEPT ![id[o]] = NoRow]
  /\ Goto(o, "record")
  /\ UNCHANGED <<nextId, bound, entries, told, clock, opVars, result, gone, faults, ghosts>>

\* Mutant of Bindable: a file that is bound to another record is taken over.
BindableAnew(o, file) == file \in MayBind[o]

\* BindFileToRecord: the file is bound to this record, or to none and then to
\* this one in a statement that checks it again.
Bindable(o, file) == bound[file] = id[o] \/ (bound[file] = 0 /\ file \in MayBind[o])

GivesFile(o) == FileField \in DOMAIN Patch[o]

Bind(o) ==
  /\ At(o, "bind")
  /\ GivesFile(o) => Bindable(o, Patch[o][FileField])
  /\ bound' = IF GivesFile(o) THEN [bound EXCEPT ![Patch[o][FileField]] = id[o]] ELSE bound
  /\ Goto(o, "write")
  /\ UNCHANGED <<rows, nextId, entries, told, clock, opVars, result, gone, faults, ghosts>>

\* After a failure a new row is deleted again; an update has changed nothing yet.
GiveUp(o) ==
  IF act[o] = "create" THEN Goto(o, "undo") /\ UNCHANGED result ELSE Finish(o, "failed")

CannotBind(o) ==
  /\ At(o, "bind")
  /\ GivesFile(o) /\ ~Bindable(o, Patch[o][FileField])
  /\ GiveUp(o)
  /\ UNCHANGED <<storeVars, opVars, gone, faults, ghosts>>

\* Mutant of Written: only the values given are kept.
WrittenPatch(o) == Calculated(Patch[o])

\* Every column of the row is written: an update merges its patch into the row
\* it read, and the formulas are calculated.
Written(o) ==
  Calculated(IF act[o] = "create" THEN Fresh(Patch[o]) ELSE Merged(base[o].vals, Patch[o]))

Write(o) ==
  /\ At(o, "write")
  /\ IF rows[id[o]] = NoRow
     THEN GiveUp(o) /\ UNCHANGED rows
     ELSE /\ rows' = [rows EXCEPT ![id[o]] = Written(o)]
          /\ Goto(o, "reread")
          /\ UNCHANGED result
  /\ UNCHANGED <<nextId, bound, entries, told, clock, opVars, gone, faults, ghosts>>

\* The repository reads the row back.  An update whose row has gone meanwhile
\* fails without being undone.
Reread(o) ==
  /\ At(o, "reread")
  /\ new' = [new EXCEPT ![o] = rows[id[o]]]
  /\ IF rows[id[o]] = NoRow
     THEN GiveUp(o)
     ELSE Goto(o, "record") /\ UNCHANGED result
  /\ UNCHANGED <<storeVars, act, id, base, key, gone, faults, ghosts>>

\* uniqueHistoryKey: the first free timestamp from now on.
FreeTimes(i, now) ==
  {t \in Times : t >= now /\ \A e \in entries : ~(e.rec = i /\ e.at = t)}

\* The clock is read only here; it has advanced by any amount since.
PickKey(o) ==
  /\ At(o, "record")
  /\ clock' \in clock .. MaxTime
  /\ key' = [key EXCEPT ![o] = Min(FreeTimes(id[o], clock'))]
  /\ Goto(o, "put")
  /\ UNCHANGED <<rows, nextId, bound, entries, told, act, id, base, new, result, gone, faults, ghosts>>

\* Mutant of Put: the entry is lost.
PutNothing(o) ==
  /\ At(o, "put")
  /\ Goto(o, "notify")
  /\ UNCHANGED <<storeVars, opVars, result, gone, faults, ghosts>>

\* The entry is put under that key, over an entry put there meanwhile.
Put(o) ==
  /\ At(o, "put")
  /\ entries' = {e \in entries : ~(e.rec = id[o] /\ e.at = key[o])}
                  \cup {[rec |-> id[o], at |-> key[o], op |-> o, row |-> new[o]]}
  /\ Goto(o, "notify")
  /\ UNCHANGED <<rows, nextId, bound, told, clock, opVars, result, gone, faults, ghosts>>

\* The row change handler is called and the operation succeeds, whether or not
\* the client is still there.
Notify(o) ==
  /\ pc[o] = "notify"
  /\ told' = told \cup {o}
  /\ Finish(o, "ok")
  /\ UNCHANGED <<rows, nextId, bound, entries, clock, opVars, gone, faults, ghosts>>

\* Mutant of Undo: nothing is put back.
UndoNothing(o) ==
  /\ At(o, "undo")
  /\ Finish(o, "failed")
  /\ UNCHANGED <<storeVars, opVars, gone, faults, ghosts>>

\* A created row is deleted; an updated or deleted one is restored to what was
\* read, over whatever is there now.
Undo(o) ==
  /\ At(o, "undo")
  /\ rows' = [rows EXCEPT ![id[o]] = IF act[o] = "create" THEN NoRow ELSE base[o]]
  /\ Finish(o, "failed")
  /\ UNCHANGED <<nextId, bound, entries, told, clock, opVars, gone, faults, ghosts>>

-----------------------------------------------------------------------------
(* Failures.                                                               *)

\* The client goes away: the context of the request is cancelled.
ClientLeaves(o) ==
  /\ pc[o] # "done" /\ o \notin gone
  /\ gone' = gone \cup {o}
  /\ UNCHANGED <<storeVars, pc, opVars, result, faults, ghosts>>

\* A statement of o fails: its context is cancelled or the store fails.
StatementFails(o) ==
  /\ pc[o] \notin {"notify", "done"}
  /\ \/ o \in gone /\ UNCHANGED faults
     \/ o \notin gone /\ faults < MaxFaults /\ faults' = faults + 1
  /\ CASE pc[o] \in {"record", "put"} -> Goto(o, "undo") /\ UNCHANGED <<result, cut>>
       [] pc[o] \in {"bind", "write"} -> GiveUp(o) /\ UNCHANGED cut
       [] pc[o] = "reread" ->
            /\ GiveUp(o)
            /\ cut' = IF act[o] = "create" THEN cut ELSE cut \cup {id[o]}
       [] pc[o] = "undo" -> Finish(o, "failed") /\ cut' = cut \cup {id[o]}
       [] OTHER -> Finish(o, "failed") /\ UNCHANGED cut
  /\ UNCHANGED <<storeVars, opVars, gone, overlap, raced>>

-----------------------------------------------------------------------------
OpStep(o) ==
  \/ Insert(o)
  \/ UpsertRefused(o) \/ UpsertCreates(o) \/ UpsertUpdates(o) \/ UpsertDoesNothing(o)
  \/ CheckRowSet(o) \/ ReadRow(o) \/ Delete(o) \/ Bind(o) \/ CannotBind(o)
  \/ Write(o) \/ Reread(o) \/ PickKey(o) \/ Put(o) \/ Notify(o) \/ Undo(o)
  \/ ClientLeaves(o) \/ StatementFails(o)

Next == \E o \in Ops : OpStep(o)

Spec == Init /\ [][Next]_vars

-----------------------------------------------------------------------------
(* Properties.                                                             *)

Quiet(i) == \A o \in Ops : ~UnderWay(o, i)

History(i) == {e \in entries : e.rec = i}

\* What the history says of a record: its row after the latest change.
Recorded(i) ==
  IF History(i) = {} THEN NoRow
  ELSE (CHOOSE e \in History(i) : \A d \in History(i) : d.at <= e.at).row

\* A record that is at rest agrees with its history: the row, its formulas
\* included, is the one after its latest change, and the changes recorded are
\* those of the operations that succeeded.
Agrees(i) ==
  /\ rows[i] = Recorded(i)
  /\ rows[i] # NoRow => rows[i].calc = rows[i].vals
  /\ {e.op : e \in History(i)} \ {Null} = {o \in Ops : id[o] = i /\ result[o] = "ok"}

\* Whatever fails on the way, a record on which operations did not overlap
\* agrees with its history, unless the undoing of a write failed too.
SerialRecordsAgree ==
  \A i \in Ids : Quiet(i) /\ i \notin overlap \cup cut => Agrees(i)

\* A change is only announced when it can be looked up: its history key holds
\* an entry (that of another operation, if both picked the key at once).
AnnouncedIsRecorded ==
  \A o \in told : \E e \in entries : e.rec = id[o] /\ e.at = key[o]

\* The file that an acknowledged write put in a row is bound to that row, and
\* so is refused to every other row for ever, however the writes interleave.
AcknowledgedFilesBound ==
  \A o \in Ops : result[o] = "ok" /\ act[o] \in {"create", "update"} /\ GivesFile(o) =>
    bound[Patch[o][FileField]] = id[o]

\* Only upserts give the match field.
OnlyUpsertsMatch ==
  \A o \in Ops : MatchField \in DOMAIN Patch[o] => Kind[o] = "upsert"

\* Where only upserts, of whatever actors, give the match field, its values stay
\* unique, failed and abandoned operations included, as long as no upsert
\* looks for a row while another is about to insert one, or while a row is
\* deleted that the undoing of a deletion or update may put back.
UpsertsKeepUnique ==
  (OnlyUpsertsMatch /\ ~raced) => \A i, k \in Ids :
    (/\ rows[i] # NoRow /\ rows[k] # NoRow
     /\ rows[i].vals[MatchField] = rows[k].vals[MatchField]
     /\ rows[i].vals[MatchField] # Null) => i = k

-----------------------------------------------------------------------------
(* What tests and documents say and the code does not do.                  *)

\* table_test.go, TestUpdateRowDoesNotMutateWhenHistoryWriteFails and its
\* siblings for create and delete: a write whose history entry fails (its row
\* was written and read back before) does not change the table.  When the entry
\* fails because the client is gone, so does the statement that undoes the
\* write.
FailedWritesChangeNothing ==
  \A o \in Ops :
    (result[o] = "failed" /\ new[o] # NoRow /\ id[o] \notin overlap) =>
      rows[id[o]] = Recorded(id[o])
=============================================================================
