------------------------------ MODULE Catalog ------------------------------
(***************************************************************************)
(* Changing the catalog while rows are edited:                             *)
(* src/internal/api/metadata_service.go, addTableFields of                 *)
(* src/internal/api/workflow_table_field_nodes.go, their handlers in       *)
(* src/internal/api/server.go, SyncTable of src/internal/table/table.go    *)
(* and the physical tables of src/internal/recorddb/repository.go.         *)
(*                                                                         *)
(* A change of the catalog holds the server's catalog lock from its first  *)
(* statement to its last; row edits take a snapshot of the catalog and no  *)
(* lock.  Row edits are reduced to what meets a change of the catalog: the *)
(* module RowService has their history entries and files.                  *)
(***************************************************************************)
EXTENDS AccessControl

CONSTANTS FirstCatalog, FirstTables

VARIABLES
  file,     \* the catalog in the metadata file
  tables,   \* physical tables, by database and name: columns, rows, next id
  slipped,  \* history: whether fields in memory changed without a save
  ahead,    \* history: tables with the requests that wrote their columns and not
            \* their metadata, or changed their metadata and not the columns
  touched   \* history: rows that edits wrote since a change of the catalog began

tableVars   == <<catalog, file, tables>>
catalogHistory == <<slipped, ahead, touched>>
catalogVars == <<tableVars, catalogHistory>>

CatalogTypeOK ==
  /\ Validate(file)
  /\ \A k \in DOMAIN tables : \A x, y \in tables[k].rows : x.id = y.id => x = y
  /\ \A k \in DOMAIN tables : \A x \in tables[k].rows : x.id < tables[k].next

CatalogInit ==
  /\ catalog = FirstCatalog /\ file = FirstCatalog
  /\ tables = FirstTables
  /\ slipped = FALSE /\ ahead = {} /\ touched = {}

-----------------------------------------------------------------------------
(* Physical tables.                                                        *)

NoTable == [columns |-> <<>>, rows |-> {}, next |-> 1]
Physical(key) == IF key \in DOMAIN tables THEN tables[key] ELSE NoTable

\* Active fields whose columns are missing.
Wanted(physical, table) ==
  {f \in ActiveFields(table) : Column(f.name) \notin DOMAIN physical.columns}

\* AutoMigrate adds the columns that are missing; those that are there keep
\* their types.
EnsureTable(physical, table) ==
  LET wanted == Wanted(physical, table)
  IN  [physical EXCEPT !.columns = Over(@,
         [c \in {Column(f.name) : f \in wanted} |->
            StorageType(CHOOSE f \in wanted : Column(f.name) = c)])]

\* It fails when two of them are to have one name.
Clashes(physical, table) ==
  \E f, g \in Wanted(physical, table) : f # g /\ Column(f.name) = Column(g.name)

\* The values of a row by the names of a table's fields, and back.
NamedValues(table, row) == MapToRow(table, row).values
Stored(values) == [c \in {Column(n) : n \in DOMAIN values} |->
                     values[CHOOSE n \in DOMAIN values : Column(n) = c]]

RowWith(physical, id) == {row \in physical.rows : row.id = id}

\* UpdateRow sets the columns of the values given.
UpdateRow(physical, table, id, values) ==
  [EnsureTable(physical, table) EXCEPT !.rows =
     {IF row.id = id THEN [row EXCEPT !.values = Stored(values) @@ @] ELSE row : row \in @}]

InsertRow(physical, table, values) ==
  [EnsureTable(physical, table) EXCEPT
     !.rows = @ \cup {[id |-> physical.next, values |-> Stored(values)]},
     !.next = @ + 1]

SetTable(key, physical) == tables' = Put(tables, key, physical)

\* Every active field has its column, and every column is that of a field.
Complete(physical, table) == Wanted(physical, table) = {}
Founded(physical, table) ==
  \A c \in DOMAIN physical.columns : \E f \in ToSet(table.fields) :
    Column(f.name) = c /\ StorageType(f) = physical.columns[c]

\* The first catalog is valid and has its columns; requests are decoded.
ASSUME CatalogAssumption ==
  /\ RecordId \in Reserved
  /\ IsCatalog(FirstCatalog) /\ Validate(FirstCatalog)
  /\ \A d \in DOMAIN FirstCatalog : \A t \in DOMAIN FirstCatalog[d] :
       /\ <<d, t>> \in DOMAIN FirstTables
       /\ Complete(FirstTables[<<d, t>>], FirstCatalog[d][t])
       /\ Founded(FirstTables[<<d, t>>], FirstCatalog[d][t])
  /\ \A k \in DOMAIN FirstTables :
       /\ \E d \in DOMAIN FirstCatalog : \E t \in DOMAIN FirstCatalog[d] : k = <<d, t>>
       /\ DOMAIN FirstTables[k] = DOMAIN NoTable
       /\ FirstTables[k].next \in Nat
       /\ \A x, y \in FirstTables[k].rows :
            /\ DOMAIN x = {"id", "values"} /\ x.id \in Nat /\ x.id < FirstTables[k].next
            /\ x.id = y.id => x = y
  /\ \A s \in Scenarios : \A r \in s :
       /\ r.op = "addTable" => IsTable(r.table)
       /\ r.op = "createFields" => IsFields(r.fields)
       /\ r.op = "moveField" => r.to \in {"start", "before", "after"}
       /\ r.op = "updateTable" =>
            /\ DOMAIN r.patch = {"name", "fields", "views"}
            /\ r.patch.fields = Missing \/ IsFields(r.patch.fields)
            /\ r.patch.views = Missing \/ r.patch.views \in Seq(ToSet(r.patch.views))

-----------------------------------------------------------------------------
(* The lock, and changes under it.                                         *)

LockLabels == {"read", "sync", "save", "ensure"}

\* Mutant of CatalogFree: changes do not wait for each other.
NoLock == TRUE

CatalogFree == \A q \in due : pc[q] \notin LockLabels

Key(r) == <<r.db, IF r.op = "addTable" THEN r.table.name ELSE r.table>>

FormulaDefinitions(table) ==
  {[name |-> f.name, formula |-> f.formula, vtype |-> f.vtype] :
     f \in {g \in ActiveFields(table) : g.type = "formula"}}

\* Mutant of FormulaDefinitionsChanged: an edited formula is no change.
FormulaNamesChanged(existing, next) ==
  {f.name : f \in FormulaDefinitions(existing)} # {f.name : f \in FormulaDefinitions(next)}

FormulaDefinitionsChanged(existing, next) ==
  FormulaDefinitions(existing) # FormulaDefinitions(next)

\* A change that is refused is answered; another goes on to a label with the
\* next catalog, what the actor was authorised on, and the rows to recalculate.
Proceed(r, next, label) ==
  IF next = Refused THEN Answer(r, "invalid")
  ELSE Goto(r, label, [next |-> next, seen |-> held[r].seen, rows |-> {}])

\* The first statement of SyncTable or EnsureTable.  When it fails, the table may
\* have got some of the columns.
BringUpToDate(r, next, sync) ==
  LET table == next[r.db][Key(r)[2]]
  IN  /\ SetTable(Key(r), EnsureTable(Physical(Key(r)), table))
      /\ ahead' = ahead \cup {<<Key(r), r.id>>}
      /\ IF Clashes(Physical(Key(r)), table) THEN Answer(r, "invalid")
         ELSE Proceed(r, next, IF sync /\ FormulaDefinitions(table) # {} THEN "read" ELSE "save")

\* The change goes on to the rows that are left, or to the file.
Synchronise(r, rows) ==
  Goto(r, IF rows = {} THEN "save" ELSE "sync", [held[r] EXCEPT !.rows = rows])

ReadRows(r) ==
  /\ pc[r] = "read"
  /\ Synchronise(r, tables[Key(r)].rows)
  /\ UNCHANGED <<storeVars, accessHistory, file, tables, catalogHistory>>

\* One row in the order of ids: written when a formula's value changes, with
\* all values as they were read.  A row that is gone ends the change.
SyncRow(r) ==
  /\ pc[r] = "sync"
  /\ LET row   == CHOOSE x \in held[r].rows : \A y \in held[r].rows : x.id <= y.id
         table == held[r].next[r.db][Key(r)[2]]
         old   == NamedValues(table, row)
         new   == CalculateFormulaValues(table, row.id, old)
     IN  IF \A f \in FormulaDefinitions(table) : new[f.name] = old[f.name]
         THEN Synchronise(r, held[r].rows \ {row}) /\ UNCHANGED tables
         ELSE IF RowWith(tables[Key(r)], row.id) = {}
         THEN Answer(r, "invalid") /\ UNCHANGED tables
         ELSE /\ SetTable(Key(r), UpdateRow(tables[Key(r)], table, row.id, new))
              /\ Synchronise(r, held[r].rows \ {row})
  /\ UNCHANGED <<storeVars, accessHistory, file, catalogHistory>>

\* metadata.Save, and then the memory.
SaveCatalog(r) ==
  /\ pc[r] = "save"
  /\ file' = held[r].next
  /\ catalog' = held[r].next
  /\ CASE r.op = "createDatabase" ->
            Goto(r, "own", Nothing) /\ UNCHANGED ahead
       [] r.op = "createFields" ->
            Goto(r, "ensure", held[r]) /\ ahead' = ahead \cup {<<Key(r), r.id>>}
       [] OTHER -> Answer(r, "ok") /\ ahead' = ahead \ {<<Key(r), r.id>>}
  /\ slipped' = FALSE
  /\ UNCHANGED <<storeVars, doubled, tables, touched>>

-----------------------------------------------------------------------------
(* The handlers.                                                           *)

CreateDatabase(r) ==
  /\ At(r, "createDatabase", "start") /\ CatalogFree
  /\ LET next == AddDatabase(catalog, r.db)
     IN  IF next = Refused THEN Answer(r, "invalid")
         ELSE Goto(r, "save", [next |-> next])
  /\ UNCHANGED <<storeVars, accessHistory, file, tables, catalogHistory>>

OwnDatabase(r) ==
  /\ At(r, "createDatabase", "own")
  /\ SaveDatabaseOwner(r.db, r.actor)
  /\ Answer(r, "ok")
  /\ UNCHANGED <<grants, roles, members, scriptVars, accountVars, doubled, catalogVars>>

AuthorizeTable(r) ==
  /\ At(r, "addTable", "start")
  /\ IF MayManage(r.actor, r.db) THEN Goto(r, "change", [seen |-> Nothing])
     ELSE Answer(r, "forbidden")
  /\ UNCHANGED <<storeVars, doubled, catalogVars>>

ChangeTables(r) ==
  /\ At(r, "addTable", "change") /\ CatalogFree
  /\ LET next == AddTable(catalog, r.db, r.table)
     IN  IF next = Refused
         THEN Answer(r, "invalid") /\ UNCHANGED <<tables, ahead>>
         ELSE BringUpToDate(r, next, TRUE)
  /\ touched' = {}
  /\ UNCHANGED <<storeVars, accessHistory, file, slipped>>

\* What a definition is to fieldDefinitionChanged: not whether it is multiple.
Definition(f) == [f EXCEPT !.multiple = FALSE, !.deleted = FALSE]

\* Mutant of MayPatchField: an existing formula is a field like any other.
MayPatchPlainly(actor, d, existing, f) ==
  LET res == TableResource(d, existing.name)
      old == FieldOf(existing, f.name)
  IN  IF old = {} THEN CanAddFields(Perms(actor), actor, res)
      ELSE \A g \in old : Definition(g) # Definition(f) => CanModifyField(Perms(actor), actor, res, f.name)

\* What one who does not own the database needs for a field of a patch.
MayPatchField(actor, d, existing, f) ==
  LET res == TableResource(d, existing.name)
      old == FieldOf(existing, f.name)
  IN  IF old = {} THEN f.type # "formula" /\ CanAddFields(Perms(actor), actor, res)
      ELSE \A g \in old :
             /\ g.deleted = f.deleted
             /\ Definition(g) # Definition(f) =>
                  /\ "formula" \notin {g.type, f.type}
                  /\ CanModifyField(Perms(actor), actor, res, f.name)

\* The patch without the "all" view that clients echo.
PatchOf(r) ==
  IF r.patch.views = Missing THEN r.patch
  ELSE [r.patch EXCEPT !.views =
          FoldLeft(LAMBDA kept, v : IF v.name = AllView THEN kept ELSE Append(kept, v), <<>>, @)]

\* Decided on the catalog as it is now; the change is made on the one of then.
AuthorizePatch(r) ==
  /\ At(r, "updateTable", "start")
  /\ IF ~Known(catalog, r.db, r.table) THEN Answer(r, "invalid")
     ELSE LET existing == catalog[r.db][r.table]
              patch == PatchOf(r)
          IN  IF \/ IsDatabaseOwner(r.actor, r.db)
                 \/ /\ patch.fields # Missing => \A f \in ToSet(patch.fields) :
                                                   MayPatchField(r.actor, r.db, existing, f)
                    /\ patch.views # Missing => patch.views = existing.views
              THEN Goto(r, "change", [seen |-> existing])
              ELSE Answer(r, "forbidden")
  /\ UNCHANGED <<storeVars, doubled, catalogVars>>

ChangeTable(r) ==
  /\ At(r, "updateTable", "change") /\ CatalogFree
  /\ LET next == MergeTable(catalog, r.db, r.table, PatchOf(r))
     IN  IF next = Refused
         THEN Answer(r, "invalid") /\ UNCHANGED <<tables, ahead>>
         ELSE BringUpToDate(r, next, FormulaDefinitionsChanged(catalog[r.db][r.table], next[r.db][r.table]))
  /\ touched' = {}
  /\ UNCHANGED <<storeVars, accessHistory, file, slipped>>

\* Formulas take the owner.
MayCreateFields(actor, d, t, fields) ==
  /\ MayAddFields(actor, d, t)
  /\ IsDatabaseOwner(actor, d) \/ \A f \in ToSet(fields) : f.type # "formula"

AuthorizeFields(r) ==
  /\ \E op \in {"moveField", "createFields"} : At(r, op, "start")
  /\ IF IF r.op = "moveField" THEN MayAddFields(r.actor, r.db, r.table)
        ELSE MayCreateFields(r.actor, r.db, r.table, r.fields)
     THEN Goto(r, "change", [seen |-> Nothing])
     ELSE Answer(r, "forbidden")
  /\ UNCHANGED <<storeVars, doubled, catalogVars>>

\* The order of the columns does not matter: nothing but the file is written.
MoveField(r) ==
  /\ At(r, "moveField", "change") /\ CatalogFree
  /\ Proceed(r, CASE r.to = "start"  -> MoveFieldToStart(catalog, r.db, r.table, r.field)
                  [] r.to = "before" -> MoveFieldBefore(catalog, r.db, r.table, r.field, r.target)
                  [] r.to = "after"  -> MoveFieldAfter(catalog, r.db, r.table, r.field, r.target),
             "save")
  /\ UNCHANGED <<storeVars, doubled, catalogVars>>

SameColumn(fields, name) == SelectInSeq(fields, LAMBDA f : Column(f.name) = Column(name))

\* The fields of addTableFields in turn: new ones are appended, deleted ones
\* come back, and one of another type ends it.  "memory" is the table that the
\* server holds: a field comes back there as well, as long as no append has
\* moved the fields to an array of their own (which it may or may not do).
WithFields(table, fields, moves) ==
  FoldLeft(LAMBDA acc, f :
             LET at == SameColumn(acc.fields, f.name)
             IN  CASE acc.stop -> acc
                   [] ~acc.stop /\ at = 0 ->
                        [acc EXCEPT !.fields = Append(@, f), !.own = @ \/ moves]
                   [] ~acc.stop /\ at > 0 /\ acc.fields[at].type # f.type ->
                        [acc EXCEPT !.stop = TRUE]
                   [] OTHER ->
                        [acc EXCEPT !.fields[at].deleted = FALSE,
                                    !.memory = IF acc.own \/ at > Len(@) THEN @
                                               ELSE [@ EXCEPT ![at].deleted = FALSE]],
           [fields |-> table.fields, memory |-> table.fields, own |-> FALSE, stop |-> FALSE],
           fields)

CreateFields(r) ==
  /\ At(r, "createFields", "change") /\ CatalogFree
  /\ IF ~Known(catalog, r.db, r.table)
     THEN Answer(r, "invalid") /\ UNCHANGED <<catalog, tables, slipped, ahead>>
     ELSE \E moves \in BOOLEAN :
            LET table  == catalog[r.db][r.table]
                given  == WithFields(table, r.fields, moves)
                change == given.fields # table.fields
                slips  == given.memory # table.fields
            IN  /\ catalog' = WithTable(catalog, r.db, [table EXCEPT !.fields = given.memory])
                /\ slipped' = (slipped \/ slips)
                /\ ahead' = IF slips THEN ahead \cup {<<Key(r), r.id>>} ELSE ahead
                /\ IF given.stop THEN Answer(r, "invalid") /\ UNCHANGED tables
                   ELSE IF ~change
                   THEN Answer(r, "ok") /\ SetTable(Key(r), EnsureTable(Physical(Key(r)), table))
                   ELSE /\ Proceed(r, UpdateTable(catalog', r.db, [table EXCEPT !.fields = given.fields]), "save")
                        /\ UNCHANGED tables
  /\ UNCHANGED <<storeVars, doubled, file, touched>>

EnsureFields(r) ==
  /\ At(r, "createFields", "ensure")
  /\ SetTable(Key(r), EnsureTable(Physical(Key(r)), catalog[r.db][r.table]))
  /\ ahead' = ahead \ {<<Key(r), r.id>>}
  /\ Answer(r, "ok")
  /\ UNCHANGED <<storeVars, accessHistory, file, slipped, touched>>

-----------------------------------------------------------------------------
(* Row reads and edits on a snapshot of the catalog.                       *)

\* What a request for rows gets from a table.
Listing(r, d, t) ==
  RowsPageWithOptions(catalog[d][t], Actor(r.actor, d), TableResource(d, t),
                      Physical(<<d, t>>).rows, r.options)

QueryRows(r) ==
  /\ At(r, "queryRows", "start")
  /\ Answer(r, IF ~Known(catalog, r.db, r.table) \/ Listing(r, r.db, r.table) = Refused
               THEN "invalid" ELSE "ok")
  /\ UNCHANGED <<storeVars, doubled, catalogVars>>

\* The row is in the actor's row set, or the request is answered.
FoundRow(r, label, snapshot) ==
  LET found == RowInActorRowSet(snapshot, Actor(r.actor, r.db), TableResource(r.db, r.table),
                                Physical(Key(r)).rows, r.record)
  IN  CASE found = TRUE  -> Goto(r, label, [table |-> snapshot])
        [] found = FALSE -> Answer(r, "notFound")
        [] OTHER         -> Answer(r, "invalid")

AuthorizeRow(r) ==
  /\ At(r, "addRow", "start") \/ At(r, "editRow", "start")
  /\ LET actor == Actor(r.actor, r.db)
         res   == TableResource(r.db, r.table)
         bit   == IF r.op = "addRow" THEN FieldCreate ELSE FieldUpdate
     IN  IF ~Known(catalog, r.db, r.table) THEN Answer(r, "invalid")
         ELSE LET table   == catalog[r.db][r.table]
                  allowed == /\ \/ r.op = "editRow" \/ actor.owner
                                \/ CanCreateRecord(actor.grants, actor.sub, res)
                             /\ WritableFields(table, actor, res, r.values, bit)
                  valid   == /\ ValidEnumValues(table, r.values)
                             /\ NormalizeInputValues(table, r.values) # Refused
              IN  IF ~allowed THEN Answer(r, "forbidden")
                  ELSE IF ~valid THEN Answer(r, "invalid")
                  ELSE IF r.op = "addRow" THEN Goto(r, "insert", [table |-> table])
                  ELSE FoundRow(r, "row", table)
  /\ UNCHANGED <<storeVars, doubled, catalogVars>>

AuthorizeDelete(r) ==
  /\ At(r, "deleteRow", "start")
  /\ LET actor == Actor(r.actor, r.db)
     IN  IF ~Known(catalog, r.db, r.table) THEN Answer(r, "invalid")
         ELSE IF ~(actor.owner \/ CanDeleteRecord(actor.grants, actor.sub, TableResource(r.db, r.table)))
         THEN Answer(r, "forbidden")
         ELSE FoundRow(r, "delete", catalog[r.db][r.table])
  /\ UNCHANGED <<storeVars, doubled, catalogVars>>

DeleteTableRow(r) ==
  /\ At(r, "deleteRow", "delete")
  /\ SetTable(Key(r), [EnsureTable(Physical(Key(r)), held[r].table) EXCEPT
                         !.rows = @ \ RowWith(Physical(Key(r)), r.record)])
  /\ Answer(r, IF RowWith(Physical(Key(r)), r.record) = {} THEN "invalid" ELSE "ok")
  /\ UNCHANGED <<storeVars, accessHistory, file, catalogHistory>>

\* The values to write: all of the row that was read or inserted, with those
\* given, and the formulas of the snapshot.
Calculated(r, row, given) ==
  [table |-> held[r].table, record |-> row.id,
   values |-> CalculateFormulaValues(held[r].table, row.id, given @@ NamedValues(held[r].table, row))]

ReadRow(r) ==
  /\ At(r, "editRow", "row")
  /\ LET found == RowWith(Physical(Key(r)), r.record)
     IN  IF found = {} THEN Answer(r, "invalid")
         ELSE \E row \in found :
                Goto(r, "write", Calculated(r, row, NormalizeInputValues(held[r].table, r.values)))
  /\ UNCHANGED <<storeVars, doubled, catalogVars>>

AddRow(r) ==
  /\ At(r, "addRow", "insert")
  /\ LET id     == Physical(Key(r)).next
         values == NormalizeInputValues(held[r].table, r.values)
     IN  /\ SetTable(Key(r), InsertRow(Physical(Key(r)), held[r].table, values))
         /\ touched' = touched \cup {<<Key(r), id>>}
         /\ Goto(r, "write", Calculated(r, [id |-> id, values |-> Stored(values)], <<>>))
  /\ UNCHANGED <<storeVars, accessHistory, file, slipped, ahead>>

\* An update of no row is an error.
WriteTableRow(r) ==
  /\ At(r, "addRow", "write") \/ At(r, "editRow", "write")
  /\ SetTable(Key(r), UpdateRow(Physical(Key(r)), held[r].table, held[r].record, held[r].values))
  /\ touched' = touched \cup {<<Key(r), held[r].record>>}
  /\ Answer(r, IF RowWith(Physical(Key(r)), held[r].record) = {} THEN "invalid" ELSE "ok")
  /\ UNCHANGED <<storeVars, accessHistory, file, slipped, ahead>>

CatalogNext ==
  \E r \in due :
    \/ CreateDatabase(r) \/ OwnDatabase(r) \/ AuthorizeTable(r) \/ ChangeTables(r)
    \/ AuthorizePatch(r) \/ ChangeTable(r) \/ ReadRows(r) \/ SyncRow(r)
    \/ SaveCatalog(r) \/ AuthorizeFields(r) \/ MoveField(r) \/ CreateFields(r) \/ EnsureFields(r)
    \/ QueryRows(r) \/ AuthorizeRow(r) \/ ReadRow(r) \/ AddRow(r) \/ WriteTableRow(r)
    \/ AuthorizeDelete(r) \/ DeleteTableRow(r)
=============================================================================
