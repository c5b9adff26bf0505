------------------------------ MODULE Metadata ------------------------------
(***************************************************************************)
(* The catalog of databases, tables, fields and views, and the changes to  *)
(* it: src/internal/metadata/metadata.go.                                  *)
(*                                                                         *)
(* A catalog maps database names to maps from table names to tables; a     *)
(* table has a sequence of fields and a sequence of views.  The catalog    *)
(* operators return the next catalog, or Refused when the code returns an  *)
(* error.  The order of databases and tables, display names and the YAML   *)
(* text are left out.                                                      *)
(*                                                                         *)
(* A view query is a tree: a group of rules that are groups or leaves.     *)
(* What the code combines with "and" into one more group, the query of a   *)
(* view with those of its base views or of a request, is a set of queries  *)
(* here: a row is to meet each of them.                                    *)
(***************************************************************************)
EXTENDS Integers, Sequences, SequencesExt, FiniteSets

CONSTANTS
  Refused,   \* no catalog: an error
  Missing,   \* no value: a member that a patch leaves out, no query, no base view
  Reserved,  \* names with the prefix ct_
  Blank,     \* an option of spaces only
  Commas,    \* options that contain the separator
  MaxNesting \* bound: how deep groups nest in a query

ASSUME NestingAssumption == MaxNesting \in Nat

\* An error is no view, and neither yes nor no.
ASSUME RefusedAssumption ==
  Refused # [queries |-> {}, sorts |-> <<>>] /\ Refused \notin BOOLEAN

NoName == ""
RecordId == "ct_record_id"
AllView == "all"

StoredTypes == {"int", "float", "string"}
FieldTypes  == StoredTypes \cup {"formula", "relation", "file"}
Combinators == {"and", "or"}
Operators   == {"=", "!=", "<", "<=", ">", ">=", "contains", "beginsWith", "endsWith",
                "doesNotContain", "doesNotBeginWith", "doesNotEndWith", "null", "notNull"}

StorageType(field) ==
  CASE field.type = "formula" -> field.vtype
    [] field.type \in {"relation", "file"} -> "int"
    [] OTHER -> field.type

NoDuplicates(seq) == \A i, j \in DOMAIN seq : seq[i].name = seq[j].name => i = j

Named(seq, name) == {x \in ToSet(seq) : x.name = name}

ActiveFields(table) == {f \in ToSet(table.fields) : ~f.deleted}

\* The record id is a field of every table, and not a stored one.
RecordIdField == [name |-> RecordId, type |-> "int", vtype |-> NoName, formula |-> NoName,
                  options |-> <<>>, multiple |-> FALSE, relation |-> NoName, deleted |-> FALSE]
FieldOf(table, name) == IF name = RecordId THEN {RecordIdField} ELSE Named(table.fields, name)
ViewOf(table, name) == Named(table.views, name)

\* Fields and views of a table are sequences, databases and tables maps by name.
IsFields(fields) == fields \in Seq(ToSet(fields)) /\ \A f \in ToSet(fields) : DOMAIN f = DOMAIN RecordIdField
IsTable(table) ==
  /\ DOMAIN table = {"name", "fields", "views"}
  /\ IsFields(table.fields) /\ table.views \in Seq(ToSet(table.views))
IsCatalog(catalog) ==
  \A d \in DOMAIN catalog : \A t \in DOMAIN catalog[d] :
    IsTable(catalog[d][t]) /\ catalog[d][t].name = t

\* A function with a new value for x, and one over another one.
Put(f, x, y) == [z \in DOMAIN f \cup {x} |-> IF z = x THEN y ELSE f[z]]
Over(f, g) == [x \in DOMAIN f \cup DOMAIN g |-> IF x \in DOMAIN f THEN f[x] ELSE g[x]]

Known(catalog, d, t) == d \in DOMAIN catalog /\ t \in DOMAIN catalog[d]
WithTable(catalog, d, table) == [catalog EXCEPT ![d] = Put(@, table.name, table)]

-----------------------------------------------------------------------------
(* Queries and views.                                                      *)

IsGroup(rule) == rule.comb # NoName \/ rule.rules # <<>>
Group(comb, rules, not) == [comb |-> comb, rules |-> rules, not |-> not]

EmptyQuery(query) ==
  query = Missing \/ (query.comb = NoName /\ query.rules = <<>> /\ ~query.not)

\* The query that is there, if any.
Given(query) == IF query = Missing THEN {} ELSE {query}

AllEmpty(queries) == \A query \in queries : EmptyQuery(query)

CombineViewQueries(base, child) ==
  IF AllEmpty(base) THEN child ELSE IF AllEmpty(child) THEN base ELSE base \cup child

\* The rules of a query and of the groups in it.
Rules(query) ==
  LET within[n \in 0 .. MaxNesting] ==
        IF n = 0 THEN ToSet(query.rules)
        ELSE LET outer == within[n - 1]
             IN  outer \cup UNION {ToSet(rule.rules) : rule \in outer}
  IN  within[MaxNesting]

Groups(query) == {query} \cup {rule \in Rules(query) : IsGroup(rule)}
QueryLeaves(query) == {rule \in Rules(query) : ~IsGroup(rule)}

ValidQuery(table, query) ==
  query # Missing =>
    /\ \A group \in Groups(query) : EmptyQuery(group) \/ group.comb \in Combinators
    /\ \A leaf \in QueryLeaves(query) :
         /\ \E f \in FieldOf(table, leaf.field) : ~f.deleted
         /\ leaf.op \in Operators

\* A view filters and sorts on top of its base view.  Whoever comes to as many
\* views as there are and still has not come to the end goes round in a circle.
ResolveView(table, name) ==
  LET all == [queries |-> {}, sorts |-> <<>>]
      names == {AllView, name} \cup {w.base : w \in ToSet(table.views)}
      resolve[n \in 0 .. Len(table.views)] == [v \in names |->
        CASE v = AllView -> all
          [] v # AllView /\ (ViewOf(table, v) = {} \/ n = 0) -> Refused
          [] OTHER ->
               LET view == CHOOSE w \in ViewOf(table, v) : TRUE
                   base == IF view.base = NoName THEN all ELSE resolve[n - 1][view.base]
               IN  IF base = Refused THEN Refused
                   ELSE [queries |-> CombineViewQueries(base.queries, Given(view.query)),
                         sorts |-> base.sorts \o view.sorts]]
  IN  resolve[Len(table.views)][name]

ValidViews(table) ==
  /\ NoDuplicates(table.views)
  /\ \A view \in ToSet(table.views) :
       /\ view.name \notin {NoName, AllView}
       /\ ValidQuery(table, view.query)
       /\ \A i \in DOMAIN view.sorts :
            /\ \E f \in FieldOf(table, view.sorts[i].field) : ~f.deleted
            /\ view.sorts[i].direction \in {"asc", "desc"}
       /\ ResolveView(table, view.name) # Refused

-----------------------------------------------------------------------------
(* Valid catalogs.                                                         *)

ValidOptions(field) ==
  /\ IsInjective(field.options)
  /\ Blank \notin ToSet(field.options)
  /\ field.multiple => field.options # <<>> /\ ToSet(field.options) \cap Commas = {}

ValidField(field) ==
  /\ field.name \notin Reserved \cup {NoName}
  /\ field.type \in FieldTypes
  /\ (field.type = "relation") = (field.relation # NoName)
  /\ (field.type = "formula") = (field.formula # NoName)
  /\ IF field.type = "formula" THEN field.vtype \in StoredTypes ELSE field.vtype = NoName
  /\ field.options # <<>> => field.type = "string"
  /\ ValidOptions(field)

ValidTable(table) ==
  /\ table.name # NoName
  /\ NoDuplicates(table.fields)
  /\ \A field \in ToSet(table.fields) : ValidField(field)
  /\ ValidViews(table)

\* Relations, those of deleted fields too, lead to tables of the database.
Validate(catalog) ==
  \A d \in DOMAIN catalog :
    /\ d # NoName
    /\ \A t \in DOMAIN catalog[d] :
         /\ ValidTable(catalog[d][t])
         /\ \A f \in ToSet(catalog[d][t].fields) :
              f.type = "relation" => f.relation \in DOMAIN catalog[d]

\* Mutant of IfValid: a change is not validated.
Unvalidated(catalog) == catalog

IfValid(catalog) == IF Validate(catalog) THEN catalog ELSE Refused

-----------------------------------------------------------------------------
(* Changes.                                                                *)

AddDatabase(catalog, d) ==
  IF d = NoName \/ d \in DOMAIN catalog THEN Refused
  ELSE IfValid(Put(catalog, d, <<>>))

AddTable(catalog, d, table) ==
  IF table.name = NoName \/ d \notin DOMAIN catalog \/ Known(catalog, d, table.name) THEN Refused
  ELSE IfValid(WithTable(catalog, d, table))

\* Mutant of FieldTypesUnchanged: a formula may change the type of its values.
TypesUnchanged(existing, next) ==
  \A f \in ToSet(existing.fields), g \in ToSet(next.fields) : f.name = g.name => f.type = g.type

\* A field keeps its type, and a formula the type of its values.
FieldTypesUnchanged(existing, next) ==
  \A f \in ToSet(existing.fields), g \in ToSet(next.fields) :
    f.name = g.name => f.type = g.type /\ (g.type = "formula" => f.vtype = g.vtype)

UpdateTable(catalog, d, table) ==
  IF ~Known(catalog, d, table.name) \/ ~FieldTypesUnchanged(catalog[d][table.name], table)
  THEN Refused
  ELSE IfValid(WithTable(catalog, d, table))

\* Each field (or view) of a patch replaces the one of its name where that
\* is, or is appended.
MergeByName(existing, patch) ==
  FoldLeft(LAMBDA merged, x :
            IF Named(merged, x.name) = {} THEN Append(merged, x)
            ELSE ReplaceAt(merged, SelectInSeq(merged, LAMBDA y : y.name = x.name), x),
          existing, patch)

MergeTable(catalog, d, t, patch) ==
  IF ~Known(catalog, d, t) \/ patch.name # t THEN Refused
  ELSE LET old == catalog[d][t]
       IN  UpdateTable(catalog, d,
             [old EXCEPT
                !.fields = IF patch.fields = Missing THEN @ ELSE MergeByName(@, patch.fields),
                !.views  = IF patch.views = Missing THEN @ ELSE MergeByName(@, patch.views)])

PlaceOf(fields, name) == SelectInSeq(fields, LAMBDA f : f.name = name)

\* Where in the other fields the field goes, or 0.
Destination(rest, side, target) ==
  CASE side = "start"  -> 1
    [] side = "before" -> PlaceOf(rest, target)
    [] side = "after"  -> IF PlaceOf(rest, target) > 0 THEN PlaceOf(rest, target) + 1 ELSE 0

\* The field is taken out and put in at a place of the rest.
Moved(catalog, d, t, name, side, target) ==
  IF ~Known(catalog, d, t) \/ name = NoName \/ PlaceOf(catalog[d][t].fields, name) = 0
  THEN Refused
  ELSE LET old  == catalog[d][t]
           from == PlaceOf(old.fields, name)
           rest == RemoveAt(old.fields, from)
           to   == Destination(rest, side, target)
       IN  IF to = 0 THEN Refused
           ELSE UpdateTable(catalog, d, [old EXCEPT !.fields = InsertAt(rest, to, old.fields[from])])

MoveFieldToStart(catalog, d, t, name) == Moved(catalog, d, t, name, "start", name)

MoveFieldRelative(catalog, d, t, name, target, side) ==
  IF name = target THEN Refused ELSE Moved(catalog, d, t, name, side, target)

MoveFieldBefore(catalog, d, t, name, target) ==
  MoveFieldRelative(catalog, d, t, name, target, "before")
MoveFieldAfter(catalog, d, t, name, target) ==
  MoveFieldRelative(catalog, d, t, name, target, "after")
=============================================================================
