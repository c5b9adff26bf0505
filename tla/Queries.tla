------------------------------ MODULE Queries ------------------------------
(***************************************************************************)
(* Reading and writing the rows of a table as an actor may: the queries    *)
(* of src/internal/recorddb/repository.go and the checks and conversions   *)
(* of src/internal/table/table.go.                                         *)
(*                                                                         *)
(* A value is Null, a <<"number", n>>, a <<"fraction", n>> strictly        *)
(* between n and n + 1, or a <<"text", s>>.  What SQLite and strconv make  *)
(* of a text is given by constants.  A stored row has an id and values by  *)
(* column.  An actor is a subject with its effective grants, whether it    *)
(* owns the database, and what $current_user stands for.                   *)
(***************************************************************************)
EXTENDS Metadata, Permissions, TLC

CONSTANTS
  CurrentUser,       \* the text $current_user
  Column(_),         \* the column of a name: names that differ in case share it
  ParseNumber(_),    \* the number that a text spells, or BadValue
  Like(_, _, _),     \* operator, text of a value, pattern
  TextBefore(_, _),
  Evaluate(_, _, _), \* a formula on a record id and values: a value or BadValue
  SelectedOptions(_),\* the options that a text spells
  BadValue

Null == <<>>
Number(n) == <<"number", n>>
Text(s)   == <<"text", s>>
IsText(v) == v # Null /\ v[1] = "text"

\* Numbers and fractions on one scale.
Place(v) == 2 * v[2] + (IF v[1] = "fraction" THEN 1 ELSE 0)

\* SQLite's order: null, numbers, texts.
Less(v, w) ==
  CASE v = Null \/ w = Null -> v = Null /\ w # Null
    [] IsText(v) # IsText(w) -> IsText(w)
    [] IsText(v) -> TextBefore(v[2], w[2])
    [] OTHER -> Place(v) < Place(w)

ValueOf(row, name) ==
  IF name = RecordId THEN Number(row.id)
  ELSE IF Column(name) \in DOMAIN row.values THEN row.values[Column(name)] ELSE Null

-----------------------------------------------------------------------------
(* Queries: what compiles, and which rows a condition selects.             *)

\* fmt.Sprint of a value.
AsText(v) == IF v = Null THEN Text("<nil>") ELSE IF IsText(v) THEN v ELSE Text(ToString(v[2]))

\* The number that a value is or spells.
NumberOf(v) == IF IsText(v) THEN ParseNumber(v[2]) ELSE v
IsFraction(v) == v # BadValue /\ v[1] = "fraction"

\* What a query compares with; int64 of a float cuts the fraction off.
QueryValue(field, value) ==
  LET n == NumberOf(value)
  IN  CASE StorageType(field) = "string" -> AsText(value)
        [] StorageType(field) # "string" /\ value = Null -> BadValue
        [] StorageType(field) = "int" /\ value # Null /\ IsFraction(n) ->
             IF IsText(value) THEN BadValue ELSE Number(n[2])
        [] OTHER -> n

Comparisons == {"=", "!=", "<", "<=", ">", ">="}
Negations == [doesNotContain |-> "contains", doesNotBeginWith |-> "beginsWith",
              doesNotEndWith |-> "endsWith"]

\* A condition with the actor's identity for $current_user.
SubstituteQueryVariables(leaf, identity) ==
  [leaf EXCEPT !.value = IF @ = CurrentUser THEN identity ELSE @]

LeafCompiles(table, leaf) ==
  /\ leaf.op \in Operators
  /\ \E f \in FieldOf(table, leaf.field) :
       ~f.deleted /\ (leaf.op \in Comparisons => QueryValue(f, leaf.value) # BadValue)

Compiles(table, query, identity) ==
  /\ \A group \in Groups(query) : group.rules = <<>> \/ group.comb \in Combinators
  /\ \A leaf \in QueryLeaves(query) : LeafCompiles(table, SubstituteQueryVariables(leaf, identity))

\* Combined with another, a query with neither a combinator nor rules is taken
\* for a condition on no field.
CanRun(table, queries, identity) ==
  \A query \in queries :
    Compiles(table, query, identity) /\ (queries = {query} \/ IsGroup(query))

\* The truth of a comparison with null is unknown, its negation too.
Compared(op, v, w) ==
  CASE v = Null \/ w = Null -> "unknown"
    [] op = "="  -> IF v = w THEN "true" ELSE "false"
    [] op = "!=" -> IF v # w THEN "true" ELSE "false"
    [] op = "<"  -> IF Less(v, w) THEN "true" ELSE "false"
    [] op = "<=" -> IF Less(w, v) THEN "false" ELSE "true"
    [] op = ">"  -> IF Less(w, v) THEN "true" ELSE "false"
    [] op = ">=" -> IF Less(v, w) THEN "false" ELSE "true"

IsBlank(v) == v = Null \/ (IsText(v) /\ v[2] \in {NoName, Blank})

LeafTruth(table, row, leaf) ==
  LET v == ValueOf(row, leaf.field)
      f == CHOOSE g \in FieldOf(table, leaf.field) : TRUE
  IN  CASE leaf.op \in Comparisons -> Compared(leaf.op, v, QueryValue(f, leaf.value))
        [] leaf.op = "null"    -> IF IsBlank(v) THEN "true" ELSE "false"
        [] leaf.op = "notNull" -> IF IsBlank(v) THEN "false" ELSE "true"
        [] leaf.op \in DOMAIN Negations ->
             IF v # Null /\ Like(Negations[leaf.op], v, leaf.value) THEN "false" ELSE "true"
        [] OTHER -> IF v = Null THEN "unknown"
                    ELSE IF Like(leaf.op, v, leaf.value) THEN "true" ELSE "false"

\* Groups without a condition in them are left out.
Restricts(rule) == IsGroup(rule) => QueryLeaves(rule) # {}
Parts(query) == {rule \in ToSet(query.rules) : Restricts(rule)}

\* "or" and "and" stop at a part that decides; NOT turns the whole group.
Truth(table, row, query, identity) ==
  LET truth[rule \in {query} \cup Rules(query)] ==
        IF ~IsGroup(rule) THEN LeafTruth(table, row, SubstituteQueryVariables(rule, identity))
        ELSE LET parts   == {truth[part] : part \in Parts(rule)}
                 decides == IF rule.comb = "and" THEN "false" ELSE "true"
                 other   == IF rule.comb = "and" THEN "true" ELSE "false"
                 value   == IF decides \in parts THEN decides
                            ELSE IF "unknown" \in parts THEN "unknown" ELSE other
             IN  IF ~rule.not \/ value = "unknown" THEN value
                 ELSE IF value = "true" THEN "false" ELSE "true"
  IN  truth[query]

Selects(table, queries, identity, row) ==
  \A query \in queries : Parts(query) = {} \/ Truth(table, row, query, identity) = "true"

Selected(table, queries, identity, rows) ==
  {row \in rows : Selects(table, queries, identity, row)}

\* By the sorts in turn, and then by record id.
Before(a, b, sorts) ==
  LET keys == Append(sorts, [field |-> RecordId, direction |-> "asc"])
      Key(row, k) == ValueOf(row, keys[k].field)
  IN  \E k \in DOMAIN keys :
        /\ \A j \in 1 .. k - 1 : Key(a, j) = Key(b, j)
        /\ IF keys[k].direction = "asc" THEN Less(Key(a, k), Key(b, k))
           ELSE Less(Key(b, k), Key(a, k))

\* The rows whose place in that order is on the page.  A limit of zero is none,
\* and takes the offset with it.
Page(rows, resolved) ==
  {row \in rows :
     \/ resolved.limit = 0
     \/ Cardinality({other \in rows : Before(other, row, resolved.sorts)})
          \in resolved.offset .. resolved.offset + resolved.limit - 1}

RowsOf(table, identity, rows, resolved) ==
  Page(Selected(table, resolved.queries, identity, rows), resolved)

\* What a row of the table is to its readers: a value for each active field.
MapToRow(table, row) ==
  [id |-> row.id, values |-> [n \in {f.name : f \in ActiveFields(table)} |-> ValueOf(row, n)]]

-----------------------------------------------------------------------------
(* What an actor may list.                                                 *)

MayReadField(actor, res, name) == actor.owner \/ CanReadField(actor.grants, actor.sub, res, name)

\* System columns need no grant.
ViewFieldsReadable(actor, res, queries, sorts) ==
  \A name \in {leaf.field : leaf \in UNION {QueryLeaves(q) : q \in queries}}
               \cup {s.field : s \in ToSet(sorts)} :
    name \in Reserved \/ CanReadField(actor.grants, actor.sub, res, name)

\* Texts of relations and files would be ids.
Searchable(actor, res, table) ==
  {f \in ActiveFields(table) : f.type \notin {"relation", "file"} /\ MayReadField(actor, res, f.name)}

Leaf(field, op, value) ==
  [comb |-> NoName, rules |-> <<>>, not |-> FALSE, field |-> field, op |-> op, value |-> value]

SearchViewQuery(fields, term) ==
  Group("or", SetToSeq({Leaf(f.name, "contains", term) : f \in fields}), FALSE)

ValidSorts(table, sorts) ==
  \A s \in ToSet(sorts) : /\ \E f \in FieldOf(table, s.field) : ~f.deleted
                          /\ s.direction \in {"asc", "desc"}

\* Mutant of CombineRuntimeQueries: the query of a request stands for that of the view.
RequestedQuery(left, right) == IF right = {} THEN left ELSE right

\* A request narrows its view.
CombineRuntimeQueries(left, right) == left \cup right

\* Every read goes through a view.
ViewName(options) == IF options.view = NoName THEN AllView ELSE options.view

\* The actor may read the view, and what it and the request filter and sort on.
MayList(table, actor, res, options) ==
  LET view == ResolveView(table, ViewName(options))
  IN  /\ view # Refused
      /\ \/ actor.owner
         \/ /\ CanReadView(actor.grants, actor.sub, res, ViewName(options))
            /\ ViewFieldsReadable(actor, res, view.queries, view.sorts)
            /\ ViewFieldsReadable(actor, res, Given(options.query), options.sorts)
      /\ ValidSorts(table, options.sorts)
      /\ options.limit >= 0 /\ options.offset >= 0
      /\ options.limit = 0 => options.offset = 0

\* The view that a read resolves to, with the query, the search, the sorts and
\* the limits of the request.
ResolveRowListOptions(table, actor, res, options) ==
  LET view == ResolveView(table, ViewName(options))
      found == Searchable(actor, res, table)
  IN  IF ~MayList(table, actor, res, options) THEN Refused
      ELSE [queries |-> LET asked == CombineRuntimeQueries(view.queries, Given(options.query))
                        IN  IF options.search = Null \/ found = {} THEN asked
                            ELSE CombineRuntimeQueries(asked, {SearchViewQuery(found, options.search)}),
            empty   |-> options.search # Null /\ found = {},
            sorts   |-> IF options.sorts = <<>> THEN view.sorts ELSE options.sorts,
            limit   |-> options.limit,
            offset  |-> options.offset]

FilterReadableValues(actor, res, row) ==
  [row EXCEPT !.values = [n \in {m \in DOMAIN @ : MayReadField(actor, res, m)} |-> @[n]]]

\* The rows of a page with the total of all pages.
RowsPageWithOptions(table, actor, res, rows, options) ==
  LET resolved == ResolveRowListOptions(table, actor, res, options)
  IN  IF resolved = Refused THEN Refused
      ELSE IF resolved.empty THEN [rows |-> {}, total |-> 0]
      ELSE IF ~CanRun(table, resolved.queries, actor.identity) THEN Refused
      ELSE [rows  |-> {FilterReadableValues(actor, res, MapToRow(table, row)) :
                         row \in RowsOf(table, actor.identity, rows, resolved)},
            total |-> Cardinality(Selected(table, resolved.queries, actor.identity, rows))]

RecordExists(table, rows, id, queries, identity) ==
  LET membership == Group("and", <<Leaf(RecordId, "=", Number(id))>>, FALSE)
  IN  IF CanRun(table, queries \cup {membership}, identity)
      THEN \E row \in Selected(table, queries, identity, rows) : row.id = id
      ELSE Refused

\* Views in order, "all" first; a view that may not be read, does not resolve
\* or filters on a field that may not be read is passed over, and one that
\* does not compile ends the search with an error.
RowInActorRowSet(table, actor, res, rows, id) ==
  LET names == <<AllView>> \o [i \in DOMAIN table.views |-> table.views[i].name]
      Applies(n) == LET view == ResolveView(table, n)
                    IN  /\ CanReadView(actor.grants, actor.sub, res, n)
                        /\ view # Refused
                        /\ ViewFieldsReadable(actor, res, view.queries, <<>>)
      Found(n) == RecordExists(table, rows, id, ResolveView(table, n).queries, actor.identity)
      stop == {i \in DOMAIN names : Applies(names[i]) /\ (names[i] = AllView \/ Found(names[i]) # FALSE)}
  IN  IF actor.owner THEN TRUE
      ELSE IF stop = {} THEN FALSE ELSE Found(names[Min(stop)])

-----------------------------------------------------------------------------
(* What an actor may write, and what is stored.                            *)

\* The values are given by field name; the bit is the one that creating or
\* updating takes.
WritableFields(table, actor, res, values, bit) ==
  \A name \in DOMAIN values :
    /\ name \notin Reserved
    /\ \E f \in FieldOf(table, name) :
         /\ ~f.deleted /\ f.type # "formula"
         /\ actor.owner \/ bit \in FieldBits(actor.grants, actor.sub, res, name)

\* A text of a field with several options spells out the options selected.
ValidEnumValues(table, values) ==
  \A name \in DOMAIN values : \A f \in FieldOf(table, name) :
    (/\ f.type = "string" /\ f.options # <<>>
     /\ values[name] # Null /\ values[name] # Text(NoName)) =>
      IF f.multiple
      THEN /\ ToSet(SelectedOptions(values[name])) \subseteq ToSet(f.options)
           /\ IsInjective(SelectedOptions(values[name]))
      ELSE AsText(values[name])[2] \in ToSet(f.options)

\* A blank text is no number, and an int has no fraction.
NormalizeFieldValue(field, value) ==
  CASE StorageType(field) = "string" -> IF value = Null THEN Null ELSE AsText(value)
    [] StorageType(field) # "string" /\ IsBlank(value) -> Null
    [] StorageType(field) = "int" /\ ~IsBlank(value) /\ IsFraction(NumberOf(value)) -> BadValue
    [] OTHER -> NumberOf(value)

NormalizeInputValues(table, values) ==
  LET next == [name \in DOMAIN values |->
                 NormalizeFieldValue(CHOOSE f \in FieldOf(table, name) : TRUE, values[name])]
  IN  IF \E name \in DOMAIN next : next[name] = BadValue THEN Refused ELSE next

\* Formulas in the order of the fields, each on the values of those before;
\* one that fails is cleared.
CalculateFormulaValues(table, id, values) ==
  FoldLeft(LAMBDA next, f :
             LET value == Evaluate(f.formula, id, next)
                 kept  == IF value = BadValue THEN Null ELSE NormalizeFieldValue(f, value)
             IN  [n \in DOMAIN next \cup {f.name} |->
                    IF n # f.name THEN next[n] ELSE IF kept = BadValue THEN Null ELSE kept],
           values,
           SelectSeq(table.fields, LAMBDA f : ~f.deleted /\ f.type = "formula"))
=============================================================================
