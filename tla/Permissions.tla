----------------------------- MODULE Permissions -----------------------------
(***************************************************************************)
(* What a set of grants lets a subject do: Set of                          *)
(* src/internal/permission/permission.go and tableResource of              *)
(* src/internal/api/authorization.go.                                      *)
(*                                                                         *)
(* A grant gives a subject a level on a resource.  A resource is a         *)
(* sequence: <<database, table>> for fields, views, records and files,     *)
(* <<database>> for all its workflows or forms, <<id>> for one of them.    *)
(* Grants on fields are bitmasks of reading, updating and creating; the    *)
(* other levels are ordered.                                               *)
(***************************************************************************)
EXTENDS Integers, FiniteSetsExt

None == 0
Read == 1
Write == 2

FieldRead == 1
FieldUpdate == 2
FieldCreate == 4
FieldAll == 7

FieldScopes  == {"field_set", "field"}
TableScopes  == FieldScopes \cup {"record", "view_set", "view", "file", "field_add", "field_modify"}
SetScopes    == {"workflow_set", "form_set"}
ItemScopes   == {"workflow", "form"}

\* The scope that covers all items of a scope, and the scope of its items.
SetOf(scope) == CASE scope = "field" -> "field_set" [] scope = "view" -> "view_set"
                  [] scope = "workflow" -> "workflow_set" [] scope = "form" -> "form_set"
ExclusiveScopes == {"field", "view", "workflow", "form"}

TableResource(d, t) == <<d, t>>

\* The bits of a field level, and the union of levels as bits.
Bits(level) == {b \in {FieldRead, FieldUpdate, FieldCreate} : (level \div b) % 2 = 1}

LevelOf(bits) == SumSet(bits)

Of(grants, sub, res) == {g \in grants : g.sub = sub /\ g.res = res}

\* The bits of the whole table and those of the field add up.
FieldBits(grants, sub, res, field) ==
  UNION {Bits(g.level) : g \in {h \in Of(grants, sub, res) :
           h.scope = "field_set" \/ (h.scope = "field" /\ h.item = field)}}

Highest(grants) == Max({None} \cup {g.level : g \in grants})

ViewLevel(grants, sub, res, view) ==
  Highest({g \in Of(grants, sub, res) :
             g.scope = "view_set" \/ (g.scope = "view" /\ g.item = view)})

RecordLevel(grants, sub, res, action) ==
  Highest({g \in Of(grants, sub, res) : g.scope = "record" /\ g.item = action})

ResourceLevel(grants, sub, scope, res) ==
  Highest({g \in Of(grants, sub, res) : g.scope = scope})

CanReadField(grants, sub, res, field) == FieldRead \in FieldBits(grants, sub, res, field)

CanAddFields(grants, sub, res) == ResourceLevel(grants, sub, "field_add", res) >= Write

CanModifyField(grants, sub, res, field) ==
  \E g \in Of(grants, sub, res) :
    g.scope = "field_modify" /\ g.item = field /\ g.level >= Write

CanReadView(grants, sub, res, view) == ViewLevel(grants, sub, res, view) >= Read

CanCreateRecord(grants, sub, res) == RecordLevel(grants, sub, res, "create") >= Write
CanDeleteRecord(grants, sub, res) == RecordLevel(grants, sub, res, "delete") >= Write

CanReadResource(grants, sub, scope, res)  == ResourceLevel(grants, sub, scope, res) >= Read
CanWriteResource(grants, sub, scope, res) == ResourceLevel(grants, sub, scope, res) >= Write
=============================================================================
