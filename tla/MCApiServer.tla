---------------------------- MODULE MCApiServer ----------------------------
(***************************************************************************)
(* The instance of ApiServer that TLC checks: one database with a table of *)
(* three fields and two views, an owner and a user with some grants, and   *)
(* scenarios of two to seven requests.                                     *)
(***************************************************************************)
EXTENDS ApiServer

Ann == UserSubject("u1")
Bob == UserSubject("u2")
Cat == UserSubject("u3")
T   == <<"db", "t">>

Grant(sub, scope, res, item, level) ==
  [sub |-> sub, scope |-> scope, res |-> res, item |-> item, level |-> level]

MCUsers   == {[id |-> "u1", email |-> "ann", password |-> "p"],
              [id |-> "u2", email |-> "bob", password |-> Nothing],
              [id |-> "u3", email |-> "cat", password |-> Nothing]}
MCOwners  == {<<"db", Ann>>}
MCRoles   == {[id |-> "r1", db |-> "db", name |-> "team"]}
MCMembers == {[db |-> "db", role |-> "team", type |-> "user", sub |-> Bob]}
MCGrants  ==
  {Grant(Bob, "field_set", T, NoName, FieldRead + FieldUpdate),
   Grant(Bob, "view", T, "mine", Read), Grant(Bob, "view", T, "grown", Read),
   Grant(Bob, "field_add", T, NoName, Write), Grant(Bob, "field_modify", T, "age", Write),
   Grant(Bob, "record", T, "delete", Write)}

MCWorkflowIds == <<"w1", "w2", "w3">>
MCFormIds     == <<"f1", "f2">>
MCRoleIds     == <<"r1", "r2", "r3">>

-----------------------------------------------------------------------------
(* The table.  Its texts are names, a formula spells what it computes.     *)

MCColumn(name) == CASE name = "Age" -> "age" [] name = "Note" -> "note" [] OTHER -> name
MCParseNumber(s) == IF s = "7" THEN Number(7) ELSE BadValue
MCLike(op, v, w) == AsText(v) = AsText(w)
MCTextBefore(s, t) == <<s, t>> \in {<<"ann", "bob">>, <<"ann", "cat">>, <<"bob", "cat">>}
MCEvaluate(formula, id, values) ==
  CASE formula = "id" -> Number(id)
    [] formula = "next" -> IF "age" \in DOMAIN values /\ values["age"] # Null /\ ~IsText(values["age"])
                           THEN Number(values["age"][2] + 1) ELSE BadValue
    [] OTHER -> Text("none")
MCSelectedOptions(value) == <<value[2]>>
MCSegment(name) == IF name = "a b" THEN "a-b" ELSE name
MCTrigger(script) == IF script = "hook" THEN [node |-> "webhook", instance |-> "in"] ELSE Nothing
MCCurrentUser == Text("$current_user")

Field(name, type) ==
  [name |-> name, type |-> type, vtype |-> NoName, formula |-> NoName, options |-> <<>>,
   multiple |-> FALSE, relation |-> NoName, deleted |-> FALSE]
Formula(name, formula) == [Field(name, "formula") EXCEPT !.vtype = "int", !.formula = formula]
View(name, query, sorts) == [name |-> name, base |-> NoName, query |-> query, sorts |-> sorts]

Owned == Group("and", <<Leaf("who", "=", MCCurrentUser)>>, FALSE)
Grown == Group("and", <<Leaf("age", ">", Number(1))>>, FALSE)
Old   == Group("and", <<Leaf("age", ">=", Text("7"))>>, FALSE)

MCTable ==
  [name |-> "t",
   fields |-> <<Field("who", "string"), Field("age", "int"), Formula("sum", "next")>>,
   views |-> <<View("mine", Owned, <<[field |-> "age", direction |-> "desc"]>>),
               [View("grown", Old, <<>>) EXCEPT !.base = "mine"]>>]
MCCatalog == ("db" :> ("t" :> MCTable))

Values(who, age) == ("who" :> Text(who)) @@ ("age" :> Number(age)) @@ ("sum" :> Number(age + 1))
MCTables ==
  (T :> [columns |-> ("who" :> "string") @@ ("age" :> "int") @@ ("sum" :> "int"),
         rows |-> {[id |-> 1, values |-> Values("bob", 7)], [id |-> 2, values |-> Values("ann", 5)]},
         next |-> 3])

-----------------------------------------------------------------------------
(* Requests.                                                               *)

Ask(id, op, after) == [id |-> id, op |-> op, after |-> after]
As(actor) == [actor |-> actor]
On(actor) == [actor |-> actor, db |-> "db"]
OnTable(actor) == [actor |-> actor, db |-> "db", table |-> "t"]

SignUp(id, email) ==
  Ask(id, "register", {}) @@ [browser |-> "b1", email |-> email, password |-> "p", valid |-> TRUE]
SignIn(id, browser, after) ==
  Ask(id, "signIn", after) @@ [browser |-> browser, email |-> "ann", password |-> "p"]
Oidc(id, provider, email) ==
  Ask(id, "oidcLogin", {}) @@ [browser |-> "b2", provider |-> provider, email |-> email, verified |-> TRUE]
Browse(id, op, after) == Ask(id, op, after) @@ [browser |-> "b1"]

Give(id, grant, after) == Ask(id, "saveGrant", after) @@ [actor |-> Ann, grant |-> grant]
RoleRequest(id, op, after) == Ask(id, op, after) @@ On(Ann)

Patch(fields, views) == [name |-> "t", fields |-> fields, views |-> views]
Update(id, actor, patch, after) == Ask(id, "updateTable", after) @@ OnTable(actor) @@ [patch |-> patch]
Fields(id, actor, fields) == Ask(id, "createFields", {}) @@ OnTable(actor) @@ [fields |-> fields]
Edit(id, record, values) ==
  Ask(id, "editRow", {}) @@ OnTable(Bob) @@ [record |-> record, values |-> values]
Query(id, view, query, search) ==
  Ask(id, "queryRows", {}) @@ OnTable(Bob) @@
  [options |-> [view |-> view, query |-> query, sorts |-> <<>>, limit |-> 0, offset |-> 0,
                search |-> search]]

Row(name, script) ==
  [db |-> "db", name |-> name, creator |-> Nothing, enabled |-> TRUE, secrets |-> <<>>,
   token |-> Nothing, script |-> script, at |-> 0]
Save(id, kind, item, row, after) ==
  Ask(id, "saveScript", after) @@ As(Ann) @@ [kind |-> kind, item |-> item, row |-> row, valid |-> TRUE]
OnScript(id, op, actor, item, after) == Ask(id, op, after) @@ As(actor) @@ [item |-> item]

Pull(id, force, after) == Ask(id, "pull", after) @@ As(Ann) @@ [force |-> force, databases |-> Missing]
Push(id, force, dry, after) == Ask(id, "push", after) @@ As(Ann) @@ [force |-> force, dry |-> dry]
Change(id, path, script, after) == Ask(id, "edit", after) @@ [path |-> path, script |-> script]
PathX == <<"workflow", "db", "x">>
PathY == <<"workflow", "db", "y">>

-----------------------------------------------------------------------------
(* Scenarios.                                                              *)

Renamed3 == [MCTable.fields[3] EXCEPT !.formula = "id"]
Dropped  == [MCTable.fields[2] EXCEPT !.deleted = TRUE]
Retyped  == [MCTable.fields[3] EXCEPT !.vtype = "string"]
Widened  == [MCTable.views[1] EXCEPT !.query = Missing, !.sorts = <<>>]
Loosened == [MCTable.views[2] EXCEPT !.query = Missing]

SignInScenarios ==
  {{SignUp("q1", "eve"), SignUp("q2", "eve"), Oidc("q3", "o", "bob"),
    [SignUp("q4", "dan") EXCEPT !.valid = FALSE]},
   {SignIn("q1", "b1", {}), Oidc("q2", "o", "ann"), Browse("q3", "me", {"q1"}),
    Browse("q4", "logout", {"q1"}), Browse("q5", "me", {"q4"}), Oidc("q6", "none", "ann")},
   {SignIn("q1", "b1", {}), Ask("q2", "cliLogin", {"q1"}), Ask("q3", "cliLogin", {"q1"})},
   {SignIn("q1", "b1", {}), Ask("q2", "cliLogin", {"q1"}),
    Ask("q3", "cliTokenAgain", {"q1"}) @@ [login |-> "q2"], Ask("q4", "cliLogout", {"q2"})}}

GrantScenarios ==
  {{Give("q1", Grant(Bob, "field", T, "age", FieldUpdate), {}),
    Give("q2", Grant(Bob, "field_set", T, NoName, FieldAll), {}),
    Give("q3", Grant(Bob, "view_set", T, NoName, Read), {})},
   {Save("q1", "workflow", Nothing, Row("x", "s1"), {}),
    Give("q2", Grant(Cat, "workflow", <<"w1">>, NoName, Read), {"q1"}),
    Give("q3", Grant(Cat, "workflow_set", <<"db">>, NoName, Read), {"q1"}),
    OnScript("q4", "deleteScript", Ann, "w1", {"q1"}),
    OnScript("q5", "getScript", Cat, "w1", {"q1"})},
   {Save("q1", "workflow", Nothing, Row("x", "s1"), {}),
    Give("q2", Grant(Cat, "workflow", <<"w1">>, NoName, Read), {"q1"}),
    Save("q3", "workflow", "w1", Row("x", "s2"), {"q2"}),
    OnScript("q4", "deleteScript", Ann, "w1", {"q2"}),
    Give("q5", Grant(Cat, "workflow_set", <<"db">>, NoName, Read), {"q2"})},
   {RoleRequest("q1", "saveRole", {}) @@ [as |-> [id |-> Nothing, db |-> "db", name |-> "crew"]],
    RoleRequest("q2", "saveRole", {}) @@ [as |-> [id |-> "r1", db |-> "db", name |-> "crew"]],
    RoleRequest("q3", "roleGrants", {}) @@
      [role |-> "crew", grants |-> {Grant(NoSubject, "view_set", T, NoName, Read),
                                    Grant(NoSubject, "workflow_set", <<"db">>, NoName, Read)}],
    RoleRequest("q4", "roleMembers", {}) @@ [role |-> "crew", members |-> {Bob}],
    RoleRequest("q5", "listRoles", {})}}

CatalogScenarios ==
  {{Update("q1", Ann, Patch(<<Renamed3>>, Missing), {}), Edit("q2", 1, "age" :> Text("7")),
    Edit("q3", 2, "age" :> Number(1)), Query("q4", "mine", Grown, Null),
    [Query("q5", "grown", Old, Text("bob")) EXCEPT !.options.limit = 1]},
   {Update("q1", Bob, Patch(<<Dropped>>, Missing), {}),
    Update("q2", Ann, Patch(<<Dropped, Field("Age", "string")>>, <<Widened, Loosened>>), {}),
    Fields("q3", Bob, <<Field("age", "int"), Field("size", "int")>>),
    Fields("q4", Bob, <<Field("age", "int"), Field("who", "int")>>)},
   {Update("q1", Bob, Patch(<<Formula("g", "id")>>, Missing), {}), Update("q2", Ann, Patch(<<Retyped>>, Missing), {}),
    Fields("q3", Bob, <<Formula("f", "id")>>), Fields("q4", Bob, <<Field("size", "string")>>),
    Update("q5", Ann, Patch(<<Field("size", "int")>>, MCTable.views), {})},
   {Ask("q1", "createDatabase", {}) @@ [actor |-> Bob, db |-> "new"],
    Ask("q2", "addTable", {"q1"}) @@ [actor |-> Bob, db |-> "new", table |-> MCTable],
    Ask("q3", "moveField", {}) @@ OnTable(Bob) @@ [field |-> "who", to |-> "after", target |-> "age"],
    Ask("q4", "deleteRow", {}) @@ OnTable(Bob) @@ [record |-> 1],
    Ask("q5", "addRow", {}) @@ OnTable(Ann) @@ [values |-> "age" :> Number(3)],
    Update("q6", Ann, Patch(<<Field("note", "string"), Field("Note", "int")>>, Missing), {})},
   {Update("q1", Ann, Patch(<<Dropped>>, <<Widened, Loosened>>), {}),
    Update("q2", Ann, Patch(Missing, MCTable.views), {})}}

ScriptScenarios ==
  {{Save("q1", "workflow", Nothing, Row("x", "s1"), {}),
    Save("q2", "workflow", "w1", Row("y", "s2"), {"q1"}),
    Save("q3", "workflow", Nothing, Row("x", "s3"), {"q1"}),
    OnScript("q4", "deleteScript", Ann, "w1", {"q2"})},
   {Save("q1", "workflow", Nothing, Row("a b", "s1"), {}),
    Save("q2", "workflow", Nothing, Row("a-b", "s2"), {}),
    Save("q3", "workflow", "w1", Row("a-b", "s1"), {"q1"}),
    Save("q4", "workflow", Nothing, Row(" ", "s4"), {})},
   {Save("q1", "workflow", Nothing, Row("a b", "s1"), {}),
    Save("q2", "workflow", "w1", Row("c", "s2"), {"q1"}),
    Save("q3", "workflow", "w1", Row(" ", "s1"), {"q1"}),
    Save("q4", "workflow", Nothing, Row("a-b", "s4"), {"q1"})},
   {Save("q1", "form", Nothing, Row("x", "s1"), {}),
    OnScript("q2", "publish", Ann, "f1", {"q1"}), OnScript("q3", "unpublish", Ann, "f1", {"q1"}),
    Save("q4", "form", "f1", Row("x", "s2"), {"q1"}),
    Ask("q5", "publishedForm", {"q2"}) @@ As(Ann) @@ [token |-> "q2"]},
   {Save("q1", "workflow", Nothing, [Row("x", "hook") EXCEPT !.secrets = "in" :> "key"], {}),
    Ask("q2", "webhook", {"q1"}) @@ [db |-> "db", item |-> "w1", token |-> "key"],
    Save("q3", "workflow", "w1", [Row("x", "s2") EXCEPT !.enabled = FALSE], {"q1"})}}

SyncScenarios ==
  {{Save("q1", "workflow", Nothing, Row("x", "s1"), {}), Pull("q2", FALSE, {"q1"}),
    Change("q3", PathX, "mine", {"q2"}), Push("q4", FALSE, FALSE, {"q2", "q3"}),
    Save("q5", "workflow", "w1", Row("x", "s2"), {"q1"}), Pull("q6", FALSE, {"q2", "q3", "q4"})},
   {Save("q1", "workflow", Nothing, Row("x", "s1"), {}), Change("q2", PathX, "mine", {}),
    Change("q3", PathY, "new", {"q2"}), Pull("q4", FALSE, {"q1", "q2", "q3"}),
    Push("q5", FALSE, TRUE, {"q2", "q3", "q4"}), Push("q6", FALSE, FALSE, {"q2", "q3", "q4", "q5"}),
    Ask("q7", "status", {"q2", "q3", "q4", "q5", "q6"})},
   {Save("q1", "workflow", Nothing, Row("x", "s1"), {}), Pull("q2", FALSE, {"q1"}),
    Ask("q3", "workflowSet", {"q1"}) @@ [actor |-> Ann, db |-> "db", name |-> "x", enabled |-> FALSE],
    OnScript("q4", "deleteScript", Ann, "w1", {"q2"}), Pull("q5", FALSE, {"q2", "q4"}),
    Change("q6", PathX, Nothing, {"q2", "q5"})}}

MCScenarios ==
  SignInScenarios \cup GrantScenarios \cup CatalogScenarios \cup ScriptScenarios \cup SyncScenarios
=============================================================================
