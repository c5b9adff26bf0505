--------------------------- MODULE AccessControl ---------------------------
(***************************************************************************)
(* Who may do what: src/internal/api/authorization.go, the handlers of     *)
(* grants and roles of src/internal/api/server.go, and what they show of   *)
(* the catalog and of the workflows and forms.                             *)
(*                                                                         *)
(* The actor of a request is the subject signed in.  What one decision     *)
(* reads (effective grants, owners, the catalog) it reads in one step; a   *)
(* handler acts on it in later steps.                                      *)
(***************************************************************************)
EXTENDS SystemStore, Queries

VARIABLES
  catalog,  \* the catalog in the server's memory
  doubled   \* history: subjects whose grants two handlers changed at the same
            \* time, or who were granted what they created

accessHistory == <<catalog, doubled>>

\* A workflow, a form or a database is named by one part, and the grants that
\* are there at first are valid and exclusive; ids of workflows and forms are
\* never used again.
HasResource(g) ==
  /\ DOMAIN g = {"sub", "scope", "res", "item", "level"}
  /\ g.scope \in ItemScopes \cup SetScopes => g.res = <<g.res[1]>>
ASSUME GrantAssumption ==
  /\ \A g \in FirstGrants :
       /\ HasResource(g) /\ g.level \in None .. FieldAll
       /\ g.scope \in ItemScopes => g.res[1] \notin ScriptIds
       /\ g.scope \in SetScopes => g.res[1] # NoName
       /\ \A h \in FirstGrants : Target(g) = Target(h) => g = h
       /\ \A h \in FirstGrants : g.sub = h.sub => ~(/\ g.scope \in {"field", "view"}
            /\ h.scope = SetOf(g.scope) /\ h.res = g.res /\ None \notin {g.level, h.level})
  /\ \A s \in Scenarios : \A r \in s :
       /\ r.op = "saveGrant" => HasResource(r.grant)
       /\ r.op = "roleGrants" => \A g \in r.grants : HasResource(g)

Perms(actor) == EffectiveGrants(actor)

IdResource(i) == <<i>>
SetScope(kind) == kind \o "_set"

CanAccessScript(actor, i, level, deleteOnly) ==
  /\ Exists(i)
  /\ LET d == scripts[i].db
     IN  \/ IsDatabaseOwner(actor, d)
         \/ /\ ~deleteOnly
            /\ \/ ResourceLevel(Perms(actor), actor, SetScope(Kind(i)), <<d>>) >= level
               \/ ResourceLevel(Perms(actor), actor, Kind(i), IdResource(i)) >= level

\* requireResourceRead and requireResourceWrite name no database.
MayReadScript(actor, i)   == CanAccessScript(actor, i, Read, FALSE)
MayWriteScript(actor, i)  == CanAccessScript(actor, i, Write, FALSE)
MayDeleteScript(actor, i) == CanAccessScript(actor, i, Write, TRUE)

MayManage(actor, d) == d # NoName /\ IsDatabaseOwner(actor, d)

MayCreateScript(actor, kind, d) ==
  MayManage(actor, d) \/ CanWriteResource(Perms(actor), actor, SetScope(kind), <<d>>)

MayAddFields(actor, d, t) ==
  MayManage(actor, d) \/ CanAddFields(Perms(actor), actor, TableResource(d, t))

\* requireExplicitResourceRead: neither owners nor a grant on all are enough.
MayReadExplicitly(actor, i) == CanReadResource(Perms(actor), actor, Kind(i), IdResource(i))

-----------------------------------------------------------------------------
(* Grants.                                                                 *)

\* The database of a grant, or NoName.
GrantDatabaseName(g) ==
  IF g.scope \in TableScopes \cup SetScopes THEN g.res[1]
  ELSE IF g.res[1] \in ScriptIds /\ Exists(g.res[1]) /\ Kind(g.res[1]) = g.scope
       THEN scripts[g.res[1]].db ELSE NoName

LevelInRange(g) ==
  CASE g.scope \in FieldScopes -> g.level \in None .. FieldAll
    [] g.scope \in {"view", "view_set"} -> g.level \in None .. Read
    [] g.scope = "record" -> g.level = Write
    [] OTHER -> g.level \in None .. Write

\* The table is there, and so is the item that the scope names.
ValidTableGrant(d, g) ==
  /\ Len(g.res) = 2 /\ Known(catalog, d, g.res[2])
  /\ LET table == catalog[d][g.res[2]]
         fields == {f \in FieldOf(table, g.item) : ~f.deleted /\ f.name \notin Reserved}
     IN  CASE g.scope = "field"        -> fields # {}
           [] g.scope = "field_modify" -> \E f \in fields : f.type # "formula"
           [] g.scope = "view"         -> g.item = AllView \/ ViewOf(table, g.item) # {}
           [] g.scope = "record"       -> g.item \in {"create", "delete"}
           [] OTHER -> g.item = NoName

ValidGrant(d, g) ==
  /\ LevelInRange(g)
  /\ CASE g.scope \in TableScopes -> ValidTableGrant(d, g)
       [] g.scope \in SetScopes   -> g.res = <<d>> /\ g.item = NoName
       [] OTHER -> GrantDatabaseName(g) = d

\* Mutant of Conflicting: a grant on all stays when one on an item comes.
ConflictingItems(g) ==
  CASE g.scope \in {"field_set", "view_set"} ->
         {<<IF g.scope = "field_set" THEN "field" ELSE "view", g.res>>}
    [] g.scope \in SetScopes ->
         LET kind == IF g.scope = "workflow_set" THEN "workflow" ELSE "form"
         IN  {<<kind, IdResource(i)>> : i \in ScriptsOf(kind, g.res[1])}
    [] OTHER -> {}

\* Scopes and resources that a grant stands instead of.
Conflicting(g) ==
  CASE g.level = None -> {}
    [] g.level # None /\ g.scope \in {"field", "view"} -> {<<SetOf(g.scope), g.res>>}
    [] g.level # None /\ g.scope \in ItemScopes -> {<<SetOf(g.scope), <<GrantDatabaseName(g)>>>>}
    [] OTHER -> ConflictingItems(g)

\* Another handler is changing grants of the subject, or has yet to.
ChangesGrantsOf(q, sub) ==
  /\ UnderWay(q)
  /\ \/ q.op = "saveGrant" /\ q.grant.sub = sub
     \/ q.op = "roleGrants" /\ RoleSubject(q.db, q.role) = sub

MarkDoubled(r, sub) ==
  doubled' = IF \E q \in due \ {r} : ChangesGrantsOf(q, sub) THEN doubled \cup {sub} ELSE doubled

\* A level of none is not validated.
HandleSaveGrant(r) ==
  /\ At(r, "saveGrant", "start")
  /\ LET d == GrantDatabaseName(r.grant)
     IN  IF d = NoName \/ (r.grant.level # None /\ ~ValidGrant(d, r.grant))
         THEN Answer(r, "invalid")
         ELSE IF ~MayManage(r.actor, d) THEN Answer(r, "forbidden")
         ELSE Goto(r, "conflicts", Nothing)
  /\ UNCHANGED <<storeVars, accessHistory>>

\* The workflow or form of the grant may be gone by now.
FindConflicts(r) ==
  /\ At(r, "saveGrant", "conflicts")
  /\ IF r.grant.level # None /\ GrantDatabaseName(r.grant) = NoName
     THEN Answer(r, "failed")
     ELSE Goto(r, "grant", Conflicting(r.grant))
  /\ UNCHANGED <<storeVars, accessHistory>>

\* One statement for each.
DeleteConflictingGrant(r) ==
  /\ At(r, "saveGrant", "grant") /\ held[r] # {}
  /\ \E c \in held[r] :
       /\ DeleteGrant(r.grant.sub, c[1], c[2])
       /\ Goto(r, "grant", held[r] \ {c})
  /\ UNCHANGED <<owners, roles, members, scriptVars, accountVars, accessHistory>>

WriteGrant(r) ==
  /\ At(r, "saveGrant", "grant") /\ held[r] = {}
  /\ SaveGrant(r.grant)
  /\ MarkDoubled(r, r.grant.sub)
  /\ Answer(r, "ok")
  /\ UNCHANGED <<owners, roles, members, scriptVars, accountVars, catalog>>

-----------------------------------------------------------------------------
(* Roles.                                                                  *)

GivesLevel(given) == {g \in given : g.level # None}

\* A grant on all items covers one on an item of the same resource, for workflows
\* and forms of the same database.
Covers(h, g) ==
  /\ g.scope \in ExclusiveScopes /\ h.scope = SetOf(g.scope)
  /\ h.res = IF g.scope \in ItemScopes THEN <<GrantDatabaseName(g)>> ELSE g.res

ValidExclusiveGrants(given) ==
  /\ \A g \in GivesLevel(given) : g.scope \in ItemScopes => GrantDatabaseName(g) # NoName
  /\ \A g, h \in GivesLevel(given) : ~Covers(h, g)

ValidRoleGrants(d, given) ==
  /\ ValidExclusiveGrants(given)
  /\ \A g \in GivesLevel(given) : GrantDatabaseName(g) = d /\ ValidGrant(d, g)

ValidRoleMembers(d, given) ==
  \A s \in given :
    CASE s[1] = "user"     -> User(s[2]) # {}
      [] s[1] = "workflow" -> s[2] \in Range(WorkflowIds) /\ Exists(s[2]) /\ scripts[s[2]].db = d
      [] OTHER -> FALSE

\* A response names each member, and is an error when one is gone.
Servable(role) ==
  \A m \in MembersOf(role.db, role.name) :
    CASE m.type = "user" -> User(m.sub[2]) # {}
      [] m.type = "workflow" -> Exists(m.sub[2])
      [] OTHER -> TRUE

RoleOps == {"saveRole", "roleGrants", "roleMembers"}
RoleOf(r) == IF r.op = "saveRole" THEN r.as.name ELSE r.role

HandleRole(r) ==
  /\ \E op \in RoleOps : At(r, op, "start")
  /\ LET valid == CASE r.op = "saveRole" -> TRUE
                    [] r.op = "roleGrants" -> ValidRoleGrants(r.db, r.grants)
                    [] r.op = "roleMembers" -> ValidRoleMembers(r.db, r.members)
     IN  IF ~MayManage(r.actor, r.db) THEN Answer(r, "forbidden")
         ELSE IF ~valid THEN Answer(r, "invalid") ELSE Goto(r, "role", Nothing)
  /\ UNCHANGED <<storeVars, accessHistory>>

\* A new role, or one that replaces the role of its id: its grants and members
\* stay with the name.
WriteRole(r) ==
  /\ At(r, "saveRole", "role")
  /\ r.as.id = Nothing => made["role"] < Len(RoleIds)
  /\ IF CanSaveRole(r.as)
     THEN SaveRole(r.as) /\ Goto(r, "respond", Nothing)
     ELSE Answer(r, "failed") /\ UNCHANGED <<roles, made>>
  /\ UNCHANGED <<owners, grants, members, scripts, stamp, coincided, accountVars, accessHistory>>

WriteRoleGrants(r) ==
  /\ At(r, "roleGrants", "role")
  /\ IF RoleNamed(r.db, r.role) # {} /\ CanReplaceRoleGrants(r.grants)
     THEN /\ ReplaceRoleGrants(r.db, r.role, r.grants)
          /\ MarkDoubled(r, RoleSubject(r.db, r.role))
          /\ Goto(r, "respond", Nothing)
     ELSE Answer(r, "failed") /\ UNCHANGED <<grants, doubled>>
  /\ UNCHANGED <<owners, roles, members, scriptVars, accountVars, catalog>>

WriteRoleMembers(r) ==
  /\ At(r, "roleMembers", "role")
  /\ IF RoleNamed(r.db, r.role) # {}
     THEN ReplaceRoleMembers(r.db, r.role, r.members) /\ Goto(r, "respond", Nothing)
     ELSE Answer(r, "failed") /\ UNCHANGED members
  /\ UNCHANGED <<owners, grants, roles, scriptVars, accountVars, accessHistory>>

RoleResponse(r) ==
  /\ r.op \in RoleOps /\ pc[r] = "respond"
  /\ Answer(r, IF \A role \in RoleNamed(r.db, RoleOf(r)) : Servable(role) THEN "ok" ELSE "failed")
  /\ UNCHANGED <<storeVars, accessHistory>>

ListRoles(r) ==
  /\ At(r, "listRoles", "start")
  /\ Answer(r, CASE ~MayManage(r.actor, r.db) -> "forbidden"
                 [] MayManage(r.actor, r.db) /\ (\A role \in RolesOf(r.db) : Servable(role)) -> "ok"
                 [] OTHER -> "failed")
  /\ UNCHANGED <<storeVars, accessHistory>>

-----------------------------------------------------------------------------
(* What an actor is shown.                                                 *)

\* An actor as Queries has it: tablePermissions and actorQueryIdentity.
Actor(sub, d) ==
  [sub |-> sub, grants |-> Perms(sub), owner |-> IsDatabaseOwner(sub, d),
   identity |-> LET known == IF sub[1] = "user" THEN User(sub[2]) ELSE {}
                IN  Text(IF known = {} THEN sub[2] ELSE (CHOOSE u \in known : TRUE).email)]

FilterReadable(actor, ids) ==
  {i \in ids :
     \/ IsDatabaseOwner(actor, scripts[i].db)
     \/ ResourceLevel(Perms(actor), actor, SetScope(Kind(i)), <<scripts[i].db>>) >= Read
     \/ CanReadResource(Perms(actor), actor, Kind(i), IdResource(i))}

\* The level shown with a workflow or form.
PermissionLevel(actor, i) ==
  IF IsDatabaseOwner(actor, scripts[i].db) THEN Write
  ELSE Max({ResourceLevel(Perms(actor), actor, SetScope(Kind(i)), <<scripts[i].db>>),
            ResourceLevel(Perms(actor), actor, Kind(i), IdResource(i))})

FieldLevel(actor, res, name) == LevelOf(FieldBits(Perms(actor), actor, res, name))

CanSeeTable(actor, d, table) ==
  LET res == TableResource(d, table.name)
  IN  \/ ResourceLevel(Perms(actor), actor, "field_set", res) >= Read
      \/ ResourceLevel(Perms(actor), actor, "view_set", res) >= Read
      \/ \E f \in ActiveFields(table) : FieldLevel(actor, res, f.name) >= Read
      \/ \E v \in ToSet(table.views) : CanReadView(Perms(actor), actor, res, v.name)

\* Mutant of HasVisibleResource: only grants on all workflows or forms count.
HasVisibleSet(actor, d) ==
  \E kind \in ItemScopes :
    ScriptsOf(kind, d) # {} /\ CanReadResource(Perms(actor), actor, SetScope(kind), <<d>>)

HasVisibleResource(actor, d) ==
  \E kind \in ItemScopes : \E i \in ScriptsOf(kind, d) :
    \/ CanReadResource(Perms(actor), actor, SetScope(kind), <<d>>)
    \/ CanReadResource(Perms(actor), actor, kind, IdResource(i))

VisibleTables(actor, d) ==
  {t \in DOMAIN catalog[d] : IsDatabaseOwner(actor, d) \/ CanSeeTable(actor, d, catalog[d][t])}

VisibleDatabase(actor, d) ==
  IsDatabaseOwner(actor, d) \/ VisibleTables(actor, d) # {} \/ HasVisibleResource(actor, d)

\* An owner is shown deleted fields too.
VisibleFields(actor, d, table) ==
  {f.name : f \in {g \in ToSet(table.fields) :
     \/ IsDatabaseOwner(actor, d)
     \/ ~g.deleted /\ FieldLevel(actor, TableResource(d, table.name), g.name) >= Read}}

\* A view is shown to who may read it and all that it filters and sorts on.
VisibleViews(actor, d, table) ==
  LET res == TableResource(d, table.name)
  IN  {name \in {AllView} \cup {v.name : v \in ToSet(table.views)} :
         \/ IsDatabaseOwner(actor, d)
         \/ /\ CanReadView(Perms(actor), actor, res, name)
            /\ LET view == ResolveView(table, name)
               IN  /\ view # Refused
                   /\ ViewFieldsReadable([sub |-> actor, grants |-> Perms(actor)], res,
                                         view.queries, view.sorts)}

AccessNext ==
  \E r \in due :
    \/ HandleSaveGrant(r) \/ FindConflicts(r) \/ DeleteConflictingGrant(r) \/ WriteGrant(r)
    \/ HandleRole(r) \/ WriteRole(r) \/ WriteRoleGrants(r) \/ WriteRoleMembers(r)
    \/ RoleResponse(r) \/ ListRoles(r)
=============================================================================
