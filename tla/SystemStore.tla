----------------------------- MODULE SystemStore -----------------------------
(***************************************************************************)
(* The system database: owners, grants, roles, users, sessions, workflows  *)
(* and forms.  One operator for each method of DB of                       *)
(* src/internal/systemdb/db.go; one that writes is a step on its table.    *)
(*                                                                         *)
(* A subject is a user, a workflow or a role.  A workflow or form is a     *)
(* record of the table of its kind; its id says which kind it is.          *)
(***************************************************************************)
EXTENDS Permissions, Requests, Functions, TLC

CONSTANTS
  WorkflowIds, FormIds,  \* the ids that autoincrement hands out, in order
  RoleIds,
  FirstOwners, FirstGrants, FirstRoles, FirstMembers, FirstUsers

ScriptIds == Range(WorkflowIds) \cup Range(FormIds)

\* Ids are handed out once and no row has the id Nothing; the first rows are
\* those of tables with unique indices; what names a role is decoded.
ASSUME StoreAssumption ==
  /\ \A ids \in {WorkflowIds, FormIds, RoleIds} : ids \in Seq(Range(ids)) /\ IsInjective(ids)
  /\ Range(WorkflowIds) \cap Range(FormIds) = {}
  /\ Nothing \notin ScriptIds \cup Range(RoleIds)
  /\ IsFiniteSet(FirstRoles)
  /\ \A r, s \in FirstRoles :
       r.id # Nothing /\ ((r.id = s.id \/ (r.db = s.db /\ r.name = s.name)) => r = s)
  /\ \A u, v \in FirstUsers : (u.id = v.id \/ u.email = v.email) => u = v
  /\ \A s \in Scenarios : \A r \in s :
       /\ r.op = "saveRole" => DOMAIN r.as = {"id", "db", "name"}
       /\ \A u \in FirstUsers : u.id # r.id

VARIABLES
  owners,    \* rows of database_owners: <<database, subject>>
  grants,    \* rows of permission_grants
  roles,     \* rows of roles: id, database and name
  members,   \* rows of role_members: database, role, type and subject
  scripts,   \* rows of workflows and forms, by id
  made,      \* how many ids of each kind were handed out
  stamp,     \* the latest time of a write to a workflow or form
  coincided, \* history: the workflows and forms written twice at one time
  users,     \* rows of users
  sessions   \* rows of sessions

accessVars  == <<owners, grants, roles, members>>
scriptVars  == <<scripts, made, stamp, coincided>>
accountVars == <<users, sessions>>
storeVars   == <<accessVars, scriptVars, accountVars>>

NoScript          == <<>>  \* no workflow or form
NoSubject         == <<>>
UserSubject(u)    == <<"user", u>>
RoleSubject(d, n) == <<"role", d, n>>

Kind(i) == IF i \in Range(WorkflowIds) THEN "workflow" ELSE "form"
IdsOf(kind) == IF kind = "workflow" THEN WorkflowIds ELSE FormIds

\* The columns of a unique index.
Target(g) == <<g.sub, g.scope, g.res, g.item>>

StoreTypeOK ==
  /\ \A g, h \in grants : Target(g) = Target(h) => g = h
  /\ \A r, s \in roles : (r.id = s.id \/ (r.db = s.db /\ r.name = s.name)) => r = s
  /\ DOMAIN scripts = ScriptIds
  /\ \A u, v \in users : (u.id = v.id \/ u.email = v.email) => u = v
  /\ \A s, t \in sessions : s.token = t.token => s = t
  /\ \A i, j \in ScriptIds :
       (/\ scripts[i] # NoScript /\ scripts[j] # NoScript /\ Kind(i) = Kind(j)
        /\ scripts[i].db = scripts[j].db /\ scripts[i].name = scripts[j].name) => i = j
  /\ made \in [{"workflow", "form", "role"} -> Nat] /\ stamp \in Nat /\ coincided \subseteq ScriptIds

StoreInit ==
  /\ owners = FirstOwners
  /\ grants = FirstGrants
  /\ roles = FirstRoles
  /\ members = FirstMembers
  /\ scripts = [i \in ScriptIds |-> NoScript]
  /\ made = [workflow |-> 0, form |-> 0, role |-> Cardinality(FirstRoles)]
  /\ stamp = 0 /\ coincided = {}
  /\ users = FirstUsers
  /\ sessions = {}

-----------------------------------------------------------------------------
(* Owners, grants and roles.                                               *)

IsDatabaseOwner(u, d) == <<d, u>> \in owners

SaveDatabaseOwner(d, u) == owners' = owners \cup {<<d, u>>}

\* An insert that updates the level of the grant with the same target.
SaveGrant(g) == grants' = {h \in grants : Target(h) # Target(g)} \cup {g}

\* A condition on an empty column is left out: no subject stands for all.
DeleteGrant(sub, scope, res) ==
  grants' = {g \in grants : ~(sub \in {g.sub, NoSubject} /\ g.scope = scope /\ g.res = res)}

GrantListForSubject(sub) == {g \in grants : g.sub = sub}

RoleMemberships(sub) == {m \in members : m.sub = sub}

\* The grants of the subject and of its roles, all as the subject's own.
EffectiveGrants(sub) ==
  GrantListForSubject(sub) \cup
  UNION {{[g EXCEPT !.sub = sub] : g \in GrantListForSubject(RoleSubject(m.db, m.role))} :
           m \in RoleMemberships(sub)}

RoleNamed(d, name) == {r \in roles : r.db = d /\ r.name = name}
RolesOf(d) == {r \in roles : r.db = d}
MembersOf(d, name) == {m \in members : m.db = d /\ m.role = name}

\* A new role takes the next id; a role with an id replaces that row, or adds
\* it.  The unique index is on database and name.
CanSaveRole(role) == \A r \in RoleNamed(role.db, role.name) : r.id = role.id
SaveRole(role) ==
  LET new == role.id = Nothing
      row == [role EXCEPT !.id = IF new THEN RoleIds[made["role"] + 1] ELSE @]
  IN  /\ roles' = {r \in roles : r.id # row.id} \cup {row}
      /\ made' = [made EXCEPT !["role"] = @ + (IF new THEN 1 ELSE 0)]

\* One transaction: the old rows go, the new rows come.  Two rows for one
\* target fail it.
CanReplaceRoleGrants(given) ==
  \A g, h \in given : (g # h /\ g.level # None /\ h.level # None) =>
    <<g.scope, g.res, g.item>> # <<h.scope, h.res, h.item>>
ReplaceRoleGrants(d, name, given) ==
  LET sub == RoleSubject(d, name)
  IN  grants' = (grants \ GrantListForSubject(sub)) \cup
                {[g EXCEPT !.sub = sub] : g \in {h \in given : h.level # None}}

ReplaceRoleMembers(d, name, given) ==
  members' = (members \ MembersOf(d, name)) \cup
             {[db |-> d, role |-> name, type |-> s[1], sub |-> s] : s \in given}

-----------------------------------------------------------------------------
(* Workflows and forms.                                                    *)

Exists(i) == i \in ScriptIds /\ scripts[i] # NoScript

\* The time of a row is in milliseconds: a row written last may be written again
\* at the same time.  Times of two rows are never compared, so they may differ.
WriteRow(i, row) ==
  /\ \/ stamp' = stamp + 1 /\ UNCHANGED coincided
     \/ /\ Exists(i) => scripts[i].at = stamp
        /\ stamp' = stamp /\ coincided' = coincided \cup {i}
  /\ scripts' = [scripts EXCEPT ![i] = [row EXCEPT !.at = stamp']]

ScriptsOf(kind, d) == {i \in ScriptIds : Kind(i) = kind /\ Exists(i) /\ scripts[i].db = d}

\* The unique index is on database and name.
NameTaken(kind, row, i) ==
  \E j \in ScriptsOf(kind, row.db) : j # i /\ scripts[j].name = row.name

NextScriptId(kind) == IdsOf(kind)[made[kind] + 1]

\* The id is new, so is its time.
Create(kind, row) ==
  /\ WriteRow(NextScriptId(kind), row) /\ stamp' = stamp + 1
  /\ made' = [made EXCEPT ![kind] = @ + 1]

\* A new workflow is enabled.
CreateWorkflow(row) == Create("workflow", [row EXCEPT !.enabled = TRUE])

\* What SaveWorkflow makes of a request and of the row that it found: the
\* creator stays, secrets that are not given stay.
MergedWorkflow(existing, row) ==
  [row EXCEPT !.creator = existing.creator, !.secrets = row.secrets @@ existing.secrets]

\* What SaveForm makes of them: the creator stays, and a published form stays
\* published.
MergedForm(existing, row) ==
  [row EXCEPT !.creator = existing.creator,
              !.token = IF row.token = Nothing THEN existing.token ELSE row.token]

\* An update of the row with the id, or an insert when it is gone.
SaveScript(i, row) == WriteRow(i, row) /\ UNCHANGED made

DeleteScriptRow(i) ==
  /\ scripts' = [scripts EXCEPT ![i] = NoScript]
  /\ UNCHANGED <<made, stamp, coincided>>

\* A token that is not given matches no form.
FormByPublishedToken(token) ==
  {i \in ScriptIds : token # Nothing /\ Exists(i) /\ scripts[i].token = token}

-----------------------------------------------------------------------------
(* Users and sessions.                                                     *)

UserByEmail(email) == {u \in users : u.email = email}
User(id) == {u \in users : u.id = id}

\* The second statement of UpsertUserByEmail: an insert that, when the email
\* is taken by then, updates all but the id.
UpsertUser(user) ==
  users' = IF UserByEmail(user.email) = {} THEN users \cup {user}
           ELSE {IF u.email = user.email THEN [user EXCEPT !.id = u.id] ELSE u : u \in users}

CreateSession(token, id, expires) ==
  sessions' = sessions \cup {[token |-> token, user |-> id, expires |-> expires]}

SessionOf(token) == {s \in sessions : s.token = token}

\* The user that a token authenticates at a time.
UserBySessionToken(token, time) ==
  {u \in users : \E s \in SessionOf(token) : s.expires > time /\ u.id = s.user}

\* A session found to have expired is deleted.
DropExpired(token, time) ==
  sessions' = {s \in sessions : ~(s.token = token /\ s.expires <= time)}

DeleteSession(token) == sessions' = sessions \ SessionOf(token)
=============================================================================
