-------------------------- MODULE ApiServerProofs --------------------------
(***************************************************************************)
(* Theorems about ApiServer: who signs in gets a session of its own user;  *)
(* a login code is spent at most once, by the login it was confirmed for   *)
(* and in time; and a login is refused for these reasons only.  They hold  *)
(* for all scenarios, browsers, ports and bounds.                          *)
(*                                                                         *)
(* The first part is what all proofs about ApiServer share: who takes      *)
(* which step.  A request is only ever at a statement of its own handler,  *)
(* and every step but a restart is one of a single request, or of none.    *)
(* So an invariant about the requests of some handlers is left alone by    *)
(* the steps of all others.                                                *)
(***************************************************************************)
EXTENDS ApiServer, FiniteSetTheorems, TLAPS

SignInOps  == {"register", "signIn", "oidcLogin", "me", "logout",
               "cliLogin", "cliTokenAgain", "cliLogout"}
AccessOps  == {"saveGrant", "saveRole", "roleGrants", "roleMembers", "listRoles"}
CatalogOps == {"createDatabase", "addTable", "updateTable", "moveField", "createFields",
               "queryRows", "addRow", "editRow", "deleteRow"}
ScriptsOps == ChangeOps \cup {"getScript", "publishedForm", "webhook"}
CliSyncOps == {"edit", "pull", "status", "push", "workflowSet"}

\* Whose statements are at a label.
PlacedAt(op, label) ==
  /\ label \in {"upsert", "session"}  => op \in {"register", "signIn", "oidcLogin"}
  /\ label = "away"                   => op = "oidcLogin"
  /\ label \in {"waiting", "store"}   => op = "cliLogin"
  /\ label \in {"redeem", "issue"}    => op \in {"cliLogin", "cliTokenAgain"}
  /\ label = "forget"                 => op = "cliLogout"
  /\ label \in {"conflicts", "grant"} => op = "saveGrant"
  /\ label \in {"role", "respond"}    => op \in RoleOps
  /\ label = "own"                    => op = "createDatabase"
  /\ label \in {"read", "sync"}       => op \in {"addTable", "updateTable"}
  /\ label = "ensure"                 => op = "createFields"
  /\ label = "change"                 => op \in {"addTable", "updateTable", "moveField", "createFields"}
  /\ label = "save"                   => op \in {"createDatabase", "addTable", "updateTable",
                                                 "moveField", "createFields"}
  /\ label = "insert"                 => op = "addRow"
  /\ label = "row"                    => op \in SaveOps \cup {"editRow"}
  /\ label = "write"                  => op \in SaveOps \cup {"editRow", "addRow"}
  /\ label = "delete"                 => op \in {"deleteScript", "deleteRow"}
  /\ label = "remove"                 => op = "deleteScript"
  /\ label \in {"previous", "file", "oldFile", "owner"} => op \in SaveOps
  /\ label = "token"                  => op \in PublishOps
  /\ label \in {"scripts", "local"}   => op = "pull"
  /\ label = "record"                 => op \in {"pull", "push"}
  /\ label = "next"                   => op = "push"
  /\ label \in {"post", "reply"}      => op \in {"push", "workflowSet"}

Placed == \A r \in due : PlacedAt(r.op, pc[r])

\* Every request of the scenario has its progress, its answer, and what it holds.
Progressing ==
  due \in Scenarios /\ DOMAIN pc = due /\ DOMAIN result = due /\ DOMAIN held = due

\* One request takes a step.
Moves(r) ==
  /\ due' = due
  /\ Progressing'
  /\ pc'[r] # "start"
  /\ pc'[r] # "done" => result'[r] = result[r]
  /\ \A q \in due \ {r} : pc'[q] = pc[q] /\ held'[q] = held[q] /\ result'[q] = result[q]

\* It is a request for one of some operations.
Steps(r, ops) == Moves(r) /\ r.op \in ops /\ PlacedAt(r.op, pc'[r]) /\ faults' = faults

LEMMA GotoSteps ==
  ASSUME Progressing, NEW r \in due
  PROVE  \A label, value, ops :
           /\ Goto(r, label, value) /\ label \notin {"start", "done"}
           /\ r.op \in ops /\ PlacedAt(r.op, label)
           => Steps(r, ops)
  BY DEF Progressing, Goto, Steps, Moves

LEMMA AnswerSteps ==
  ASSUME Progressing, NEW r \in due
  PROVE  \A outcome, ops : Answer(r, outcome) /\ r.op \in ops => Steps(r, ops)
  BY DEF Progressing, Answer, Steps, Moves, PlacedAt

LEMMA ReplySteps ==
  ASSUME Progressing, NEW r \in due
  PROVE  \A outcome, ops : Reply(r, outcome) /\ r.op \in ops => Steps(r, ops)
  BY GotoSteps, AnswerSteps DEF Reply, PlacedAt

\* The steps of sign-in requests by themselves; the others are those of a page.
SignInSteps(r) ==
  \/ Register(r) \/ Upsert(r) \/ Login(r) \/ OpenSession(r) \/ Me(r) \/ Logout(r)
  \/ OIDCStart(r) \/ OIDCCallback(r)
  \/ BrowserLogin(r) \/ LoginTimesOut(r) \/ ResendToken(r)
  \/ Redeem(r) \/ IssueToken(r) \/ SaveCredentials(r)
  \/ CliLogout(r) \/ RemoveCredentials(r)

\* The steps of the other requests, by the module of their handlers.
AccessSteps(r) ==
  \/ HandleSaveGrant(r) \/ FindConflicts(r) \/ DeleteConflictingGrant(r) \/ WriteGrant(r)
  \/ HandleRole(r) \/ WriteRole(r) \/ WriteRoleGrants(r) \/ WriteRoleMembers(r)
  \/ RoleResponse(r) \/ ListRoles(r)

CatalogSteps(r) ==
  \/ CreateDatabase(r) \/ OwnDatabase(r) \/ AuthorizeTable(r) \/ ChangeTables(r)
  \/ AuthorizePatch(r) \/ ChangeTable(r) \/ ReadRows(r) \/ SyncRow(r)
  \/ SaveCatalog(r) \/ AuthorizeFields(r) \/ MoveField(r) \/ CreateFields(r)
  \/ EnsureFields(r) \/ QueryRows(r) \/ AuthorizeRow(r) \/ ReadRow(r) \/ AddRow(r)
  \/ WriteTableRow(r) \/ AuthorizeDelete(r) \/ DeleteTableRow(r)

ScriptsSteps(r) ==
  \/ HandleSaveScript(r) \/ FindPrevious(r) \/ CreateScript(r) \/ MergeScript(r)
  \/ WriteScriptRow(r) \/ WriteScriptFile(r) \/ RemoveOldFile(r)
  \/ GrantResourceOwner(r) \/ HandleDeleteScript(r) \/ FindDeleted(r)
  \/ DeleteRowOfScript(r) \/ RemoveScriptFile(r) \/ HandlePublish(r) \/ ReadForm(r)
  \/ WriteToken(r) \/ GetScript(r) \/ GetPublishedForm(r) \/ HandleWorkflowWebhook(r)

CliSyncSteps(r) ==
  \/ EditFile(r) \/ ListRemote(r) \/ ListScripts(r) \/ WriteFiles(r)
  \/ RecordState(r) \/ RunStatus(r) \/ StartPush(r) \/ PushChange(r)
  \/ PushReply(r) \/ EndPush(r) \/ RunWorkflowSet(r) \/ WorkflowSetReply(r)

\* Saving grants and roles.
LEMMA AccessMoves ==
  ASSUME Progressing, Placed, NEW r \in due, AccessSteps(r)
  PROVE  Steps(r, AccessOps)
<1> USE GotoSteps, AnswerSteps DEF AccessOps, At, Placed, PlacedAt
<1>1. CASE HandleSaveGrant(r)
  BY <1>1 DEF HandleSaveGrant
<1>2. CASE FindConflicts(r)
  BY <1>2 DEF FindConflicts
<1>3. CASE DeleteConflictingGrant(r)
  BY <1>3 DEF DeleteConflictingGrant
<1>4. CASE WriteGrant(r)
  BY <1>4 DEF WriteGrant
<1>5. CASE HandleRole(r)
  <2>1. r.op \in AccessOps /\ PlacedAt(r.op, pc[r])
    BY <1>5 DEF HandleRole, RoleOps
  <2>2. \/ \E outcome : Answer(r, outcome)
        \/ \E value : Goto(r, "role", value)
    BY <1>5 DEF HandleRole, RoleOps
  <2>. QED  BY <2>1, <2>2, <1>5 DEF HandleRole, RoleOps
<1>6. CASE WriteRole(r)
  BY <1>6 DEF WriteRole
<1>7. CASE WriteRoleGrants(r)
  BY <1>7 DEF WriteRoleGrants
<1>8. CASE WriteRoleMembers(r)
  BY <1>8 DEF WriteRoleMembers
<1>9. CASE RoleResponse(r)
  BY <1>9 DEF RoleResponse, RoleOps
<1>10. CASE ListRoles(r)
  BY <1>10 DEF ListRoles
<1>. QED  BY <1>1, <1>2, <1>3, <1>4, <1>5, <1>6, <1>7, <1>8, <1>9, <1>10 DEF AccessSteps

\* Changes of the catalog and row edits.
LEMMA CatalogMoves ==
  ASSUME Progressing, Placed, NEW r \in due, CatalogSteps(r)
  PROVE  Steps(r, CatalogOps)
<1> USE GotoSteps, AnswerSteps DEF CatalogOps, At, Placed, PlacedAt
<1>1. CASE CreateDatabase(r)
  BY <1>1 DEF CreateDatabase
<1>2. CASE OwnDatabase(r)
  BY <1>2 DEF OwnDatabase
<1>3. CASE AuthorizeTable(r)
  BY <1>3 DEF AuthorizeTable
<1>4. CASE ChangeTables(r)
  BY <1>4 DEF ChangeTables, BringUpToDate, Proceed
<1>5. CASE AuthorizePatch(r)
  BY <1>5 DEF AuthorizePatch
<1>6. CASE ChangeTable(r)
  BY <1>6 DEF ChangeTable, BringUpToDate, Proceed
<1>7. CASE ReadRows(r)
  BY <1>7 DEF ReadRows, Synchronise
<1>8. CASE SyncRow(r)
  <2>1. r.op \in CatalogOps /\ PlacedAt(r.op, pc[r])
    BY <1>8 DEF SyncRow, Synchronise
  <2>2. \/ \E outcome : Answer(r, outcome)
        \/ \E value : Goto(r, "save", value)
        \/ \E value : Goto(r, "sync", value)
    BY <1>8 DEF SyncRow, Synchronise
  <2>. QED  BY <2>1, <2>2, <1>8 DEF SyncRow, Synchronise
<1>9. CASE SaveCatalog(r)
  BY <1>9 DEF SaveCatalog
<1>10. CASE AuthorizeFields(r)
  BY <1>10 DEF AuthorizeFields
<1>11. CASE MoveField(r)
  BY <1>11 DEF MoveField, Proceed
<1>12. CASE CreateFields(r)
  <2>1. r.op \in CatalogOps /\ PlacedAt(r.op, pc[r])
    BY <1>12 DEF CreateFields, Proceed
  <2>2. \/ \E outcome : Answer(r, outcome)
        \/ \E value : Goto(r, "save", value)
    BY <1>12 DEF CreateFields, Proceed
  <2>. QED  BY <2>1, <2>2, <1>12 DEF CreateFields, Proceed
<1>13. CASE EnsureFields(r)
  BY <1>13 DEF EnsureFields
<1>14. CASE QueryRows(r)
  BY <1>14 DEF QueryRows
<1>15. CASE AuthorizeRow(r)
  BY <1>15 DEF AuthorizeRow, FoundRow
<1>16. CASE ReadRow(r)
  BY <1>16 DEF ReadRow
<1>17. CASE AddRow(r)
  BY <1>17 DEF AddRow
<1>18. CASE WriteTableRow(r)
  BY <1>18 DEF WriteTableRow
<1>19. CASE AuthorizeDelete(r)
  BY <1>19 DEF AuthorizeDelete, FoundRow
<1>20. CASE DeleteTableRow(r)
  BY <1>20 DEF DeleteTableRow
<1>. QED  BY <1>1, <1>2, <1>3, <1>4, <1>5, <1>6, <1>7, <1>8, <1>9, <1>10,
    <1>11, <1>12, <1>13, <1>14, <1>15, <1>16, <1>17, <1>18, <1>19, <1>20 DEF CatalogSteps

\* Handlers of workflows and forms, whoever calls them.
LEMMA ScriptsMoves ==
  ASSUME Progressing, Placed, NEW r \in due, ScriptsSteps(r)
  PROVE  Steps(r, ScriptsOps)
<1> USE GotoSteps, AnswerSteps, ReplySteps DEF ScriptsOps, At, Placed, PlacedAt, ChangeOps, SaveOps, PublishOps
<1>1. CASE HandleSaveScript(r)
  <2>1. r.op \in ScriptsOps /\ PlacedAt(r.op, pc[r])
    BY <1>1 DEF HandleSaveScript
  <2>2. \/ \E outcome : Reply(r, outcome)
        \/ \E value : Goto(r, "row", value)
        \/ \E value : Goto(r, "previous", value)
    BY <1>1 DEF HandleSaveScript
  <2>. QED  BY <2>1, <2>2, <1>1 DEF HandleSaveScript
<1>2. CASE FindPrevious(r)
  BY <1>2 DEF FindPrevious
<1>3. CASE CreateScript(r)
  BY <1>3 DEF CreateScript
<1>4. CASE MergeScript(r)
  BY <1>4 DEF MergeScript
<1>5. CASE WriteScriptRow(r)
  BY <1>5 DEF WriteScriptRow
<1>6. CASE WriteScriptFile(r)
  BY <1>6 DEF WriteScriptFile
<1>7. CASE RemoveOldFile(r)
  BY <1>7 DEF RemoveOldFile
<1>8. CASE GrantResourceOwner(r)
  BY <1>8 DEF GrantResourceOwner
<1>9. CASE HandleDeleteScript(r)
  BY <1>9 DEF HandleDeleteScript
<1>10. CASE FindDeleted(r)
  BY <1>10 DEF FindDeleted
<1>11. CASE DeleteRowOfScript(r)
  BY <1>11 DEF DeleteRowOfScript
<1>12. CASE RemoveScriptFile(r)
  BY <1>12 DEF RemoveScriptFile
<1>13. CASE HandlePublish(r)
  BY <1>13 DEF HandlePublish
<1>14. CASE ReadForm(r)
  BY <1>14 DEF ReadForm
<1>15. CASE WriteToken(r)
  <2>1. r.op \in ScriptsOps /\ PlacedAt(r.op, pc[r])
    BY <1>15 DEF WriteToken
  <2>2. \/ \E outcome : Answer(r, outcome)
    BY <1>15 DEF WriteToken
  <2>. QED  BY <2>1, <2>2, <1>15 DEF WriteToken
<1>16. CASE GetScript(r)
  BY <1>16 DEF GetScript
<1>17. CASE GetPublishedForm(r)
  BY <1>17 DEF GetPublishedForm
<1>18. CASE HandleWorkflowWebhook(r)
  BY <1>18 DEF HandleWorkflowWebhook
<1>. QED  BY <1>1, <1>2, <1>3, <1>4, <1>5, <1>6, <1>7, <1>8, <1>9, <1>10,
    <1>11, <1>12, <1>13, <1>14, <1>15, <1>16, <1>17, <1>18 DEF ScriptsSteps

\* The commands of autablectl but login.
LEMMA CliSyncMoves ==
  ASSUME Progressing, Placed, NEW r \in due, CliSyncSteps(r)
  PROVE  Steps(r, CliSyncOps)
<1> USE GotoSteps, AnswerSteps DEF CliSyncOps, At, Placed, PlacedAt
<1>1. CASE EditFile(r)
  BY <1>1 DEF EditFile
<1>2. CASE ListRemote(r)
  BY <1>2 DEF ListRemote
<1>3. CASE ListScripts(r)
  BY <1>3 DEF ListScripts
<1>4. CASE WriteFiles(r)
  BY <1>4 DEF WriteFiles
<1>5. CASE RecordState(r)
  BY <1>5 DEF RecordState
<1>6. CASE RunStatus(r)
  BY <1>6 DEF RunStatus
<1>7. CASE StartPush(r)
  BY <1>7 DEF StartPush
<1>8. CASE PushChange(r)
  BY <1>8 DEF PushChange
<1>9. CASE PushReply(r)
  BY <1>9 DEF PushReply
<1>10. CASE EndPush(r)
  BY <1>10 DEF EndPush
<1>11. CASE RunWorkflowSet(r)
  BY <1>11 DEF RunWorkflowSet
<1>12. CASE WorkflowSetReply(r)
  BY <1>12 DEF WorkflowSetReply
<1>. QED  BY <1>1, <1>2, <1>3, <1>4, <1>5, <1>6, <1>7, <1>8, <1>9, <1>10,
    <1>11, <1>12 DEF CliSyncSteps

\* Sign-in handlers, and the calls of autablectl login.
LEMMA SignInMoves ==
  ASSUME Progressing, Placed, NEW r \in due, SignInSteps(r)
  PROVE  Steps(r, SignInOps)
<1> USE GotoSteps, AnswerSteps DEF SignInOps, At, Placed, PlacedAt
<1>1. CASE Register(r)
  BY <1>1 DEF Register, BeginUpsert
<1>2. CASE Upsert(r)
  BY <1>2 DEF Upsert
<1>3. CASE Login(r)
  BY <1>3 DEF Login
<1>4. CASE OpenSession(r)
  BY <1>4 DEF OpenSession
<1>5. CASE Me(r)
  BY <1>5 DEF Me
<1>6. CASE Logout(r)
  BY <1>6 DEF Logout
<1>7. CASE OIDCStart(r)
  BY <1>7 DEF OIDCStart
<1>8. CASE OIDCCallback(r)
  BY <1>8 DEF OIDCCallback, BeginUpsert
<1>9. CASE BrowserLogin(r)
  BY <1>9 DEF BrowserLogin
<1>10. CASE LoginTimesOut(r)
  BY <1>10 DEF LoginTimesOut
<1>11. CASE ResendToken(r)
  BY <1>11 DEF ResendToken
<1>12. CASE Redeem(r)
  <2>1. r.op \in SignInOps /\ PlacedAt(r.op, pc[r])
    BY <1>12 DEF Redeem
  <2>2. \/ \E outcome : Answer(r, outcome)
        \/ \E value : Goto(r, "issue", value)
    BY <1>12 DEF Redeem
  <2>. QED  BY <2>1, <2>2, <1>12 DEF Redeem
<1>13. CASE IssueToken(r)
  BY <1>13 DEF IssueToken
<1>14. CASE SaveCredentials(r)
  BY <1>14 DEF SaveCredentials
<1>15. CASE CliLogout(r)
  BY <1>15 DEF CliLogout
<1>16. CASE RemoveCredentials(r)
  BY <1>16 DEF RemoveCredentials
<1>. QED  BY <1>1, <1>2, <1>3, <1>4, <1>5, <1>6, <1>7, <1>8, <1>9, <1>10,
    <1>11, <1>12, <1>13, <1>14, <1>15, <1>16 DEF SignInSteps

\* Commands leave what the server has to the handlers that they call.
LEMMA CliSyncLeavesServer ==
  ASSUME NEW r \in due, CliSyncSteps(r)
  PROVE  UNCHANGED <<storeVars, accessHistory, codeVars>>
<1>1. CASE EditFile(r) \/ ListRemote(r) \/ RecordState(r) \/ RunStatus(r)
  BY <1>1 DEF EditFile, ListRemote, RecordState, RunStatus
<1>2. CASE ListScripts(r) \/ WriteFiles(r)
  BY <1>2 DEF ListScripts, WriteFiles
<1>3. CASE StartPush(r) \/ PushChange(r) \/ PushReply(r) \/ EndPush(r)
  BY <1>3 DEF StartPush, PushChange, PushReply, EndPush
<1>4. CASE RunWorkflowSet(r) \/ WorkflowSetReply(r)
  BY <1>4 DEF RunWorkflowSet, WorkflowSetReply
<1>. QED  BY <1>1, <1>2, <1>3, <1>4 DEF CliSyncSteps

\* None of them touches users or sessions.
LEMMA AccountsUntouched ==
  ASSUME NEW r \in due, AccessSteps(r) \/ CatalogSteps(r) \/ ScriptsSteps(r) \/ CliSyncSteps(r)
  PROVE  UNCHANGED accountVars
<1> USE DEF accountVars, storeVars
<1>1. CASE AccessSteps(r)
  BY <1>1 DEF AccessSteps, HandleSaveGrant, FindConflicts, DeleteConflictingGrant, WriteGrant,
     HandleRole, WriteRole, WriteRoleGrants, WriteRoleMembers, RoleResponse, ListRoles
<1>2. CASE CatalogSteps(r)
  <2>1. ASSUME CreateDatabase(r) \/ OwnDatabase(r) \/ AuthorizeTable(r) \/ ChangeTables(r)
               \/ AuthorizePatch(r) \/ ChangeTable(r) \/ ReadRows(r) \/ SyncRow(r)
        PROVE  UNCHANGED accountVars
    BY <2>1 DEF CreateDatabase, OwnDatabase, AuthorizeTable, ChangeTables, AuthorizePatch,
       ChangeTable, ReadRows, SyncRow
  <2>2. ASSUME SaveCatalog(r) \/ AuthorizeFields(r) \/ MoveField(r) \/ CreateFields(r)
               \/ EnsureFields(r)
        PROVE  UNCHANGED accountVars
    BY <2>2 DEF SaveCatalog, AuthorizeFields, MoveField, CreateFields, EnsureFields
  <2>3. ASSUME QueryRows(r) \/ AuthorizeRow(r) \/ ReadRow(r) \/ AddRow(r)
               \/ WriteTableRow(r) \/ AuthorizeDelete(r) \/ DeleteTableRow(r)
        PROVE  UNCHANGED accountVars
    BY <2>3 DEF QueryRows, AuthorizeRow, ReadRow, AddRow, WriteTableRow, AuthorizeDelete,
       DeleteTableRow
  <2>. QED  BY <1>2, <2>1, <2>2, <2>3 DEF CatalogSteps
<1>3. CASE ScriptsSteps(r)
  BY <1>3 DEF ScriptsSteps, HandleSaveScript, FindPrevious, CreateScript, MergeScript, WriteScriptRow,
     WriteScriptFile, RemoveOldFile, GrantResourceOwner, HandleDeleteScript, FindDeleted,
     DeleteRowOfScript, RemoveScriptFile, HandlePublish, ReadForm, WriteToken, GetScript,
     GetPublishedForm, HandleWorkflowWebhook
<1>4. CASE CliSyncSteps(r)
  BY <1>4, CliSyncLeavesServer
<1>. QED  BY <1>1, <1>2, <1>3, <1>4

\* A failing statement ends the request, or its call.
LEMMA FailSteps ==
  ASSUME Progressing, NEW r \in due, Fail(r)
  PROVE  /\ Moves(r) /\ faults' = faults + 1
         /\ \/ pc'[r] = "reply" /\ r.op \in {"push", "workflowSet"} /\ result'[r] = result[r]
            \/ pc'[r] = "done" /\ result'[r] = "failed"
  BY DEF Fail, StatementFails, GoesOn, Progressing, Moves

\* So does a restart, for all requests that the server handles.
LEMMA RestartSteps ==
  ASSUME Progressing, Restart
  PROVE  /\ due' = due /\ Progressing' /\ faults' = faults + 1
         /\ \A q \in due :
              \/ pc'[q] = pc[q] /\ held'[q] = held[q] /\ result'[q] = result[q] /\ ~Handled(q)
              \/ pc'[q] = "done" /\ result'[q] = "failed" /\ Handled(q)
              \/ pc'[q] = "reply" /\ GoesOn(q) /\ result'[q] = result[q]
<1>1. /\ due' = due /\ Progressing' /\ faults' = faults + 1
      /\ \A q \in due :
           /\ pc'[q] = IF GoesOn(q) THEN "reply" ELSE IF Handled(q) THEN "done" ELSE pc[q]
           /\ result'[q] = IF Handled(q) /\ ~GoesOn(q) THEN "failed" ELSE result[q]
           /\ ~Handled(q) => held'[q] = held[q]
  BY DEF Restart, Progressing, GoesOn
<1>. QED  BY <1>1 DEF GoesOn

\* A login goes on with the code of a callback that it waits for.
TakesCallback(r, c) ==
  /\ r.op = "cliLogin" /\ pc[r] = "waiting" /\ Awaited(c, r)
  /\ Goto(r, "redeem", [code |-> c.code])

\* Whose step it is.
LEMMA WhoseStep ==
  ASSUME Progressing, Placed, [Next]_vars
  PROVE  \/ (\E r \in due : SignInSteps(r) /\ Steps(r, SignInOps)) /\ UNCHANGED <<doubled, codeVars>>
         \/ /\ \E c \in callbacks : \E r \in due : Callback(c) /\ TakesCallback(r, c) /\ Steps(r, SignInOps)
            /\ UNCHANGED <<doubled, codeVars>>
         \/ /\ \E r \in due :
                 \/ AccessSteps(r) /\ Steps(r, AccessOps) /\ UNCHANGED codeVars
                 \/ CatalogSteps(r) /\ Steps(r, CatalogOps) /\ UNCHANGED codeVars
                 \/ ScriptsSteps(r) /\ Steps(r, ScriptsOps)
                 \/ CliSyncSteps(r) /\ Steps(r, CliSyncOps)
            /\ UNCHANGED <<signInVars, accountVars>>
         \/ \E r \in due : Fail(r)
         \/ Restart
         \/ /\ \/ Tick \/ (\E r \in due, b \in Browsers : AuthorizePage(r, b))
               \/ \E page \in shown : Authorize(page)
            /\ UNCHANGED <<doubled, codeVars>>
         \/ UNCHANGED vars
<1>1. CASE AccountsNext /\ UNCHANGED <<doubled, catalogVars, codeVars, dirVars>>
  <2>1. ASSUME NEW r \in due, SignInSteps(r) PROVE Steps(r, SignInOps)
    BY <2>1, SignInMoves
  <2>2. ASSUME NEW c \in callbacks, Callback(c)
        PROVE  \E r \in due : TakesCallback(r, c) /\ Steps(r, SignInOps)
    <3>1. PICK r \in Listening(c.port) : Awaited(c, r) /\ Goto(r, "redeem", [code |-> c.code])
      BY <2>2 DEF Callback
    <3>2. TakesCallback(r, c) /\ r \in due
      BY <3>1 DEF Listening, TakesCallback
    <3>3. Steps(r, SignInOps)
      BY <3>1, <3>2, GotoSteps DEF SignInOps, PlacedAt, TakesCallback
    <3>. QED  BY <3>2, <3>3
  <2>. QED  BY <1>1, <2>1, <2>2 DEF AccountsNext, SignInSteps
<1>2. CASE AccessNext /\ UNCHANGED <<signInVars, file, tables, catalogHistory, codeVars, dirVars>>
  BY <1>2, AccessMoves, AccountsUntouched DEF AccessNext, AccessSteps
<1>3. CASE CatalogNext /\ UNCHANGED <<signInVars, codeVars, dirVars>>
  BY <1>3, CatalogMoves, AccountsUntouched DEF CatalogNext, CatalogSteps
<1>4. CASE ScriptsNext /\ UNCHANGED <<signInVars, file, tables, catalogHistory, dirVars>>
  BY <1>4, ScriptsMoves, AccountsUntouched DEF ScriptsNext, ScriptsSteps
<1>5. CASE CliSyncNext /\ UNCHANGED <<signInVars, file, tables, catalogHistory>>
  BY <1>5, CliSyncMoves, AccountsUntouched DEF CliSyncNext, CliSyncSteps
<1>. QED  BY <1>1, <1>2, <1>3, <1>4, <1>5 DEF Next, Idle

\* Requests stay where they belong.
PlaceInv == Progressing /\ Placed

LEMMA InitPlaced == Init => PlaceInv
  BY DEF Init, RequestsInit, PlaceInv, Progressing, Placed, PlacedAt

LEMMA NextPlaced == PlaceInv /\ [Next]_vars => PlaceInv'
<1> SUFFICES ASSUME PlaceInv, [Next]_vars PROVE PlaceInv'
  OBVIOUS
<1>0. Progressing /\ Placed
  BY DEF PlaceInv
<1>1. ASSUME NEW r \in due, NEW ops, Steps(r, ops) PROVE PlaceInv'
  BY <1>0, <1>1 DEF PlaceInv, Steps, Moves, Placed
<1>2. ASSUME NEW r \in due, Fail(r) PROVE PlaceInv'
  <2>1. Moves(r) /\ PlacedAt(r.op, pc'[r])
    BY <1>0, <1>2, FailSteps DEF PlacedAt
  <2>. QED  BY <1>0, <2>1 DEF PlaceInv, Moves, Placed
<1>3. CASE Restart
  <2>1. /\ due' = due /\ Progressing'
        /\ \A q \in due : \/ pc'[q] = pc[q] \/ pc'[q] = "done"
                          \/ pc'[q] = "reply" /\ GoesOn(q)
    BY <1>0, <1>3, RestartSteps
  <2>2. \A q \in due : PlacedAt(q.op, pc'[q])
    BY <1>0, <2>1 DEF Placed, PlacedAt, GoesOn
  <2>. QED  BY <2>1, <2>2 DEF PlaceInv, Placed
<1>4. CASE UNCHANGED requestVars
  BY <1>0, <1>4 DEF PlaceInv, Progressing, Placed, requestVars
<1>. QED  BY <1>0, <1>1, <1>2, <1>3, <1>4, WhoseStep DEF Tick, AuthorizePage, Authorize, vars

-----------------------------------------------------------------------------
(* Codes are spent once.                                                   *)

\* No request comes to issue a token, and one that is about to keeps what it has.
Quiet ==
  /\ due' = due
  /\ Progressing'
  /\ \A q \in due : pc'[q] = "issue" => pc[q] = "issue" /\ held'[q] = held[q]

\* Codes may be lost, and nothing else happens to them.
CodesLost == codes' \subseteq codes /\ UNCHANGED <<confirmed, redeemed>>

\* A request that does not come to issue a token takes a quiet step.
LEMMA MovesQuiet ==
  ASSUME NEW r \in due, Moves(r), pc'[r] # "issue"
  PROVE  Quiet
  BY DEF Moves, Quiet

\* All sign-in handlers but two leave codes alone.
LEMMA SignInQuiet ==
  ASSUME Progressing, Placed, NEW r \in due, SignInSteps(r)
  PROVE  Redeem(r) \/ IssueToken(r) \/ (Quiet /\ CodesLost)
<1>0. Moves(r)
  BY SignInMoves DEF Steps
<1> SUFFICES ASSUME ~Redeem(r), ~IssueToken(r)
             PROVE  CodesLost /\ pc'[r] # "issue"
  BY <1>0, MovesQuiet
<1> USE DEF CodesLost, signInVars, browserVars, cliVars, Progressing, Goto, Answer
<1>1. CASE Register(r)
  BY <1>1 DEF Register, BeginUpsert
<1>2. CASE Upsert(r)
  BY <1>2 DEF Upsert
<1>3. CASE Login(r)
  BY <1>3 DEF Login
<1>4. CASE OpenSession(r)
  BY <1>4 DEF OpenSession
<1>5. CASE Me(r)
  BY <1>5 DEF Me
<1>6. CASE Logout(r)
  BY <1>6 DEF Logout
<1>7. CASE OIDCStart(r)
  BY <1>7 DEF OIDCStart
<1>8. CASE OIDCCallback(r)
  BY <1>8 DEF OIDCCallback, BeginUpsert
<1>9. CASE BrowserLogin(r)
  BY <1>9 DEF BrowserLogin
<1>10. CASE LoginTimesOut(r)
  BY <1>10 DEF LoginTimesOut
<1>11. CASE ResendToken(r)
  BY <1>11 DEF ResendToken
<1>12. CASE SaveCredentials(r)
  BY <1>12 DEF SaveCredentials
<1>13. CASE CliLogout(r)
  BY <1>13 DEF CliLogout
<1>14. CASE RemoveCredentials(r)
  BY <1>14 DEF RemoveCredentials
<1>. QED  BY <1>1, <1>2, <1>3, <1>4, <1>5, <1>6, <1>7, <1>8, <1>9, <1>10, <1>11, <1>12,
            <1>13, <1>14 DEF SignInSteps

\* So do failures, and a restart loses all codes.
LEMMA FaultsQuiet ==
  ASSUME Progressing, (\E r \in due : Fail(r)) \/ Restart
  PROVE  Quiet /\ CodesLost
<1>1. ASSUME NEW r \in due, Fail(r) PROVE Quiet /\ CodesLost
  <2>1. Quiet
    BY <1>1, FailSteps, MovesQuiet
  <2>. QED  BY <1>1, <2>1 DEF Fail, CodesLost, signInVars, cliVars
<1>2. CASE Restart
  <2>1. Quiet
    BY <1>2, RestartSteps DEF Quiet
  <2>. QED  BY <1>2, <2>1 DEF Restart, CodesLost
<1>. QED  BY <1>1, <1>2

\* Codes of a login are numbered in the order of its confirmations, so that
\* the next one is new.
Numbered ==
  /\ IsFiniteSet(confirmed)
  /\ \A c \in confirmed :
       \E k \in Nat : c.code = <<c.login, k>> /\ k < Cardinality(Confirmations(c.login))

\* A code that waits was confirmed for its challenge and has the life of one.
Matched ==
  \A c \in codes : \E d \in confirmed :
    /\ d.code = c.code /\ d.user = c.user /\ d.login = c.challenge
    /\ c.expires = d.at + CodeTTL

\* A request that is about to issue a token has taken its code out in time, and
\* is the only one with it.
Spending ==
  \A r \in due : pc[r] = "issue" =>
    /\ \E d \in confirmed : /\ d.code = held[r].code /\ d.user = held[r].user
                            /\ d.login = Verifier(r) /\ held[r].at <= d.at + CodeTTL
    /\ \A c \in codes : c.code # held[r].code
    /\ \A a \in redeemed : a.code # held[r].code
    /\ \A q \in due \ {r} : pc[q] = "issue" => held[q].code # held[r].code

\* A code that was spent is gone.
Gone == \A a \in redeemed, c \in codes : a.code # c.code

CodesInv == Progressing /\ Numbered /\ Matched /\ Spending /\ Gone /\ CodesSpentOnce

LEMMA QuietKeepsCodes ==
  ASSUME CodesInv, Quiet, CodesLost
  PROVE  CodesInv'
<1>1. Progressing'
  BY DEF Quiet
<1>2. Numbered'
  BY DEF CodesInv, Numbered, CodesLost, Confirmations
<1>3. Matched'
  BY DEF CodesInv, Matched, CodesLost
<1>4. Spending'
  BY DEF CodesInv, Spending, CodesLost, Quiet, Verifier
<1>5. Gone' /\ CodesSpentOnce'
  BY DEF CodesInv, Gone, CodesSpentOnce, CodesLost
<1>. QED  BY <1>1, <1>2, <1>3, <1>4, <1>5 DEF CodesInv

\* The code that is issued is none of those that were.
LEMMA AuthorizeKeepsCodes ==
  ASSUME CodesInv, NEW page \in shown, Authorize(page)
  PROVE  CodesInv'
<1>0. CASE RunOut(page.browser) /\ UNCHANGED <<codes, callbacks, confirmed>>
  <2>1. Quiet /\ CodesLost
    BY <1>0 DEF Authorize, requestVars, CodesInv, Progressing, Quiet, CodesLost
  <2>. QED  BY <2>1, QuietKeepsCodes
<1> SUFFICES ASSUME ~(RunOut(page.browser) /\ UNCHANGED <<codes, callbacks, confirmed>>)
             PROVE  CodesInv'
  BY <1>0
<1> DEFINE login == page.login
           code == <<login, Cardinality(Confirmations(login))>>
<1>1. PICK u \in CookieUser(page.browser) :
        /\ codes' = {c \in codes : clock <= c.expires} \cup
                    {[code |-> code, user |-> u.id, challenge |-> login, expires |-> clock + CodeTTL]}
        /\ confirmed' = confirmed \cup
                    {[login |-> login, user |-> u.id, code |-> code, at |-> clock]}
        /\ UNCHANGED <<due, pc, result, held, redeemed>>
  BY DEF Authorize, requestVars
<1> DEFINE new == [login |-> login, user |-> u.id, code |-> code, at |-> clock]
<1>2. \A c \in confirmed : c.code # code
  BY DEF CodesInv, Numbered
<1>3. new \notin confirmed /\ new.login = login /\ new.code = code /\ new.user = u.id /\ new.at = clock
  BY <1>2
<1>4. Numbered'
  <2>1. IsFiniteSet(Confirmations(login)) /\ new \notin Confirmations(login)
    BY <1>3, FS_Subset DEF CodesInv, Numbered, Confirmations
  <2>2. Confirmations(login)' = Confirmations(login) \cup {new}
    BY <1>1, <1>3 DEF Confirmations
  <2>3. /\ Cardinality(Confirmations(login)) \in Nat
        /\ Cardinality(Confirmations(login)') = Cardinality(Confirmations(login)) + 1
    BY <2>1, <2>2, FS_AddElement, FS_CardinalityType
  <2>4. \A other : other # login => Confirmations(other)' = Confirmations(other)
    BY <1>1, <1>3 DEF Confirmations
  <2>5. ASSUME NEW c \in confirmed'
        PROVE  \E k \in Nat : c.code = <<c.login, k>> /\ k < Cardinality(Confirmations(c.login)')
    <3>1. CASE c = new
      BY <3>1, <1>3, <2>3
    <3>2. CASE c \in confirmed
      <4>1. PICK k \in Nat : c.code = <<c.login, k>> /\ k < Cardinality(Confirmations(c.login))
        BY <3>2 DEF CodesInv, Numbered
      <4>2. k < Cardinality(Confirmations(c.login)')
        BY <4>1, <2>3, <2>4
      <4>. QED  BY <4>1, <4>2
    <3>. QED  BY <3>1, <3>2, <1>1
  <2>6. IsFiniteSet(confirmed')
    BY <1>1, FS_AddElement DEF CodesInv, Numbered
  <2>. QED  BY <2>5, <2>6 DEF Numbered, Confirmations
<1>5. Matched'
  BY <1>1, <1>3 DEF CodesInv, Matched
<1>6. \A c \in codes' : c \in codes \/ c.code = code
  BY <1>1
<1>7. Spending'
  <2> SUFFICES ASSUME NEW r \in due, pc[r] = "issue"
               PROVE  /\ \E d \in confirmed' : /\ d.code = held[r].code /\ d.user = held[r].user
                                               /\ d.login = Verifier(r) /\ held[r].at <= d.at + CodeTTL
                      /\ \A c \in codes' : c.code # held[r].code
                      /\ \A a \in redeemed : a.code # held[r].code
                      /\ \A q \in due \ {r} : pc[q] = "issue" => held[q].code # held[r].code
    BY <1>1 DEF Spending, Verifier
  <2>1. PICK d \in confirmed : /\ d.code = held[r].code /\ d.user = held[r].user
                               /\ d.login = Verifier(r) /\ held[r].at <= d.at + CodeTTL
    BY DEF CodesInv, Spending
  <2>2. held[r].code # code
    BY <2>1, <1>2
  <2>. QED  BY <1>1, <1>6, <2>1, <2>2 DEF CodesInv, Spending
<1>8. CodesSpentOnce'
  BY <1>1 DEF CodesInv, CodesSpentOnce
<1>9. Gone'
  <2>1. \A a \in redeemed : a.code # code
    BY <1>2 DEF CodesInv, CodesSpentOnce
  <2>. QED  BY <1>1, <1>6, <2>1 DEF CodesInv, Gone
<1>10. Progressing'
  BY <1>1 DEF CodesInv, Progressing
<1>. QED  BY <1>4, <1>5, <1>7, <1>8, <1>9, <1>10 DEF CodesInv

\* The code is taken out by the first that asks.
LEMMA RedeemKeepsCodes ==
  ASSUME CodesInv, NEW r \in due, Redeem(r), Moves(r)
  PROVE  CodesInv'
<1>1. codes' \subseteq codes /\ UNCHANGED <<confirmed, redeemed>>
  BY DEF Redeem, CodesWithout
<1>2. CASE \E outcome : Answer(r, outcome)
  <2>1. Quiet
    BY <1>2, MovesQuiet DEF CodesInv, Answer, Progressing
  <2>. QED  BY <1>1, <2>1, QuietKeepsCodes DEF CodesLost
<1>3. CASE \E c \in codes : /\ c.code = held[r].code /\ c.challenge = Verifier(r)
                            /\ clock <= c.expires
                            /\ Goto(r, "issue", [code |-> c.code, user |-> c.user, at |-> clock])
  <2>1. PICK c \in codes : /\ c.code = held[r].code /\ c.challenge = Verifier(r)
                           /\ clock <= c.expires
                           /\ Goto(r, "issue", [code |-> c.code, user |-> c.user, at |-> clock])
    BY <1>3
  <2>2. /\ due' = due /\ Progressing' /\ pc'[r] = "issue"
        /\ held'[r].code = c.code /\ held'[r].user = c.user /\ held'[r].at = clock
        /\ \A q \in due \ {r} : pc'[q] = pc[q] /\ held'[q] = held[q]
    BY <2>1 DEF Goto, CodesInv, Progressing
  <2>3. PICK d \in confirmed : /\ d.code = c.code /\ d.user = c.user /\ d.login = c.challenge
                               /\ c.expires = d.at + CodeTTL
    BY DEF CodesInv, Matched
  <2>4. \A e \in codes' : e.code # c.code
    BY <2>1 DEF Redeem, CodesWithout
  <2>5. ASSUME NEW q \in due, pc'[q] = "issue"
        PROVE  /\ \E e \in confirmed : /\ e.code = held'[q].code /\ e.user = held'[q].user
                                       /\ e.login = Verifier(q) /\ held'[q].at <= e.at + CodeTTL
               /\ \A e \in codes' : e.code # held'[q].code
               /\ \A a \in redeemed : a.code # held'[q].code
               /\ \A p \in due \ {q} : pc'[p] = "issue" => held'[p].code # held'[q].code
    <3>1. CASE q = r
      <4>1. /\ \E e \in confirmed : /\ e.code = held'[q].code /\ e.user = held'[q].user
                                    /\ e.login = Verifier(q) /\ held'[q].at <= e.at + CodeTTL
            /\ \A e \in codes' : e.code # held'[q].code
        BY <3>1, <2>1, <2>2, <2>3, <2>4
      <4>2. \A a \in redeemed : a.code # held'[q].code
        BY <3>1, <2>2 DEF CodesInv, Gone
      <4>3. \A p \in due \ {q} : pc'[p] = "issue" => held'[p].code # held'[q].code
        BY <3>1, <2>2 DEF CodesInv, Spending
      <4>. QED  BY <4>1, <4>2, <4>3
    <3>2. CASE q # r
      <4>1. pc[q] = "issue" /\ held'[q] = held[q] /\ held[q].code # c.code
        BY <3>2, <2>2, <2>5 DEF CodesInv, Spending
      <4>. QED  BY <4>1, <1>1, <2>2 DEF CodesInv, Spending
    <3>. QED  BY <3>1, <3>2
  <2>6. Spending'
    BY <2>2, <2>5, <1>1 DEF Spending, Verifier
  <2>7. Numbered' /\ Matched' /\ Gone' /\ CodesSpentOnce'
    BY <1>1 DEF CodesInv, Numbered, Matched, Gone, CodesSpentOnce, Confirmations
  <2>. QED  BY <2>2, <2>6, <2>7 DEF CodesInv
<1>. QED  BY <1>2, <1>3 DEF Redeem

\* The session is made by the only one that holds the code.
LEMMA IssueKeepsCodes ==
  ASSUME CodesInv, NEW r \in due, IssueToken(r), Moves(r)
  PROVE  CodesInv'
<1> DEFINE new == [code |-> held[r].code, user |-> held[r].user, by |-> Verifier(r),
                   token |-> r.id, at |-> held[r].at]
<1>1. UNCHANGED <<codes, confirmed>> /\ pc[r] = "issue"
  BY DEF IssueToken
<1>2. Quiet /\ pc'[r] # "issue"
  <2>1. Goto(r, "store", held[r]) \/ \E outcome : Answer(r, outcome)
    BY DEF IssueToken
  <2>2. pc'[r] # "issue"
    BY <2>1 DEF Goto, Answer, CodesInv, Progressing
  <2>. QED  BY <2>2, MovesQuiet
<1>3. CASE redeemed' = redeemed
  BY <1>1, <1>2, <1>3, QuietKeepsCodes DEF CodesLost
<1>4. CASE redeemed' = redeemed \cup {new}
  <2>1. new.code = held[r].code /\ new.user = held[r].user /\ new.by = Verifier(r) /\ new.at = held[r].at
    OBVIOUS
  <2>2. PICK d \in confirmed : /\ d.code = held[r].code /\ d.user = held[r].user
                               /\ d.login = Verifier(r) /\ held[r].at <= d.at + CodeTTL
    BY <1>1 DEF CodesInv, Spending
  <2>3. /\ \A c \in codes : c.code # new.code
        /\ \A a \in redeemed : a.code # new.code
        /\ \A q \in due \ {r} : pc[q] = "issue" => held[q].code # new.code
    BY <1>1, <2>1 DEF CodesInv, Spending
  <2>4. CodesSpentOnce'
    BY <1>1, <1>4, <2>1, <2>2, <2>3 DEF CodesInv, CodesSpentOnce
  <2>5. Gone'
    BY <1>1, <1>4, <2>3 DEF CodesInv, Gone
  <2>6. Spending'
    BY <1>1, <1>2, <1>4, <2>3 DEF CodesInv, Spending, Quiet, Verifier
  <2>7. Numbered' /\ Matched' /\ Progressing'
    BY <1>1, <1>2 DEF CodesInv, Numbered, Matched, Confirmations, Quiet, Progressing
  <2>. QED  BY <2>4, <2>5, <2>6, <2>7 DEF CodesInv
<1>. QED  BY <1>3, <1>4 DEF IssueToken

LEMMA InitCodes == Init => CodesInv
  BY FS_EmptySet DEF Init, RequestsInit, AccountsInit, CodesInv, Progressing, Numbered, Matched,
     Spending, Gone, CodesSpentOnce

LEMMA NextCodes == PlaceInv /\ CodesInv /\ [Next]_vars => CodesInv'
<1> SUFFICES ASSUME PlaceInv, CodesInv, [Next]_vars PROVE CodesInv'
  OBVIOUS
<1>0. Progressing /\ Placed
  BY DEF PlaceInv
<1> USE DEF signInVars, browserVars, cliVars, CodesLost
<1>1. ASSUME NEW r \in due, SignInSteps(r) PROVE CodesInv'
  BY <1>0, <1>1, SignInMoves, SignInQuiet, QuietKeepsCodes, RedeemKeepsCodes, IssueKeepsCodes DEF Steps
<1>2. ASSUME NEW c \in callbacks, NEW r \in due, Callback(c), TakesCallback(r, c),
             Steps(r, SignInOps)
      PROVE  CodesInv'
  <2>1. pc'[r] # "issue"
    BY <1>0, <1>2 DEF TakesCallback, Goto, Progressing
  <2>. QED  BY <1>2, <2>1, MovesQuiet, QuietKeepsCodes DEF Callback, Steps
<1>3. ASSUME NEW r \in due,
             Steps(r, AccessOps) \/ Steps(r, CatalogOps) \/ Steps(r, ScriptsOps) \/ Steps(r, CliSyncOps),
             UNCHANGED signInVars
      PROVE  CodesInv'
  <2>1. Moves(r) /\ r.op \notin {"cliLogin", "cliTokenAgain"} /\ PlacedAt(r.op, pc'[r])
    BY <1>3 DEF Steps, AccessOps, CatalogOps, ScriptsOps, CliSyncOps, ChangeOps, SaveOps
  <2>. QED  BY <1>3, <2>1, MovesQuiet, QuietKeepsCodes DEF PlacedAt
<1>4. CASE (\E r \in due : Fail(r)) \/ Restart
  BY <1>0, <1>4, FaultsQuiet, QuietKeepsCodes
<1>5. CASE Tick \/ (\E r \in due, b \in Browsers : AuthorizePage(r, b)) \/ UNCHANGED vars
  BY <1>0, <1>5, QuietKeepsCodes DEF Tick, AuthorizePage, vars, requestVars, Quiet, Progressing
<1>6. ASSUME NEW page \in shown, Authorize(page) PROVE CodesInv'
  BY <1>6, AuthorizeKeepsCodes
<1>. QED  BY <1>0, <1>1, <1>2, <1>3, <1>4, <1>5, <1>6, WhoseStep

\* A code of the command line login makes at most one session, for the one
\* who confirmed that very login, and before it runs out: issue and redeem of
\* src/internal/api/cli_auth.go under repeated calls, late callbacks, logins
\* that share a port, failures and restarts.
THEOREM CodesAreSpentOnce == Spec => []CodesSpentOnce
<1>1. Spec => [](PlaceInv /\ CodesInv)
  BY InitPlaced, NextPlaced, InitCodes, NextCodes, PTL DEF Spec
<1>2. CodesInv => CodesSpentOnce
  BY DEF CodesInv
<1>. QED  BY <1>1, <1>2, PTL

-----------------------------------------------------------------------------
(* Sessions are of whom they should be.                                    *)

UpsertOps == {"register", "signIn", "oidcLogin"}

\* Whom a session of an email may be of, among some users.
Authentic(these, exempt, email, id) ==
  email \in exempt \/ \E u \in these : u.email = email /\ u.id = id

\* A request that is about to write a user has the one there is, unless another
\* one was about to write it too; one that is about to make a session makes it
\* for its user.
Entering ==
  \A r \in due : r.op \in UpsertOps =>
    /\ pc[r] = "upsert" =>
         /\ held[r] = [id |-> held[r].id, email |-> r.email, password |-> held[r].password]
         /\ r.email \in split \/ \A u \in UserByEmail(r.email) : u.id = held[r].id
         /\ \A q \in due \ {r} :
              (q.op \in UpsertOps /\ pc[q] = "upsert" /\ q.email = r.email) => r.email \in split
    /\ pc[r] = "session" => Authentic(users, split, r.email, held[r].id)
    /\ \A s \in SessionOf(r.id) : Authentic(users, split, r.email, s.user)

SessionsInv == (\A u, v \in users : u.email = v.email => u = v) /\ Entering

\* No session is made, and nobody comes to write a user or to make a session.
LEMMA QuietKeepsSessions ==
  ASSUME SessionsInv, due' = due, users' = users, sessions' \subseteq sessions, split' = split,
         \A q \in due : pc'[q] \in {"upsert", "session"} => pc'[q] = pc[q] /\ held'[q] = held[q]
  PROVE  SessionsInv'
<1>1. ASSUME NEW q \in due, q.op \in UpsertOps
      PROVE  /\ pc'[q] = "session" => Authentic(users, split, q.email, held'[q].id)
             /\ \A s \in SessionOf(q.id)' : Authentic(users, split, q.email, s.user)
  BY <1>1 DEF SessionsInv, Entering, SessionOf
<1>2. ASSUME NEW q \in due, q.op \in UpsertOps, pc'[q] = "upsert"
      PROVE  /\ held'[q] = [id |-> held'[q].id, email |-> q.email, password |-> held'[q].password]
             /\ q.email \in split \/ \A u \in UserByEmail(q.email) : u.id = held'[q].id
             /\ \A p \in due \ {q} :
                  (p.op \in UpsertOps /\ pc'[p] = "upsert" /\ p.email = q.email) => q.email \in split
  BY <1>2 DEF SessionsInv, Entering
<1>. QED  BY <1>1, <1>2 DEF SessionsInv, Entering, UserByEmail

\* A user is looked up: by a request that may not be the only one.
LEMMA BeginUpsertKeepsSessions ==
  ASSUME Progressing, Placed, SessionsInv, NEW r \in due, NEW user,
         r.op \in {"register", "oidcLogin"}, user.email = r.email,
         user = [id |-> user.id, email |-> user.email, password |-> user.password],
         BeginUpsert(r, user), UNCHANGED <<users, sessions>>
  PROVE  SessionsInv'
<1> DEFINE known == UserByEmail(r.email)
           entry == IF known = {} THEN user ELSE [user EXCEPT !.id = (CHOOSE u \in known : TRUE).id]
<1>1. /\ due' = due /\ pc'[r] = "upsert" /\ held'[r] = entry
      /\ \A q \in due \ {r} : pc'[q] = pc[q] /\ held'[q] = held[q]
  BY DEF BeginUpsert, Goto, Progressing
<1>2. /\ entry = [id |-> entry.id, email |-> r.email, password |-> entry.password]
      /\ \A u \in known : u.id = entry.id
  <2>1. CASE known = {}
    BY <2>1
  <2>2. CASE known # {}
    <3>1. PICK v \in known : v = CHOOSE u \in known : TRUE
      BY <2>2
    <3>2. \A u \in known : u = v
      BY <3>1 DEF SessionsInv, UserByEmail
    <3>. QED  BY <2>2, <3>1, <3>2
  <2>. QED  BY <2>1, <2>2
<1>3. split \subseteq split' /\ (r.email \in split' \/ \A q \in due \ {r} :
                                   ~(q.op \in UpsertOps /\ pc[q] = "upsert" /\ q.email = r.email))
  <2>1. ASSUME NEW q \in due, q.op \in UpsertOps, pc[q] = "upsert" PROVE held[q].email = q.email
    <3>1. held[q] = [id |-> held[q].id, email |-> q.email, password |-> held[q].password]
      BY <2>1 DEF SessionsInv, Entering
    <3>. QED  BY <3>1
  <2>. QED  BY <2>1 DEF BeginUpsert
<1>4. \A email, id : Authentic(users, split, email, id) => Authentic(users', split', email, id)
  BY <1>3 DEF Authentic
<1>5. ASSUME NEW q \in due, q.op \in UpsertOps, pc'[q] = "upsert"
      PROVE  /\ held'[q] = [id |-> held'[q].id, email |-> q.email, password |-> held'[q].password]
             /\ q.email \in split' \/ \A u \in UserByEmail(q.email)' : u.id = held'[q].id
             /\ \A p \in due \ {q} :
                  (p.op \in UpsertOps /\ pc'[p] = "upsert" /\ p.email = q.email) => q.email \in split'
  <2>1. CASE q = r
    BY <1>1, <1>2, <1>3, <2>1 DEF UserByEmail
  <2>2. CASE q # r
    BY <1>1, <1>3, <1>5, <2>2 DEF SessionsInv, Entering, UserByEmail
  <2>. QED  BY <2>1, <2>2
<1>6. ASSUME NEW q \in due, q.op \in UpsertOps
      PROVE  /\ pc'[q] = "session" => Authentic(users', split', q.email, held'[q].id)
             /\ \A s \in SessionOf(q.id)' : Authentic(users', split', q.email, s.user)
  BY <1>1, <1>4, <1>6 DEF SessionsInv, Entering, SessionOf
<1>. QED  BY <1>1, <1>5, <1>6 DEF SessionsInv, Entering

\* The user is written: the one of the email, or a new one.
LEMMA UpsertKeepsSessions ==
  ASSUME Progressing, Placed, SessionsInv, NEW r \in due, Upsert(r)
  PROVE  SessionsInv'
<1> DEFINE e == r.email
<1>1. pc[r] = "upsert" /\ r.op \in UpsertOps
  BY DEF Upsert, Placed, PlacedAt, UpsertOps
<1>2. /\ held[r] = [id |-> held[r].id, email |-> e, password |-> held[r].password]
      /\ e \in split \/ \A u \in UserByEmail(e) : u.id = held[r].id
  BY <1>1 DEF SessionsInv, Entering
<1>3. held[r].email = e
  BY <1>2
<1>4. /\ due' = due /\ pc'[r] = "session" /\ held'[r] = held[r]
      /\ \A q \in due \ {r} : pc'[q] = pc[q] /\ held'[q] = held[q]
      /\ sessions' = sessions /\ split' = split
  BY DEF Upsert, Goto, Progressing, signInVars
<1>5. /\ UserByEmail(e)' = IF UserByEmail(e) = {} THEN {held[r]}
                           ELSE {[held[r] EXCEPT !.id = u.id] : u \in UserByEmail(e)}
      /\ \A email : email # e => UserByEmail(email)' = UserByEmail(email)
      /\ users' = {u \in users : u.email # e} \cup UserByEmail(e)'
  <2>1. CASE UserByEmail(e) = {}
    BY <1>3, <2>1 DEF Upsert, UpsertUser, UserByEmail
  <2>2. CASE UserByEmail(e) # {}
    <3>1. users' = {IF u.email = e THEN [held[r] EXCEPT !.id = u.id] ELSE u : u \in users}
      BY <1>3, <2>2 DEF Upsert, UpsertUser
    <3>2. \A u : [held[r] EXCEPT !.id = u.id].email = e
      BY <1>2
    <3>. QED  BY <2>2, <3>1, <3>2 DEF UserByEmail
  <2>. QED  BY <2>1, <2>2
<1>6. \A u, v \in users' : u.email = v.email => u = v
  <2>1. \A u, v \in UserByEmail(e)' : u = v
    BY <1>5 DEF SessionsInv, UserByEmail
  <2>2. \A u \in UserByEmail(e)' : u.email = e
    BY DEF UserByEmail
  <2>. QED  BY <1>5, <2>1, <2>2 DEF SessionsInv
<1>7. \A id : (\E u \in UserByEmail(e) : u.id = id) => \E u \in UserByEmail(e)' : u.id = id
  <2>1. \A u : [held[r] EXCEPT !.id = u.id].id = u.id
    BY <1>2
  <2>. QED  BY <1>5, <2>1
<1>8. \A email, id : Authentic(users, split, email, id) => Authentic(users', split', email, id)
  BY <1>4, <1>5, <1>7 DEF Authentic, UserByEmail
<1>9. Authentic(users', split', e, held[r].id)
  <2>1. CASE UserByEmail(e) = {}
    BY <1>3, <1>5, <2>1 DEF Authentic
  <2>2. CASE UserByEmail(e) # {}
    <3>1. Authentic(users, split, e, held[r].id)
      BY <1>2, <2>2 DEF Authentic, UserByEmail
    <3>. QED  BY <1>8, <3>1
  <2>. QED  BY <2>1, <2>2
<1>10. ASSUME NEW q \in due, q.op \in UpsertOps, pc'[q] = "upsert"
       PROVE  /\ held'[q] = [id |-> held'[q].id, email |-> q.email, password |-> held'[q].password]
              /\ q.email \in split' \/ \A u \in UserByEmail(q.email)' : u.id = held'[q].id
              /\ \A p \in due \ {q} :
                   (p.op \in UpsertOps /\ pc'[p] = "upsert" /\ p.email = q.email) => q.email \in split'
  <2>1. q # r /\ pc[q] = "upsert" /\ held'[q] = held[q]
    BY <1>4, <1>10
  <2>2. q.email = e => e \in split
    BY <1>1, <1>10, <2>1 DEF SessionsInv, Entering
  <2>. QED  BY <1>4, <1>5, <1>10, <2>1, <2>2 DEF SessionsInv, Entering
<1>11. ASSUME NEW q \in due, q.op \in UpsertOps
       PROVE  /\ pc'[q] = "session" => Authentic(users', split', q.email, held'[q].id)
              /\ \A s \in SessionOf(q.id)' : Authentic(users', split', q.email, s.user)
  BY <1>4, <1>8, <1>9, <1>11 DEF SessionsInv, Entering, SessionOf
<1>. QED  BY <1>4, <1>6, <1>10, <1>11 DEF SessionsInv, Entering

\* A session is made: for the user of the request, or for a login of the
\* command line.
LEMMA CreateKeepsSessions ==
  ASSUME Progressing, SessionsInv, NEW r \in due, NEW id, NEW expires,
         CreateSession(r.id, id, expires), r.op \in UpsertOps => Authentic(users, split, r.email, id),
         due' = due, users' = users, split' = split,
         \A q \in due : pc'[q] \in {"upsert", "session"} => pc'[q] = pc[q] /\ held'[q] = held[q]
  PROVE  SessionsInv'
<1>1. ASSUME NEW q \in due, q.op \in UpsertOps, NEW s \in SessionOf(q.id)'
      PROVE  Authentic(users, split, q.email, s.user)
  <2>1. CASE s \in sessions
    BY <1>1, <2>1 DEF SessionsInv, Entering, SessionOf
  <2>2. CASE s = [token |-> r.id, user |-> id, expires |-> expires]
    <3>1. q = r
      BY <1>1, <2>2, RequestAssumption DEF SessionOf, Progressing
    <3>. QED  BY <1>1, <2>2, <3>1
  <2>. QED  BY <2>1, <2>2 DEF CreateSession, SessionOf
<1>. QED  BY <1>1 DEF SessionsInv, Entering, UserByEmail

\* None of the other sign-in handlers makes a user or a session.
LEMMA SignInKeepsSessions ==
  ASSUME Progressing, Placed, SessionsInv, NEW r \in due, SignInSteps(r)
  PROVE  SessionsInv'
<1>0. /\ due' = due /\ DOMAIN pc = due /\ DOMAIN held = due
      /\ \A q \in due \ {r} : pc'[q] = pc[q] /\ held'[q] = held[q]
  BY SignInMoves DEF Steps, Moves, Progressing
<1> USE DEF signInVars, storeVars, accountVars, Goto, Answer
<1> SUFFICES ASSUME ~ /\ users' = users /\ sessions' \subseteq sessions /\ split' = split
                      /\ pc'[r] \notin {"upsert", "session"}
             PROVE  SessionsInv'
  BY <1>0, QuietKeepsSessions
<1>1. CASE Register(r)
  <2>1. r.valid /\ BeginUpsert(r, [id |-> r.id, email |-> r.email, password |-> r.password])
    BY <1>0, <1>1 DEF Register
  <2>. QED  BY <1>1, <2>1, BeginUpsertKeepsSessions DEF Register, At
<1>2. CASE OIDCCallback(r)
  <2>1. BeginUpsert(r, [id |-> r.id, email |-> r.email, password |-> Nothing])
    BY <1>0, <1>2 DEF OIDCCallback
  <2>. QED  BY <1>2, <2>1, BeginUpsertKeepsSessions DEF OIDCCallback, At
<1>3. CASE Upsert(r)
  BY <1>3, UpsertKeepsSessions
<1>4. CASE Login(r)
  <2>1. PICK u \in UserByEmail(r.email) : Goto(r, "session", u)
    BY <1>0, <1>4 DEF Login
  <2>2. pc'[r] = "session" /\ held'[r] = u /\ UNCHANGED <<users, sessions, split>>
    BY <1>0, <1>4, <2>1 DEF Login
  <2>3. Authentic(users, split, r.email, u.id)
    BY DEF Authentic, UserByEmail
  <2>. QED  BY <1>0, <2>2, <2>3 DEF SessionsInv, Entering, SessionOf, UserByEmail
<1>5. CASE OpenSession(r)
  <2>1. Authentic(users, split, r.email, held[r].id)
    BY <1>5 DEF OpenSession, SessionsInv, Entering, UpsertOps
  <2>2. pc'[r] = "done" /\ users' = users /\ split' = split
    BY <1>0, <1>5 DEF OpenSession
  <2>. QED  BY <1>0, <1>5, <2>1, <2>2, CreateKeepsSessions DEF OpenSession
<1>6. CASE IssueToken(r)
  <2>1. r.op \notin UpsertOps
    BY <1>6 DEF IssueToken, Placed, PlacedAt, UpsertOps
  <2>2. pc'[r] \in {"store", "done"} /\ users' = users /\ split' = split
    BY <1>0, <1>6 DEF IssueToken
  <2>3. CreateSession(r.id, held[r].user, clock + CliSessionTTL)
    BY <2>2, <1>6 DEF IssueToken
  <2>. QED  BY <1>0, <2>1, <2>2, <2>3, CreateKeepsSessions
<1>. QED
  BY <1>0, <1>1, <1>2, <1>3, <1>4, <1>5, <1>6
  DEF SignInSteps, Me, Logout, OIDCStart, BrowserLogin, LoginTimesOut, ResendToken, Redeem,
      SaveCredentials, CliLogout, RemoveCredentials, DropExpired, DeleteSession

LEMMA InitSessions == Init => SessionsInv
  BY StoreAssumption DEF Init, RequestsInit, StoreInit, SessionsInv, Entering, SessionOf

LEMMA NextSessions == PlaceInv /\ SessionsInv /\ [Next]_vars => SessionsInv'
<1> SUFFICES ASSUME PlaceInv, SessionsInv, [Next]_vars PROVE SessionsInv'
  OBVIOUS
<1>0. Progressing /\ Placed
  BY DEF PlaceInv
<1> USE DEF accountVars, signInVars, storeVars
<1>1. ASSUME NEW r \in due, SignInSteps(r) PROVE SessionsInv'
  BY <1>0, <1>1, SignInKeepsSessions
<1>2. ASSUME NEW c \in callbacks, NEW r \in due, Callback(c), TakesCallback(r, c),
             Steps(r, SignInOps)
      PROVE  SessionsInv'
  <2>1. pc'[r] = "redeem"
    BY <1>0, <1>2 DEF TakesCallback, Goto, Progressing
  <2>. QED  BY <1>2, <2>1, QuietKeepsSessions DEF Callback, Steps, Moves
<1>3. ASSUME NEW r \in due,
             Steps(r, AccessOps) \/ Steps(r, CatalogOps) \/ Steps(r, ScriptsOps) \/ Steps(r, CliSyncOps),
             UNCHANGED <<signInVars, accountVars>>
      PROVE  SessionsInv'
  <2>1. Moves(r) /\ r.op \notin UpsertOps /\ PlacedAt(r.op, pc'[r])
    BY <1>3 DEF Steps, AccessOps, CatalogOps, ScriptsOps, CliSyncOps, ChangeOps, SaveOps, UpsertOps
  <2>2. pc'[r] \notin {"upsert", "session"}
    BY <2>1 DEF PlacedAt, UpsertOps
  <2>. QED  BY <1>3, <2>1, <2>2, QuietKeepsSessions DEF Moves
<1>4. ASSUME NEW r \in due, Fail(r) PROVE SessionsInv'
  <2>1. Moves(r) /\ pc'[r] \notin {"upsert", "session"}
    BY <1>0, <1>4, FailSteps
  <2>. QED  BY <1>4, <2>1, QuietKeepsSessions DEF Moves, Fail
<1>5. CASE Restart
  <2>1. /\ due' = due
        /\ \A q \in due : pc'[q] \in {"upsert", "session"} => pc'[q] = pc[q] /\ held'[q] = held[q]
    BY <1>0, <1>5, RestartSteps
  <2>. QED  BY <1>5, <2>1, QuietKeepsSessions DEF Restart
<1>6. CASE Tick \/ (\E r \in due, b \in Browsers : AuthorizePage(r, b)) \/ UNCHANGED vars
  BY <1>6, QuietKeepsSessions DEF Tick, AuthorizePage, vars, requestVars, DropExpired
<1>7. ASSUME NEW page \in shown, Authorize(page) PROVE SessionsInv'
  BY <1>7, QuietKeepsSessions DEF Authorize, requestVars, DropExpired
<1>. QED  BY <1>0, <1>1, <1>2, <1>3, <1>4, <1>5, <1>6, <1>7, WhoseStep

\* Who registers or signs in gets a session of the user of the email, whatever
\* else goes on: UpsertUserByEmail of src/internal/systemdb/db.go looks a user
\* up and writes it in two statements, and registration, password and OIDC
\* login of the same email may run at the same time.
THEOREM SessionsAreAuthentic == Spec => []SessionsAuthenticate
<1>1. Spec => [](PlaceInv /\ SessionsInv)
  BY InitPlaced, NextPlaced, InitSessions, NextSessions, PTL DEF Spec
<1>2. SessionsInv => SessionsAuthenticate
  BY DEF SessionsInv, Entering, Authentic, SessionsAuthenticate, UpsertOps
<1>. QED  BY <1>1, <1>2, PTL

-----------------------------------------------------------------------------
(* Logins of the command line are refused in their time only.              *)

\* What is known of who confirmed a login, and of when.
Dated ==
  /\ clock \in Nat /\ faults \in Nat
  /\ \A d \in confirmed : d.at \in Nat /\ User(d.user) # {}

\* A code on its way to a port, or held by a call that redeems it, was confirmed
\* for that login.
OnTheWay ==
  /\ \A c \in callbacks : \E d \in confirmed : d.code = c.code /\ d.login = c.state
  /\ \A r \in due : pc[r] = "redeem" =>
       \E d \in confirmed : d.code = held[r].code /\ d.login = Verifier(r)

\* The login has its session, or is about to.
Taken(r) == r.op = "cliLogin" /\ pc[r] \in {"issue", "store", "done"}

\* What may get in the way of a code: a failure, time, a repeated call.
Hindered(d) ==
  \/ faults > 0
  \/ clock > d.at + CodeTTL
  \/ \E q \in due : q.op = "cliTokenAgain" /\ q.login = d.login /\ pc[q] # "start"

\* Otherwise a confirmed code waits for its login.
Waits(d) == \E c \in codes : c.code = d.code /\ c.challenge = d.login /\ c.expires = d.at + CodeTTL
Kept ==
  \A d \in confirmed : Hindered(d) \/ (\E r \in due : r.id = d.login /\ Taken(r)) \/ Waits(d)

LoginsInv == Dated /\ OnTheWay /\ Kept /\ LoginFailsInTime

\* What a step may not undo: time and failures, what is confirmed, who exists,
\* and how far requests are; and no call comes to redeem a code, or is refused.
GoesForth ==
  /\ due' = due
  /\ clock' \in Nat /\ clock' >= clock /\ faults' \in Nat /\ faults' >= faults
  /\ confirmed \subseteq confirmed'
  /\ \A u \in users : \E v \in users' : v.id = u.id
  /\ \A q \in due : pc[q] # "start" => pc'[q] # "start"
  /\ \A q \in due : Taken(q) => Taken(q)'

StaysPut ==
  /\ confirmed' = confirmed /\ callbacks' = callbacks
  /\ codes' = codes \/ faults' > 0
  /\ \A q \in due : pc'[q] = "redeem" => pc[q] = "redeem" /\ held'[q] = held[q]
  /\ \A q \in due : q.op = "cliLogin" /\ result'[q] = "unauthorized" => result[q] = "unauthorized"

\* What hinders a code does so from then on, and a refusal stays accounted for.
LEMMA HindersOn ==
  ASSUME LoginsInv, GoesForth
  PROVE  /\ \A d \in confirmed : Hindered(d) => Hindered(d)'
         /\ \A d \in confirmed : (\E r \in due : r.id = d.login /\ Taken(r)) =>
                                 (\E r \in due' : r.id = d.login /\ Taken(r)')
         /\ \A d \in confirmed : User(d.user)' # {}
         /\ \A r \in due : r.op = "cliLogin" /\ result[r] = "unauthorized" =>
              \/ faults' > 0
              \/ \E c \in Confirmations(r.id)' : clock' > c.at + CodeTTL
              \/ \E q \in due' : q.op = "cliTokenAgain" /\ q.login = r.id /\ pc'[q] # "start"
<1>1. CodeTTL \in Nat /\ clock \in Nat /\ faults \in Nat /\ \A d \in confirmed : d.at \in Nat
  BY AccountAssumption DEF LoginsInv, Dated
<1>2. \A d \in confirmed : clock > d.at + CodeTTL => clock' > d.at + CodeTTL
  BY <1>1 DEF GoesForth
<1>3. faults > 0 => faults' > 0
  BY <1>1 DEF GoesForth
<1>4. \A d \in confirmed : Hindered(d) => Hindered(d)'
  BY <1>2, <1>3 DEF Hindered, GoesForth
<1>5. \A d \in confirmed : (\E r \in due : r.id = d.login /\ Taken(r)) =>
                           (\E r \in due' : r.id = d.login /\ Taken(r)')
  BY DEF GoesForth
<1>6. \A d \in confirmed : User(d.user)' # {}
  BY DEF LoginsInv, Dated, User, GoesForth
<1>7. ASSUME NEW r \in due, r.op = "cliLogin", result[r] = "unauthorized"
      PROVE  \/ faults' > 0
             \/ \E c \in Confirmations(r.id)' : clock' > c.at + CodeTTL
             \/ \E q \in due' : q.op = "cliTokenAgain" /\ q.login = r.id /\ pc'[q] # "start"
  BY <1>2, <1>3, <1>7 DEF LoginsInv, LoginFailsInTime, Confirmations, GoesForth
<1>. QED  BY <1>4, <1>5, <1>6, <1>7

LEMMA StaysPutKeepsLogins ==
  ASSUME LoginsInv, GoesForth, StaysPut
  PROVE  LoginsInv'
<1>1. Dated'
  BY HindersOn DEF LoginsInv, Dated, GoesForth, StaysPut
<1>2. OnTheWay'
  BY DEF LoginsInv, OnTheWay, StaysPut, GoesForth, Verifier
<1>3. Kept'
  <2> SUFFICES ASSUME NEW d \in confirmed
               PROVE  Hindered(d)' \/ (\E r \in due' : r.id = d.login /\ Taken(r)') \/ Waits(d)'
    BY DEF Kept, StaysPut
  <2>1. CASE faults' > 0
    BY <2>1 DEF Hindered
  <2>2. CASE codes' = codes
    BY <2>2, HindersOn DEF LoginsInv, Kept, Waits
  <2>. QED  BY <2>1, <2>2 DEF StaysPut
<1>4. LoginFailsInTime'
  BY HindersOn DEF LoginFailsInTime, StaysPut, GoesForth
<1>. QED  BY <1>1, <1>2, <1>3, <1>4 DEF LoginsInv

\* A new code waits; those that are swept ran out.
LEMMA AuthorizeKeepsLogins ==
  ASSUME PlaceInv, CodesInv, LoginsInv, NEW page \in shown, Authorize(page)
  PROVE  LoginsInv'
<1>1. /\ UNCHANGED <<due, pc, result, held, faults, users, clock>>
  BY DEF Authorize, requestVars
<1>2. CodeTTL \in Nat /\ clock \in Nat /\ faults \in Nat /\ \A d \in confirmed : d.at \in Nat
  BY AccountAssumption DEF LoginsInv, Dated
<1>3. CASE UNCHANGED <<codes, callbacks, confirmed>>
  BY <1>1, <1>2, <1>3, StaysPutKeepsLogins DEF GoesForth, StaysPut, Taken
<1>4. CASE ~UNCHANGED <<codes, callbacks, confirmed>>
  <2> DEFINE login == page.login
             code == <<login, Cardinality(Confirmations(login))>>
  <2>1. PICK u \in CookieUser(page.browser) :
          /\ codes' = {c \in codes : clock <= c.expires} \cup
                      {[code |-> code, user |-> u.id, challenge |-> login, expires |-> clock + CodeTTL]}
          /\ callbacks' = callbacks \cup {[port |-> page.port, state |-> login, code |-> code]}
          /\ confirmed' = confirmed \cup {[login |-> login, user |-> u.id, code |-> code, at |-> clock]}
    BY <1>4 DEF Authorize
  <2>2. PICK new : new = [login |-> login, user |-> u.id, code |-> code, at |-> clock]
    OBVIOUS
  <2>3. /\ confirmed' = confirmed \cup {new} /\ new \in confirmed'
        /\ new.login = login /\ new.user = u.id /\ new.code = code /\ new.at = clock
    BY <2>1, <2>2
  <2>4. GoesForth
    BY <1>1, <1>2, <2>3 DEF GoesForth, Taken
  <2>5. User(u.id)' # {}
    BY <1>1 DEF User, CookieUser, UserBySessionToken
  <2>6. Dated'
    BY <1>1, <1>2, <2>3, <2>4, <2>5, HindersOn DEF Dated
  <2>7. OnTheWay'
    <3>1. \A c \in callbacks' : c \in callbacks \/ (c.code = code /\ c.state = login)
      BY <2>1
    <3>. QED  BY <1>1, <2>3, <3>1 DEF LoginsInv, OnTheWay, Verifier
  <2>8. Kept'
    <3>1. Waits(new)'
      <4>1. PICK c : c = [code |-> code, user |-> u.id, challenge |-> login, expires |-> clock + CodeTTL]
        OBVIOUS
      <4>2. c \in codes' /\ c.code = code /\ c.challenge = login /\ c.expires = clock + CodeTTL
        BY <2>1, <4>1
      <4>. QED  BY <2>3, <4>2 DEF Waits
    <3>2. ASSUME NEW d \in confirmed
          PROVE  Hindered(d)' \/ (\E r \in due' : r.id = d.login /\ Taken(r)') \/ Waits(d)'
      <4>1. CASE Waits(d)
        <5>1. PICK c \in codes : c.code = d.code /\ c.challenge = d.login /\ c.expires = d.at + CodeTTL
          BY <4>1 DEF Waits
        <5>2. CASE clock <= c.expires
          BY <5>1, <5>2, <2>1 DEF Waits
        <5>3. CASE ~(clock <= c.expires)
          BY <1>1, <1>2, <5>1, <5>3 DEF Hindered
        <5>. QED  BY <5>2, <5>3
      <4>2. CASE ~Waits(d)
        BY <2>4, <4>2, HindersOn DEF LoginsInv, Kept
      <4>. QED  BY <4>1, <4>2
    <3>. QED  BY <2>3, <3>1, <3>2 DEF Kept
  <2>9. LoginFailsInTime'
    BY <1>1, <2>4, HindersOn DEF LoginFailsInTime
  <2>. QED  BY <2>6, <2>7, <2>8, <2>9 DEF LoginsInv
<1>. QED  BY <1>3, <1>4

\* The call that redeems a code finds it, unless it is hindered.
LEMMA RedeemKeepsLogins ==
  ASSUME PlaceInv, CodesInv, LoginsInv, NEW r \in due, Redeem(r)
  PROVE  LoginsInv'
<1>1. pc[r] = "redeem" /\ r.op \in {"cliLogin", "cliTokenAgain"}
  BY DEF Redeem, PlaceInv, Placed, PlacedAt
<1>2. /\ due' = due /\ faults' = faults /\ pc'[r] \in {"issue", "done"}
      /\ \A q \in due \ {r} : pc'[q] = pc[q] /\ held'[q] = held[q] /\ result'[q] = result[q]
  BY DEF Redeem, Goto, Answer, PlaceInv, Progressing
<1>3. UNCHANGED <<confirmed, callbacks, clock, users>> /\ codes' = CodesWithout(held[r].code)
  BY DEF Redeem, browserVars, storeVars, accountVars
<1>4. CodeTTL \in Nat /\ clock \in Nat /\ faults \in Nat /\ \A d \in confirmed : d.at \in Nat
  BY AccountAssumption DEF LoginsInv, Dated
<1>5. GoesForth
  BY <1>1, <1>2, <1>3, <1>4 DEF GoesForth, Taken
<1>6. PICK d \in confirmed : d.code = held[r].code /\ d.login = Verifier(r)
  BY <1>1 DEF LoginsInv, OnTheWay
<1>7. \A e \in confirmed : e.code = d.code => e.login = d.login
  BY DEF CodesInv, Numbered
<1>8. Dated' /\ OnTheWay'
  BY <1>2, <1>3, <1>4, <1>5, HindersOn DEF LoginsInv, Dated, OnTheWay, Verifier
<1>9. Kept'
  <2> SUFFICES ASSUME NEW e \in confirmed
               PROVE  Hindered(e)' \/ (\E q \in due' : q.id = e.login /\ Taken(q)') \/ Waits(e)'
    BY <1>3 DEF Kept
  <2>1. CASE e.code = d.code /\ r.op = "cliLogin"
    BY <1>2, <1>6, <1>7, <2>1 DEF Taken, Verifier
  <2>2. CASE e.code = d.code /\ r.op = "cliTokenAgain"
    BY <1>2, <1>6, <1>7, <2>2 DEF Hindered, Verifier
  <2>3. CASE e.code # d.code
    <3>1. Waits(e) => Waits(e)'
      BY <1>3, <1>6, <2>3 DEF Waits, CodesWithout
    <3>. QED  BY <1>5, <3>1, HindersOn DEF LoginsInv, Kept
  <2>. QED  BY <1>1, <2>1, <2>2, <2>3
<1>10. LoginFailsInTime'
  <2> SUFFICES ASSUME NEW q \in due, q.op = "cliLogin", result'[q] = "unauthorized"
               PROVE  \/ faults' > 0
                      \/ \E c \in Confirmations(q.id)' : clock' > c.at + CodeTTL
                      \/ \E p \in due' : p.op = "cliTokenAgain" /\ p.login = q.id /\ pc'[p] # "start"
    BY <1>2 DEF LoginFailsInTime
  <2>1. CASE result[q] = "unauthorized"
    BY <1>5, <2>1, HindersOn
  <2>2. CASE result[q] # "unauthorized"
    <3>1. q = r /\ pc'[r] = "done"
      <4>1. q = r
        BY <1>2, <2>2
      <4>2. ~ \E value : Goto(r, "issue", value)
        BY <2>2, <4>1 DEF Goto
      <4>3. Answer(r, "unauthorized")
        BY <4>2 DEF Redeem
      <4>. QED  BY <4>1, <4>3 DEF Answer, PlaceInv, Progressing
    <3>2. ~Waits(d) \/ clock > d.at + CodeTTL
      BY <1>1, <1>4, <1>6, <3>1 DEF Redeem, Goto, Waits, PlaceInv, Progressing
    <3>3. \A p \in due : p.id = d.login => ~Taken(p)
      BY <1>1, <1>6, <3>1, RequestAssumption DEF Taken, Verifier, PlaceInv, Progressing
    <3>4. Hindered(d)
      BY <3>2, <3>3 DEF LoginsInv, Kept, Hindered
    <3>5. d \in Confirmations(q.id) /\ d.login = q.id
      BY <1>6, <3>1 DEF Confirmations, Verifier
    <3>. QED  BY <1>1, <1>2, <1>3, <3>4, <3>5 DEF Hindered, Confirmations
  <2>. QED  BY <2>1, <2>2
<1>. QED  BY <1>8, <1>9, <1>10 DEF LoginsInv

\* Its user exists, so that it gets its session.
LEMMA IssueKeepsLogins ==
  ASSUME PlaceInv, CodesInv, LoginsInv, NEW r \in due, IssueToken(r)
  PROVE  LoginsInv'
<1>1. User(held[r].user) # {}
  <2>1. \E d \in confirmed : d.user = held[r].user
    BY DEF IssueToken, CodesInv, Spending
  <2>. QED  BY <2>1 DEF LoginsInv, Dated
<1>2. /\ due' = due /\ faults' = faults /\ pc'[r] \in {"store", "done"} /\ result'[r] \in {result[r], "ok"}
      /\ \A q \in due \ {r} : pc'[q] = pc[q] /\ held'[q] = held[q] /\ result'[q] = result[q]
  BY <1>1 DEF IssueToken, Goto, Answer, PlaceInv, Progressing
<1>3. UNCHANGED <<confirmed, callbacks, codes, clock, users>>
  BY DEF IssueToken, browserVars
<1>. QED  BY <1>2, <1>3, StaysPutKeepsLogins DEF GoesForth, StaysPut, Taken, LoginsInv, Dated

\* A callback brings a login its own code.
LEMMA CallbackKeepsLogins ==
  ASSUME PlaceInv, LoginsInv, NEW r \in due, NEW c \in callbacks, Callback(c), TakesCallback(r, c)
  PROVE  LoginsInv'
<1>1. /\ due' = due /\ faults' = faults /\ pc'[r] = "redeem" /\ result' = result
      /\ held'[r] = [code |-> c.code] /\ pc[r] = "waiting" /\ r.op = "cliLogin" /\ c.state = r.id
      /\ \A q \in due \ {r} : pc'[q] = pc[q] /\ held'[q] = held[q]
  BY DEF TakesCallback, Awaited, Goto, PlaceInv, Progressing
<1>2. UNCHANGED <<confirmed, callbacks, codes, clock, users>>
  BY DEF Callback, signInVars, browserVars, cliVars, storeVars, accountVars
<1>3. GoesForth
  BY <1>1, <1>2 DEF GoesForth, Taken, LoginsInv, Dated
<1>4. PICK d \in confirmed : d.code = c.code /\ d.login = r.id
  BY <1>1 DEF LoginsInv, OnTheWay
<1>5. OnTheWay'
  BY <1>1, <1>2, <1>4 DEF LoginsInv, OnTheWay, Verifier
<1>. QED  BY <1>1, <1>2, <1>3, <1>5, HindersOn
          DEF LoginsInv, Dated, Kept, Waits, LoginFailsInTime, Confirmations

\* A repeated call has the code of the login that it repeats.
LEMMA ResendKeepsLogins ==
  ASSUME PlaceInv, LoginsInv, NEW r \in due, ResendToken(r)
  PROVE  LoginsInv'
<1>1. PICK l \in due : l.id = r.login /\ pc[l] = "redeem" /\ Goto(r, "redeem", held[l])
  BY DEF ResendToken
<1>2. /\ due' = due /\ faults' = faults /\ pc'[r] = "redeem" /\ result' = result
      /\ held'[r] = held[l] /\ pc[r] = "start" /\ r.op = "cliTokenAgain"
      /\ \A q \in due \ {r} : pc'[q] = pc[q] /\ held'[q] = held[q]
  BY <1>1 DEF ResendToken, At, Goto, PlaceInv, Progressing
<1>3. UNCHANGED <<confirmed, callbacks, codes, clock, users>>
  BY DEF ResendToken, signInVars, browserVars, cliVars, storeVars, accountVars
<1>4. GoesForth
  BY <1>2, <1>3 DEF GoesForth, Taken, LoginsInv, Dated
<1>5. l.op = "cliLogin"
  BY <1>1, <1>2, RequestAssumption, AccountAssumption DEF PlaceInv, Progressing
<1>6. OnTheWay'
  BY <1>1, <1>2, <1>3, <1>5 DEF LoginsInv, OnTheWay, Verifier
<1>. QED  BY <1>2, <1>3, <1>4, <1>6, HindersOn
          DEF LoginsInv, Dated, Kept, Waits, LoginFailsInTime, Confirmations

\* A user that is written again keeps its id.
LEMMA UpsertKeepsIds ==
  ASSUME SessionsInv, NEW r \in due, pc[r] = "upsert", r.op \in UpsertOps, Upsert(r)
  PROVE  \A u \in users : \E v \in users' : v.id = u.id
<1>1. held[r] = [id |-> held[r].id, email |-> r.email, password |-> held[r].password]
  BY DEF SessionsInv, Entering
<1>2. CASE UserByEmail(held[r].email) = {}
  BY <1>2 DEF Upsert, UpsertUser
<1>3. CASE UserByEmail(held[r].email) # {}
  <2>1. users' = {IF u.email = held[r].email THEN [held[r] EXCEPT !.id = u.id] ELSE u : u \in users}
    BY <1>3 DEF Upsert, UpsertUser
  <2>2. \A u : [held[r] EXCEPT !.id = u.id].id = u.id
    BY <1>1
  <2>. QED  BY <2>1, <2>2
<1>. QED  BY <1>2, <1>3

\* The other sign-in handlers do nothing with a code.
LEMMA SignInKeepsLogins ==
  ASSUME PlaceInv, CodesInv, SessionsInv, LoginsInv, NEW r \in due, SignInSteps(r)
  PROVE  LoginsInv'
<1>0. Progressing /\ Placed
  BY DEF PlaceInv
<1>1. Moves(r) /\ faults' = faults
  BY <1>0, SignInMoves DEF Steps
<1>2. CASE Redeem(r) \/ IssueToken(r) \/ ResendToken(r)
  BY <1>2, RedeemKeepsLogins, IssueKeepsLogins, ResendKeepsLogins
<1>3. CASE ~(Redeem(r) \/ IssueToken(r) \/ ResendToken(r))
  <2>1. /\ UNCHANGED <<confirmed, callbacks, codes, clock>>
        /\ pc'[r] # "redeem" /\ (Taken(r) => Taken(r)')
        /\ r.op = "cliLogin" /\ result'[r] = "unauthorized" => result[r] = "unauthorized"
    <3> USE <1>0, <1>3 DEF signInVars, browserVars, cliVars, Goto, Answer, Taken, At, Progressing
    <3>1. CASE Register(r) \/ OIDCCallback(r) \/ Upsert(r) \/ OpenSession(r)
      BY <3>1 DEF Register, OIDCCallback, BeginUpsert, Upsert, OpenSession, Placed, PlacedAt
    <3>2. CASE Login(r) \/ Me(r) \/ Logout(r) \/ OIDCStart(r)
      BY <3>2 DEF Login, Me, Logout, OIDCStart
    <3>3. CASE BrowserLogin(r) \/ LoginTimesOut(r) \/ SaveCredentials(r)
      BY <3>3 DEF BrowserLogin, LoginTimesOut, SaveCredentials
    <3>4. CASE CliLogout(r) \/ RemoveCredentials(r)
      BY <3>4 DEF CliLogout, RemoveCredentials
    <3>. QED  BY <3>1, <3>2, <3>3, <3>4 DEF SignInSteps
  <2>2. \A u \in users : \E v \in users' : v.id = u.id
    <3>1. CASE Upsert(r)
      <4>1. pc[r] = "upsert" /\ r.op \in UpsertOps
        BY <1>0, <3>1 DEF Upsert, Placed, PlacedAt, UpsertOps
      <4>. QED  BY <3>1, <4>1, UpsertKeepsIds
    <3>2. CASE ~Upsert(r)
      <4>1. users' = users
        BY <1>3, <3>2 DEF SignInSteps, Register, Login, OpenSession, Me, Logout, OIDCStart, OIDCCallback,
           BrowserLogin, LoginTimesOut, SaveCredentials, CliLogout, RemoveCredentials,
           storeVars, accountVars
      <4>. QED  BY <4>1
    <3>. QED  BY <3>1, <3>2
  <2>3. clock \in Nat /\ faults \in Nat
    BY DEF LoginsInv, Dated
  <2>4. GoesForth
    BY <1>1, <2>1, <2>2, <2>3 DEF GoesForth, Moves, Taken
  <2>5. StaysPut
    BY <1>1, <2>1 DEF StaysPut, Moves
  <2>. QED  BY <2>4, <2>5, StaysPutKeepsLogins
<1>. QED  BY <1>2, <1>3

LEMMA InitLogins == Init => LoginsInv
  BY RequestAssumption
  DEF Init, RequestsInit, AccountsInit, LoginsInv, Dated, OnTheWay, Kept, LoginFailsInTime

LEMMA NextLogins == PlaceInv /\ CodesInv /\ SessionsInv /\ LoginsInv /\ [Next]_vars => LoginsInv'
<1> SUFFICES ASSUME PlaceInv, CodesInv, SessionsInv, LoginsInv, [Next]_vars PROVE LoginsInv'
  OBVIOUS
<1>0. /\ Progressing /\ Placed
      /\ clock \in Nat /\ faults \in Nat
  BY DEF PlaceInv, LoginsInv, Dated
<1> USE DEF accountVars, signInVars, storeVars, browserVars, cliVars
<1>1. ASSUME NEW r \in due, SignInSteps(r) PROVE LoginsInv'
  BY <1>1, SignInKeepsLogins
<1>2. ASSUME NEW c \in callbacks, NEW r \in due, Callback(c), TakesCallback(r, c)
      PROVE  LoginsInv'
  BY <1>2, CallbackKeepsLogins
<1>3. ASSUME NEW r \in due,
             Steps(r, AccessOps) \/ Steps(r, CatalogOps) \/ Steps(r, ScriptsOps) \/ Steps(r, CliSyncOps),
             UNCHANGED <<signInVars, accountVars>>
      PROVE  LoginsInv'
  <2>1. Moves(r) /\ r.op \notin SignInOps /\ PlacedAt(r.op, pc'[r]) /\ faults' = faults
    BY <1>3 DEF Steps, AccessOps, CatalogOps, ScriptsOps, CliSyncOps, ChangeOps, SaveOps, SignInOps
  <2>2. pc'[r] # "redeem" /\ r.op # "cliLogin"
    BY <2>1 DEF PlacedAt, SignInOps
  <2>3. GoesForth
    BY <1>0, <1>3, <2>1, <2>2 DEF Moves, GoesForth, Taken
  <2>4. StaysPut
    BY <1>3, <2>1, <2>2 DEF Moves, StaysPut
  <2>. QED  BY <2>3, <2>4, StaysPutKeepsLogins
<1>4. ASSUME NEW r \in due, Fail(r) PROVE LoginsInv'
  <2>1. /\ Moves(r) /\ faults' = faults + 1
        /\ \/ pc'[r] = "reply" /\ r.op \in {"push", "workflowSet"} /\ result'[r] = result[r]
           \/ pc'[r] = "done" /\ result'[r] = "failed"
    BY <1>0, <1>4, FailSteps
  <2>2. UNCHANGED <<confirmed, callbacks, codes, clock, users>>
    BY <1>4 DEF Fail
  <2>3. GoesForth
    BY <1>0, <2>1, <2>2 DEF Moves, GoesForth, Taken
  <2>4. StaysPut
    BY <2>1, <2>2 DEF Moves, StaysPut
  <2>. QED  BY <2>3, <2>4, StaysPutKeepsLogins
<1>5. CASE Restart
  <2>1. UNCHANGED <<confirmed, callbacks, clock, users>>
    BY <1>5 DEF Restart
  <2>2. GoesForth
    BY <1>0, <1>5, <2>1, RestartSteps DEF GoesForth, Taken, GoesOn
  <2>3. StaysPut
    BY <1>0, <1>5, <2>1, RestartSteps DEF StaysPut
  <2>. QED  BY <2>2, <2>3, StaysPutKeepsLogins
<1>6. CASE Tick \/ (\E r \in due, b \in Browsers : AuthorizePage(r, b)) \/ UNCHANGED vars
  <2>1. /\ UNCHANGED <<requestVars, users, confirmed, callbacks, codes>>
        /\ clock' \in {clock, clock + 1}
    BY <1>6 DEF Tick, AuthorizePage, vars
  <2>. QED  BY <1>0, <2>1, StaysPutKeepsLogins DEF GoesForth, StaysPut, Taken, requestVars
<1>7. ASSUME NEW page \in shown, Authorize(page) PROVE LoginsInv'
  BY <1>7, AuthorizeKeepsLogins
<1>. QED  BY <1>0, <1>1, <1>2, <1>3, <1>4, <1>5, <1>6, <1>7, WhoseStep

\* autablectl is refused a session only when its code ran out or was redeemed
\* by a repeated call, or something failed: neither another login on the same
\* port nor a late callback gets in its way, in browserLogin of
\* src/internal/ctl/login.go and issue and redeem of src/internal/api/cli_auth.go.
THEOREM LoginsFailInTime == Spec => []LoginFailsInTime
<1>1. Spec => [](PlaceInv /\ CodesInv /\ SessionsInv /\ LoginsInv)
  BY InitPlaced, NextPlaced, InitCodes, NextCodes, InitSessions, NextSessions,
     InitLogins, NextLogins, PTL DEF Spec
<1>2. LoginsInv => LoginFailsInTime
  BY DEF LoginsInv
<1>. QED  BY <1>1, <1>2, PTL

-----------------------------------------------------------------------------
(* A step leads to a statement, or to an answer.                           *)

\* How a request is answered.
Outcomes == {"ok", "unauthorized", "forbidden", "invalid", "notFound", "conflict", "failed"}

\* A step leads to a statement, or to an answer.
Ends(r) ==
  /\ pc' = [pc EXCEPT ![r] = pc'[r]] /\ pc'[r] \in Labels
  /\ result' = result \/ result' = [result EXCEPT ![r] = result'[r]]
  /\ pc'[r] = "done" => result'[r] \in Outcomes

LEMMA GotoEnds ==
  ASSUME Progressing, NEW r \in due
  PROVE  /\ \A label, value : Goto(r, label, value) /\ label \in Labels \ {"done"} => Ends(r)
         /\ \A outcome : Answer(r, outcome) /\ outcome \in Outcomes => Ends(r)
         /\ \A outcome : Reply(r, outcome) /\ outcome \in Outcomes => Ends(r)
<1>1. \A label, value : Goto(r, label, value) /\ label \in Labels \ {"done"} => Ends(r)
  BY DEF Progressing, Goto, Ends
<1>2. \A outcome : Answer(r, outcome) /\ outcome \in Outcomes => Ends(r)
  BY DEF Progressing, Answer, Ends, Labels
<1>. QED  BY <1>1, <1>2 DEF Reply, Labels

LEMMA AccessEnds ==
  ASSUME Progressing, NEW r \in due, AccessSteps(r)
  PROVE  pc[r] # "done" /\ Ends(r)
<1> USE GotoEnds DEF At, Labels, Outcomes
<1>1. CASE HandleSaveGrant(r)
  BY <1>1 DEF HandleSaveGrant
<1>2. CASE FindConflicts(r)
  BY <1>2 DEF FindConflicts
<1>3. CASE DeleteConflictingGrant(r)
  BY <1>3 DEF DeleteConflictingGrant
<1>4. CASE WriteGrant(r)
  BY <1>4 DEF WriteGrant
<1>5. CASE HandleRole(r)
  BY <1>5 DEF HandleRole, RoleOps
<1>6. CASE WriteRole(r)
  BY <1>6 DEF WriteRole
<1>7. CASE WriteRoleGrants(r)
  BY <1>7 DEF WriteRoleGrants
<1>8. CASE WriteRoleMembers(r)
  BY <1>8 DEF WriteRoleMembers
<1>9. CASE RoleResponse(r)
  BY <1>9 DEF RoleResponse, RoleOps
<1>10. CASE ListRoles(r)
  BY <1>10 DEF ListRoles
<1>. QED  BY <1>1, <1>2, <1>3, <1>4, <1>5, <1>6, <1>7, <1>8, <1>9, <1>10 DEF AccessSteps

LEMMA CatalogEnds ==
  ASSUME Progressing, NEW r \in due, CatalogSteps(r)
  PROVE  pc[r] # "done" /\ Ends(r)
<1> USE GotoEnds DEF At, Labels, Outcomes
<1>1. CASE CreateDatabase(r)
  BY <1>1 DEF CreateDatabase
<1>2. CASE OwnDatabase(r)
  BY <1>2 DEF OwnDatabase
<1>3. CASE AuthorizeTable(r)
  BY <1>3 DEF AuthorizeTable
<1>4. CASE ChangeTables(r)
  BY <1>4 DEF ChangeTables, BringUpToDate, Proceed
<1>5. CASE AuthorizePatch(r)
  BY <1>5 DEF AuthorizePatch
<1>6. CASE ChangeTable(r)
  BY <1>6 DEF ChangeTable, BringUpToDate, Proceed
<1>7. CASE ReadRows(r)
  BY <1>7 DEF ReadRows, Synchronise
<1>8. CASE SyncRow(r)
  BY <1>8 DEF SyncRow, Synchronise
<1>9. CASE SaveCatalog(r)
  BY <1>9 DEF SaveCatalog
<1>10. CASE AuthorizeFields(r)
  BY <1>10 DEF AuthorizeFields
<1>11. CASE MoveField(r)
  BY <1>11 DEF MoveField, Proceed
<1>12. CASE CreateFields(r)
  BY <1>12 DEF CreateFields, Proceed
<1>13. CASE EnsureFields(r)
  BY <1>13 DEF EnsureFields
<1>14. CASE QueryRows(r)
  BY <1>14 DEF QueryRows
<1>15. CASE AuthorizeRow(r)
  BY <1>15 DEF AuthorizeRow, FoundRow
<1>16. CASE ReadRow(r)
  BY <1>16 DEF ReadRow
<1>17. CASE AddRow(r)
  BY <1>17 DEF AddRow
<1>18. CASE WriteTableRow(r)
  BY <1>18 DEF WriteTableRow
<1>19. CASE AuthorizeDelete(r)
  BY <1>19 DEF AuthorizeDelete, FoundRow
<1>20. CASE DeleteTableRow(r)
  BY <1>20 DEF DeleteTableRow
<1>. QED  BY <1>1, <1>2, <1>3, <1>4, <1>5, <1>6, <1>7, <1>8, <1>9, <1>10, <1>11, <1>12, <1>13,
    <1>14, <1>15, <1>16, <1>17, <1>18, <1>19, <1>20 DEF CatalogSteps

LEMMA ScriptsEnds ==
  ASSUME Progressing, NEW r \in due, ScriptsSteps(r)
  PROVE  pc[r] # "done" /\ Ends(r)
<1> USE GotoEnds DEF At, Labels, Outcomes
<1>1. CASE HandleSaveScript(r)
  BY <1>1 DEF HandleSaveScript
<1>2. CASE FindPrevious(r)
  BY <1>2 DEF FindPrevious
<1>3. CASE CreateScript(r)
  BY <1>3 DEF CreateScript
<1>4. CASE MergeScript(r)
  BY <1>4 DEF MergeScript
<1>5. CASE WriteScriptRow(r)
  BY <1>5 DEF WriteScriptRow
<1>6. CASE WriteScriptFile(r)
  BY <1>6 DEF WriteScriptFile
<1>7. CASE RemoveOldFile(r)
  BY <1>7 DEF RemoveOldFile
<1>8. CASE GrantResourceOwner(r)
  BY <1>8 DEF GrantResourceOwner
<1>9. CASE HandleDeleteScript(r)
  BY <1>9 DEF HandleDeleteScript
<1>10. CASE FindDeleted(r)
  BY <1>10 DEF FindDeleted
<1>11. CASE DeleteRowOfScript(r)
  BY <1>11 DEF DeleteRowOfScript
<1>12. CASE RemoveScriptFile(r)
  BY <1>12 DEF RemoveScriptFile
<1>13. CASE HandlePublish(r)
  BY <1>13 DEF HandlePublish
<1>14. CASE ReadForm(r)
  BY <1>14 DEF ReadForm
<1>15. CASE WriteToken(r)
  BY <1>15 DEF WriteToken
<1>16. CASE GetScript(r)
  BY <1>16 DEF GetScript
<1>17. CASE GetPublishedForm(r)
  BY <1>17 DEF GetPublishedForm
<1>18. CASE HandleWorkflowWebhook(r)
  BY <1>18 DEF HandleWorkflowWebhook
<1>. QED  BY <1>1, <1>2, <1>3, <1>4, <1>5, <1>6, <1>7, <1>8, <1>9, <1>10, <1>11, <1>12, <1>13,
    <1>14, <1>15, <1>16, <1>17, <1>18 DEF ScriptsSteps

LEMMA CliSyncEnds ==
  ASSUME Progressing, NEW r \in due, CliSyncSteps(r),
         WorkflowSetReply(r) => held[r].outcome \in Outcomes
  PROVE  pc[r] # "done" /\ Ends(r)
<1> USE GotoEnds DEF At, Labels, Outcomes
<1>1. CASE EditFile(r)
  BY <1>1 DEF EditFile
<1>2. CASE ListRemote(r)
  BY <1>2 DEF ListRemote
<1>3. CASE ListScripts(r)
  BY <1>3 DEF ListScripts
<1>4. CASE WriteFiles(r)
  BY <1>4 DEF WriteFiles
<1>5. CASE RecordState(r)
  BY <1>5 DEF RecordState
<1>6. CASE RunStatus(r)
  BY <1>6 DEF RunStatus
<1>7. CASE StartPush(r)
  BY <1>7 DEF StartPush
<1>8. CASE PushChange(r)
  BY <1>8 DEF PushChange
<1>9. CASE PushReply(r)
  BY <1>9 DEF PushReply
<1>10. CASE EndPush(r)
  BY <1>10 DEF EndPush
<1>11. CASE RunWorkflowSet(r)
  BY <1>11 DEF RunWorkflowSet
<1>12. CASE WorkflowSetReply(r)
  BY <1>12 DEF WorkflowSetReply
<1>. QED  BY <1>1, <1>2, <1>3, <1>4, <1>5, <1>6, <1>7, <1>8, <1>9, <1>10, <1>11, <1>12 DEF
    CliSyncSteps

LEMMA SignInEnds ==
  ASSUME Progressing, NEW r \in due, SignInSteps(r)
  PROVE  pc[r] # "done" /\ Ends(r)
<1> USE GotoEnds DEF At, Labels, Outcomes
<1>1. CASE Register(r)
  BY <1>1 DEF Register, BeginUpsert
<1>2. CASE Upsert(r)
  BY <1>2 DEF Upsert
<1>3. CASE Login(r)
  BY <1>3 DEF Login
<1>4. CASE OpenSession(r)
  BY <1>4 DEF OpenSession
<1>5. CASE Me(r)
  BY <1>5 DEF Me
<1>6. CASE Logout(r)
  BY <1>6 DEF Logout
<1>7. CASE OIDCStart(r)
  BY <1>7 DEF OIDCStart
<1>8. CASE OIDCCallback(r)
  BY <1>8 DEF OIDCCallback, BeginUpsert
<1>9. CASE BrowserLogin(r)
  BY <1>9 DEF BrowserLogin
<1>10. CASE LoginTimesOut(r)
  BY <1>10 DEF LoginTimesOut
<1>11. CASE ResendToken(r)
  BY <1>11 DEF ResendToken
<1>12. CASE Redeem(r)
  BY <1>12 DEF Redeem
<1>13. CASE IssueToken(r)
  BY <1>13 DEF IssueToken
<1>14. CASE SaveCredentials(r)
  BY <1>14 DEF SaveCredentials
<1>15. CASE CliLogout(r)
  BY <1>15 DEF CliLogout
<1>16. CASE RemoveCredentials(r)
  BY <1>16 DEF RemoveCredentials
<1>. QED  BY <1>1, <1>2, <1>3, <1>4, <1>5, <1>6, <1>7, <1>8, <1>9, <1>10, <1>11, <1>12, <1>13,
    <1>14, <1>15, <1>16 DEF SignInSteps


-----------------------------------------------------------------------------
(* Browsers, the clock and codes have their types.                         *)

\* The clock has a last tick, every browser has its cookies, and no two codes
\* are the same.
BrowsersInv == clock \in 0 .. MaxClock /\ DOMAIN cookie = Browsers /\ DOMAIN oidcState = Browsers

UniqueCodes == \A c, d \in codes : c.code = d.code => c = d

LEMMA SignInKeepsBrowsers ==
  ASSUME BrowsersInv, NEW r \in due, SignInSteps(r)
  PROVE  BrowsersInv'
<1>1. /\ clock' = clock
      /\ cookie' = cookie \/ \E token : cookie' = [cookie EXCEPT ![r.browser] = token]
      /\ oidcState' = oidcState \/ \E state : oidcState' = [oidcState EXCEPT ![r.browser] = state]
  <2> USE DEF signInVars, browserVars
  <2>1. CASE Register(r) \/ Upsert(r) \/ Login(r) \/ OpenSession(r) \/ Me(r) \/ Logout(r)
    BY <2>1 DEF Register, Upsert, Login, OpenSession, Me, Logout, SetSessionCookie
  <2>2. CASE OIDCStart(r) \/ OIDCCallback(r)
    BY <2>2 DEF OIDCStart, OIDCCallback
  <2>3. CASE BrowserLogin(r) \/ LoginTimesOut(r) \/ ResendToken(r) \/ Redeem(r) \/ IssueToken(r)
             \/ SaveCredentials(r) \/ CliLogout(r) \/ RemoveCredentials(r)
    BY <2>3 DEF BrowserLogin, LoginTimesOut, ResendToken, Redeem, IssueToken, SaveCredentials, CliLogout,
       RemoveCredentials
  <2>. QED  BY <2>1, <2>2, <2>3 DEF SignInSteps
<1>. QED  BY <1>1 DEF BrowsersInv

LEMMA NextBrowsers == PlaceInv /\ BrowsersInv /\ [Next]_vars => BrowsersInv'
<1> SUFFICES ASSUME PlaceInv, BrowsersInv, [Next]_vars PROVE BrowsersInv'
  OBVIOUS
<1>0. Progressing /\ Placed
  BY DEF PlaceInv
<1>1. ASSUME UNCHANGED signInVars \/ UNCHANGED browserVars \/ UNCHANGED <<clock, cookie, oidcState>>
      PROVE  BrowsersInv'
  BY <1>1 DEF signInVars, browserVars, BrowsersInv
<1>2. CASE Tick
  <2>1. MaxClock \in Nat /\ clock \in 0 .. MaxClock /\ clock < MaxClock /\ clock' = clock + 1
        /\ UNCHANGED <<cookie, oidcState>>
    BY <1>2, AccountAssumption DEF Tick, BrowsersInv
  <2>. QED  BY <2>1 DEF BrowsersInv
<1>3. ((\E r \in due : Fail(r)) \/ Restart \/ (\E r \in due, b \in Browsers : AuthorizePage(r, b))
        \/ (\E page \in shown : Authorize(page)) \/ (\E c \in callbacks : Callback(c)) \/ UNCHANGED vars)
      => UNCHANGED signInVars \/ UNCHANGED browserVars \/ UNCHANGED <<clock, cookie, oidcState>>
  BY DEF Fail, Restart, AuthorizePage, Authorize, Callback, vars
<1>. QED  BY <1>0, <1>1, <1>2, <1>3, SignInKeepsBrowsers, WhoseStep

\* The code that is issued is new.
LEMMA NextUniqueCodes == PlaceInv /\ CodesInv /\ UniqueCodes /\ [Next]_vars => UniqueCodes'
<1> SUFFICES ASSUME PlaceInv, CodesInv, UniqueCodes, [Next]_vars PROVE UniqueCodes'
  OBVIOUS
<1>0. Progressing /\ Placed
  BY DEF PlaceInv
<1>1. ASSUME codes' \subseteq codes PROVE UniqueCodes'
  BY <1>1 DEF UniqueCodes
<1>2. ASSUME NEW page \in shown, Authorize(page) PROVE UniqueCodes'
  <2>1. CASE codes' = codes
    BY <1>1, <2>1
  <2>2. CASE codes' # codes
    <3>1. PICK u \in CookieUser(page.browser) :
            codes' = {c \in codes : clock <= c.expires} \cup
                     {[code |-> <<page.login, Cardinality(Confirmations(page.login))>>, user |-> u.id,
                       challenge |-> page.login, expires |-> clock + CodeTTL]}
      BY <1>2, <2>2 DEF Authorize
    <3>2. PICK new : new = [code |-> <<page.login, Cardinality(Confirmations(page.login))>>, user |-> u.id,
                            challenge |-> page.login, expires |-> clock + CodeTTL]
      OBVIOUS
    <3>3. \A c \in confirmed : c.code # new.code
      BY <3>2 DEF CodesInv, Numbered
    <3>4. \A c \in codes : c.code # new.code
      BY <3>3 DEF CodesInv, Matched
    <3>. QED  BY <3>1, <3>2, <3>4 DEF UniqueCodes
  <2>. QED  BY <2>1, <2>2
<1>3. ASSUME NEW r \in due, SignInSteps(r) PROVE codes' \subseteq codes
  BY <1>0, <1>3, SignInQuiet DEF Redeem, CodesWithout, IssueToken, CodesLost
<1>4. ((\E r \in due : Fail(r)) \/ Restart \/ (\E r \in due, b \in Browsers : AuthorizePage(r, b))
        \/ Tick \/ (\E c \in callbacks : Callback(c)) \/ UNCHANGED vars \/ UNCHANGED signInVars)
      => codes' \subseteq codes
  BY DEF Fail, Restart, AuthorizePage, Tick, Callback, vars, signInVars, cliVars
<1>. QED  BY <1>0, <1>1, <1>2, <1>3, <1>4, WhoseStep

LEMMA InitBrowsers == Init => BrowsersInv /\ UniqueCodes
  BY AccountAssumption DEF Init, AccountsInit, BrowsersInv, UniqueCodes

LEMMA AccountsTypes == BrowsersInv /\ UniqueCodes /\ CodesInv /\ LoginsInv => AccountsTypeOK
<1> SUFFICES ASSUME BrowsersInv, UniqueCodes, CodesInv, LoginsInv PROVE AccountsTypeOK
  OBVIOUS
<1>1. ASSUME NEW c \in codes PROVE c.expires \in Nat
  <2>1. PICK d \in confirmed : c.expires = d.at + CodeTTL
    BY DEF CodesInv, Matched
  <2>2. d.at \in Nat /\ CodeTTL \in Nat
    BY AccountAssumption DEF LoginsInv, Dated
  <2>. QED  BY <2>1, <2>2
<1>. QED  BY <1>1 DEF AccountsTypeOK, BrowsersInv, UniqueCodes
=============================================================================
