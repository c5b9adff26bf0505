------------------------------ MODULE Scripts ------------------------------
(***************************************************************************)
(* Workflows and forms and the files of their scripts: the handlers of     *)
(* src/internal/api/server.go and the files of src/internal/codefiles.     *)
(*                                                                         *)
(* A workflow or form has a row in the system database and a file whose    *)
(* path is made from its name.  A handler writes the one and then the      *)
(* other, with no lock and no way back; a reader takes the row and, when   *)
(* there is a file, the script of the file.                                *)
(***************************************************************************)
EXTENDS AccessControl

CONSTANTS
  Segment(_),  \* the part of a path that stands for a name: several may share it
  BlankNames,  \* names of spaces only
  Trigger(_)   \* the trigger that a script declares: node and instance, or Nothing

\* The columns of workflows and forms together.
Columns == {"db", "name", "creator", "enabled", "secrets", "token", "script", "at"}

ASSUME ScriptAssumption ==
  \A s \in Scenarios : \A r \in s :
    /\ r.op = "saveScript" =>
         /\ r.kind \in ItemScopes /\ DOMAIN r.row = Columns
         /\ r.item \in ScriptIds => Kind(r.item) = r.kind
    /\ (r.op \in {"publish", "unpublish"} /\ r.item \in ScriptIds) => Kind(r.item) = "form"

VARIABLES
  codeFiles,  \* scripts, by path
  contended,  \* history: workflows and forms that two handlers changed at the
              \* same time
  writer,     \* history: for whose row a file was last written, by path
  misnamed    \* history: workflows and forms that were renamed to a blank name

fileVars == <<codeFiles, writer, misnamed>>
codeVars == <<fileVars, contended>>

ScriptPath(kind, row) == <<kind, Segment(row.db), Segment(row.name)>>

\* The script of a row as it is shown and run.
Served(kind, row) ==
  IF row.name \notin BlankNames /\ ScriptPath(kind, row) \in DOMAIN codeFiles
  THEN codeFiles[ScriptPath(kind, row)] ELSE row.script

\* Mutant of WriteScript: a file that is there is left alone.
KeepScript(kind, row) ==
  LET path == ScriptPath(kind, row)
  IN  codeFiles' = IF path \in DOMAIN codeFiles THEN codeFiles ELSE Put(codeFiles, path, row.script)

WriteScript(kind, row) == codeFiles' = Put(codeFiles, ScriptPath(kind, row), row.script)

DeleteScript(kind, row) ==
  codeFiles' = IF row.name \in BlankNames THEN codeFiles
               ELSE Restrict(codeFiles, DOMAIN codeFiles \ {ScriptPath(kind, row)})

SaveOps == {"saveScript", "push", "workflowSet"}
ChangeOps == SaveOps \cup {"deleteScript", "publish", "unpublish"}

\* Handlers that have yet to write a row or its file.
ChangeLabels == {"previous", "row", "write", "file", "oldFile", "owner", "delete", "remove", "token"}
Changing(q) == q.op \in ChangeOps /\ pc[q] \in ChangeLabels

Contend(r, i) ==
  contended' = IF \E q \in due \ {r} : Changing(q) /\ held[q].item = i
               THEN contended \cup {i} ELSE contended

-----------------------------------------------------------------------------
(* Saving.                                                                 *)

\* autablectl goes on when it has the response; others are done.
Reply(r, outcome) ==
  IF r.op \in {"push", "workflowSet"}
  THEN Goto(r, "reply", [held[r] EXCEPT !.outcome = outcome])
  ELSE Answer(r, outcome)

\* What a save is asked for; "valid" are runner bindings, retention and
\* time limit.
Posted(r) ==
  IF r.op # "saveScript" THEN held[r]
  ELSE [kind |-> r.kind, item |-> r.item, row |-> r.row, valid |-> r.valid, previous |-> NoScript]

HandleSaveScript(r) ==
  /\ At(r, "saveScript", "start") \/ (r.op \in SaveOps /\ pc[r] = "post")
  /\ LET asked == Posted(r)
         new   == asked.item = Nothing
         allowed == IF new THEN MayCreateScript(r.actor, asked.kind, asked.row.db)
                    ELSE MayWriteScript(r.actor, asked.item)
     IN  IF ~allowed THEN Reply(r, "forbidden") /\ UNCHANGED contended
         ELSE IF ~asked.valid \/ (~new /\ scripts[asked.item].db # asked.row.db)
         THEN Reply(r, "invalid") /\ UNCHANGED contended
         ELSE /\ Goto(r, IF new THEN "row" ELSE "previous",
                      [asked EXCEPT !.row.creator = IF new THEN r.actor ELSE @])
              /\ Contend(r, asked.item)
  /\ UNCHANGED <<storeVars, accessHistory, fileVars>>

FindPrevious(r) ==
  /\ r.op \in SaveOps /\ pc[r] = "previous"
  /\ IF Exists(held[r].item)
     THEN Goto(r, "row", [held[r] EXCEPT !.previous = scripts[held[r].item]])
     ELSE Reply(r, "failed")
  /\ UNCHANGED <<storeVars, accessHistory, codeVars>>

CreateScript(r) ==
  /\ r.op \in SaveOps /\ pc[r] = "row" /\ held[r].item = Nothing
  /\ made[held[r].kind] < Len(IdsOf(held[r].kind))
  /\ LET kind == held[r].kind
         row  == held[r].row
         id   == NextScriptId(kind)
     IN  IF NameTaken(kind, row, id)
         THEN Reply(r, "failed") /\ UNCHANGED scriptVars
         ELSE /\ IF kind = "workflow" THEN CreateWorkflow(row) ELSE Create(kind, row)
              /\ Goto(r, "file", [held[r] EXCEPT !.item = id, !.row.at = stamp'])
  /\ UNCHANGED <<accessVars, accountVars, accessHistory, codeVars>>

MergeScript(r) ==
  /\ r.op \in SaveOps /\ pc[r] = "row" /\ held[r].item # Nothing
  /\ LET existing == scripts[held[r].item]
         merged == IF held[r].kind = "workflow" THEN MergedWorkflow(existing, held[r].row)
                   ELSE MergedForm(existing, held[r].row)
     IN  IF existing = NoScript THEN Reply(r, "failed")
         ELSE Goto(r, "write", [held[r] EXCEPT !.row = merged])
  /\ UNCHANGED <<storeVars, accessHistory, codeVars>>

WriteScriptRow(r) ==
  /\ r.op \in SaveOps /\ pc[r] = "write"
  /\ IF NameTaken(held[r].kind, held[r].row, held[r].item)
     THEN Reply(r, "failed") /\ UNCHANGED scriptVars
     ELSE /\ SaveScript(held[r].item, held[r].row)
          /\ Goto(r, "file", [held[r] EXCEPT !.row.at = stamp'])
  /\ UNCHANGED <<accessVars, accountVars, accessHistory, codeVars>>

\* The names differ; their paths may be the same.
Renamed(r) ==
  held[r].previous # NoScript /\
  <<held[r].previous.db, held[r].previous.name>> # <<held[r].row.db, held[r].row.name>>

WriteScriptFile(r) ==
  /\ r.op \in SaveOps /\ pc[r] = "file"
  /\ IF held[r].row.name \in BlankNames
     THEN /\ Reply(r, "failed")
          /\ misnamed' = misnamed \cup (IF held[r].previous = NoScript THEN {} ELSE {held[r].item})
          /\ UNCHANGED <<codeFiles, writer>>
     ELSE /\ WriteScript(held[r].kind, held[r].row)
          /\ writer' = Put(writer, ScriptPath(held[r].kind, held[r].row), held[r].item)
          /\ UNCHANGED misnamed
          /\ CASE Renamed(r) -> Goto(r, "oldFile", held[r])
               [] held[r].previous = NoScript -> Goto(r, "owner", held[r])
               [] OTHER -> Reply(r, "ok")
  /\ UNCHANGED <<storeVars, accessHistory, contended>>

RemoveOldFile(r) ==
  /\ r.op \in SaveOps /\ pc[r] = "oldFile"
  /\ DeleteScript(held[r].kind, held[r].previous)
  /\ Reply(r, "ok")
  /\ UNCHANGED <<storeVars, accessHistory, contended, writer, misnamed>>

\* Its creator may write a new workflow or form, next to any grant on all.
GrantResourceOwner(r) ==
  /\ r.op \in SaveOps /\ pc[r] = "owner"
  /\ SaveGrant([sub |-> r.actor, scope |-> held[r].kind, res |-> IdResource(held[r].item),
                item |-> NoName, level |-> Write])
  /\ doubled' = doubled \cup {r.actor}
  /\ Reply(r, "ok")
  /\ UNCHANGED <<owners, roles, members, scriptVars, accountVars, catalog, codeVars>>

-----------------------------------------------------------------------------
(* Deleting and publishing.                                                *)

HandleDeleteScript(r) ==
  /\ At(r, "deleteScript", "start")
  /\ IF MayDeleteScript(r.actor, r.item)
     THEN Goto(r, "delete", [item |-> r.item, row |-> NoScript]) /\ Contend(r, r.item)
     ELSE Answer(r, "forbidden") /\ UNCHANGED contended
  /\ UNCHANGED <<storeVars, accessHistory, fileVars>>

\* The row to delete is read, and then deleted.
FindDeleted(r) ==
  /\ At(r, "deleteScript", "delete") /\ held[r].row = NoScript
  /\ IF Exists(r.item) THEN Goto(r, "delete", [item |-> r.item, row |-> scripts[r.item]])
     ELSE Answer(r, "notFound")
  /\ UNCHANGED <<storeVars, accessHistory, codeVars>>

DeleteRowOfScript(r) ==
  /\ At(r, "deleteScript", "delete") /\ held[r].row # NoScript
  /\ DeleteScriptRow(r.item)
  /\ Goto(r, "remove", held[r])
  /\ UNCHANGED <<accessVars, accountVars, accessHistory, codeVars>>

RemoveScriptFile(r) ==
  /\ At(r, "deleteScript", "remove")
  /\ DeleteScript(Kind(r.item), held[r].row)
  /\ Answer(r, "ok")
  /\ UNCHANGED <<storeVars, accessHistory, contended, writer, misnamed>>

PublishOps == {"publish", "unpublish"}

\* The handler authorises, and then PublishForm or UnpublishForm reads the form.
HandlePublish(r) ==
  /\ r.op \in PublishOps /\ At(r, r.op, "start")
  /\ IF MayWriteScript(r.actor, r.item)
     THEN Goto(r, "token", [item |-> r.item, row |-> NoScript]) /\ Contend(r, r.item)
     ELSE Answer(r, "forbidden") /\ UNCHANGED contended
  /\ UNCHANGED <<storeVars, accessHistory, fileVars>>

ReadForm(r) ==
  /\ r.op \in PublishOps /\ pc[r] = "token" /\ held[r].row = NoScript
  /\ LET row == scripts[r.item]
         token == IF r.op = "publish" /\ row.token = Nothing THEN r.id
                  ELSE IF r.op = "publish" THEN row.token ELSE Nothing
     IN  IF ~Exists(r.item) THEN Answer(r, "notFound")
         ELSE Goto(r, "token", [item |-> r.item, row |-> [row EXCEPT !.token = token]])
  /\ UNCHANGED <<storeVars, accessHistory, codeVars>>

\* All of the form that was read is written; PublishForm reads once more what
\* SaveForm keeps, and fails when the form is gone.
WriteToken(r) ==
  /\ r.op \in PublishOps /\ pc[r] = "token" /\ held[r].row # NoScript
  /\ IF \/ r.op = "publish" /\ ~Exists(r.item)
        \/ NameTaken("form", held[r].row, r.item)
     THEN Answer(r, "notFound") /\ UNCHANGED scriptVars
     ELSE /\ SaveScript(r.item, IF r.op = "publish" THEN MergedForm(scripts[r.item], held[r].row)
                                ELSE held[r].row)
          /\ Answer(r, "ok")
  /\ UNCHANGED <<accessVars, accountVars, accessHistory, codeVars>>

-----------------------------------------------------------------------------
(* Reading, and calling a webhook.                                         *)

GetScript(r) ==
  /\ At(r, "getScript", "start")
  /\ Answer(r, IF MayReadScript(r.actor, r.item) THEN "ok" ELSE "forbidden")
  /\ UNCHANGED <<storeVars, accessHistory, codeVars>>

\* Whoever knows the token must have been given the form itself.
GetPublishedForm(r) ==
  /\ At(r, "publishedForm", "start")
  /\ LET found == FormByPublishedToken(r.token)
     IN  Answer(r, IF found = {} THEN "notFound"
                   ELSE IF \E i \in found : MayReadExplicitly(r.actor, i) THEN "ok" ELSE "forbidden")
  /\ UNCHANGED <<storeVars, accessHistory, codeVars>>

\* The token of a webhook is a secret of the trigger that the script declares.
HandleWorkflowWebhook(r) ==
  /\ At(r, "webhook", "start")
  /\ LET row     == scripts[r.item]
         trigger == Trigger(Served("workflow", row))
         configured == trigger.instance \in DOMAIN row.secrets
     IN  Answer(r, CASE r.token = Nothing -> "unauthorized"
                     [] r.token # Nothing /\ (~Exists(r.item) \/ row.db # r.db) -> "notFound"
                     [] r.token # Nothing /\ Exists(r.item) /\ row.db = r.db /\
                          (~row.enabled \/ trigger = Nothing \/ trigger.node # "webhook") -> "invalid"
                     [] OTHER -> IF configured /\ row.secrets[trigger.instance] = r.token
                                 THEN "ok" ELSE "unauthorized")
  /\ UNCHANGED <<storeVars, accessHistory, codeVars>>

ScriptsNext ==
  \E r \in due :
    \/ HandleSaveScript(r) \/ FindPrevious(r) \/ CreateScript(r) \/ MergeScript(r)
    \/ WriteScriptRow(r) \/ WriteScriptFile(r) \/ RemoveOldFile(r) \/ GrantResourceOwner(r)
    \/ HandleDeleteScript(r) \/ FindDeleted(r) \/ DeleteRowOfScript(r) \/ RemoveScriptFile(r)
    \/ HandlePublish(r) \/ ReadForm(r) \/ WriteToken(r)
    \/ GetScript(r) \/ GetPublishedForm(r) \/ HandleWorkflowWebhook(r)
=============================================================================
