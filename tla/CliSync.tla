------------------------------ MODULE CliSync ------------------------------
(***************************************************************************)
(* pull, status, push and workflow set of autablectl:                      *)
(* src/internal/ctl/sync.go and src/internal/ctl/commands.go.              *)
(*                                                                         *)
(* A directory has script files and a state that records, for each file,   *)
(* the workflow or form it came from, when that was updated, and the       *)
(* script (in the code its hash).  A command talks to the server in        *)
(* separate calls; what it saves is handled as any other save.  Commands   *)
(* and edits come one after the other in the directory, not on the server. *)
(***************************************************************************)
EXTENDS Scripts

VARIABLES
  dir,   \* files and state, by path, and whether there is a state
  base,  \* history: scripts that pull or push last put into the files
  torn   \* history: workflows and forms pulled with a script that was not
         \* that of their row

dirVars == <<dir, base, torn>>

CliSyncTypeOK ==
  /\ \A p \in DOMAIN dir.state : dir.state[p].item \in ScriptIds
  /\ dir.state # <<>> => dir.known

\* Commands and edits in the directory.
DirectoryOps == {"edit", "pull", "push", "status"}
ASSUME DirectoryAssumption ==
  \A s \in Scenarios : \A q, r \in s :
    (q.op \in DirectoryOps /\ r.op \in DirectoryOps) =>
      q = r \/ q.id \in r.after \/ r.id \in q.after

CliSyncInit ==
  /\ dir = [files |-> <<>>, state |-> <<>>, known |-> FALSE]
  /\ base = <<>> /\ torn = {}

Without(f, paths) == Restrict(f, DOMAIN f \ paths)

\* The files are edited, written or deleted by hand.
EditFile(r) ==
  /\ At(r, "edit", "start")
  /\ dir' = [dir EXCEPT !.files = IF r.script = Nothing THEN Without(@, {r.path})
                                  ELSE Put(@, r.path, r.script)]
  /\ Answer(r, "ok")
  /\ UNCHANGED <<storeVars, accessHistory, codeVars, base, torn>>

VisibleNames(actor) == {d \in DOMAIN catalog : VisibleDatabase(actor, d)}

Entry(i, row) == [kind |-> Kind(i), item |-> i, db |-> row.db, name |-> row.name,
                  at |-> row.at, script |-> row.script]

-----------------------------------------------------------------------------
(* pull.                                                                   *)

\* The lists of the databases: rows first, and then their files.
ListRemote(r) ==
  /\ At(r, "pull", "start")
  /\ LET databases == IF r.databases = Missing THEN VisibleNames(r.actor) ELSE r.databases
         listed == UNION {ScriptsOf(kind, d) : kind \in ItemScopes, d \in databases}
     IN  Goto(r, "scripts", [databases |-> databases, rows |-> [i \in listed |-> scripts[i]]])
  /\ UNCHANGED <<storeVars, accessHistory, codeVars, dirVars>>

\* Of two that share a path the one listed first is taken.
Position(i) == CHOOSE n \in DOMAIN IdsOf(Kind(i)) : IdsOf(Kind(i))[n] = i
FirstOf(ids) == CHOOSE i \in ids : \A j \in ids : Position(i) <= Position(j)

ListScripts(r) ==
  /\ At(r, "pull", "scripts")
  /\ LET rows     == held[r].rows
         readable == {i \in DOMAIN rows : MayReadScript(r.actor, i)}
         full     == [i \in readable |-> [rows[i] EXCEPT !.script = Served(Kind(i), rows[i])]]
         at(p)    == {i \in readable : ScriptPath(Kind(i), rows[i]) = p}
         paths    == {ScriptPath(Kind(i), rows[i]) : i \in readable}
     IN  /\ Goto(r, "local", [databases |-> held[r].databases,
              remote |-> [p \in paths |-> Entry(FirstOf(at(p)), full[FirstOf(at(p))])]])
         /\ torn' = torn \cup {i \in readable : full[i].script # rows[i].script}
  /\ UNCHANGED <<storeVars, accessHistory, codeVars, dir, base>>

\* Edited since it was pulled, or never pulled.
EditedFile(p) ==
  /\ p \in DOMAIN dir.files
  /\ p \notin DOMAIN dir.state \/ dir.files[p] # dir.state[p].script

\* Mutant of KeptFiles: a file that was never pulled may be overwritten.
KeptTracked(remote, force) ==
  {p \in DOMAIN remote : /\ EditedFile(p) /\ p \in DOMAIN dir.state /\ ~force
                         /\ dir.files[p] # remote[p].script}

KeptFiles(remote, force) ==
  {p \in DOMAIN remote : /\ EditedFile(p) /\ ~force /\ dir.files[p] # remote[p].script}

\* Files whose workflow or form is gone from a pulled database.
GoneFiles(remote, databases, force) ==
  {p \in DOMAIN dir.state \ DOMAIN remote :
     dir.state[p].db \in databases /\ (force \/ ~EditedFile(p))}

\* Kept files keep their entries as well.
WriteFiles(r) ==
  /\ At(r, "pull", "local")
  /\ LET remote == held[r].remote
         next   == Without(remote, KeptFiles(remote, r.force))
         gone   == GoneFiles(remote, held[r].databases, r.force)
         pulled == [p \in DOMAIN next |-> next[p].script]
     IN  /\ dir' = [dir EXCEPT !.files = Over(pulled, Without(@, gone))]
         /\ base' = Over(pulled, Without(base, gone))
         /\ Goto(r, "record", [state |-> Over(next, Without(dir.state, gone)), failed |-> FALSE])
  /\ UNCHANGED <<storeVars, accessHistory, codeVars, torn>>

\* saveState, at the end of a pull or push.
RecordState(r) ==
  /\ r.op \in {"pull", "push"} /\ pc[r] = "record"
  /\ dir' = [dir EXCEPT !.state = held[r].state, !.known = TRUE]
  /\ Answer(r, IF held[r].failed THEN "failed" ELSE "ok")
  /\ UNCHANGED <<storeVars, accessHistory, codeVars, base, torn>>

-----------------------------------------------------------------------------
(* status and push.                                                        *)

\* Files of workflows and forms that differ from their entries; those without
\* an entry are new, and name a database and a workflow or form, or are invalid.
LocalChanges(actor) ==
  LET Modified(p) == [path |-> p, status |-> "modified", kind |-> p[1], script |-> dir.files[p],
                      entry |-> dir.state[p]]
      New(p) ==
        LET matching == {d \in VisibleNames(actor) : Segment(d) = p[2]}
            valid    == matching # {} /\ Segment(p[3]) = p[3]
        IN  [path |-> p, status |-> IF valid THEN "new" ELSE "invalid", kind |-> p[1],
             script |-> dir.files[p],
             entry |-> IF valid THEN [db |-> CHOOSE d \in matching : TRUE, name |-> p[3]] ELSE Nothing]
  IN  {IF p \in DOMAIN dir.state THEN Modified(p) ELSE New(p) :
         p \in {q \in DOMAIN dir.files : q[1] \in ItemScopes /\ EditedFile(q)}}

RunStatus(r) ==
  /\ At(r, "status", "start")
  /\ Answer(r, IF dir.known THEN "ok" ELSE "failed")
  /\ UNCHANGED <<storeVars, accessHistory, codeVars, dirVars>>

StartPush(r) ==
  /\ At(r, "push", "start")
  /\ LET changes == LocalChanges(r.actor)
         invalid == {c \in changes : c.status = "invalid"}
     IN  IF ~dir.known THEN Answer(r, "failed")
         ELSE Goto(r, "next", [state |-> dir.state, todo |-> changes \ invalid,
                               failed |-> invalid # {}])
  /\ UNCHANGED <<storeVars, accessHistory, codeVars, dirVars>>

\* What a save is asked for with no settings: those of the server come back.
WithoutSecrets(row) == [row EXCEPT !.secrets = <<>>, !.token = Nothing]

NewRow(change) ==
  [db |-> change.entry.db, name |-> change.entry.name, creator |-> Nothing, enabled |-> FALSE,
   secrets |-> <<>>, token |-> Nothing, script |-> change.script, at |-> 0]

\* findWorkflow and findForm, by name or by id.
Find(actor, kind, d, ref) ==
  {i \in FilterReadable(actor, ScriptsOf(kind, d)) : ref \in {scripts[i].name, i}}

\* Mutant of CheckChange: when the server's was updated does not matter.
CheckReadable(actor, change, force) ==
  IF change.status = "modified" THEN MayReadScript(actor, change.entry.item)
  ELSE Find(actor, change.kind, change.entry.db, change.entry.name) = {}

\* A file may be saved over the one it was pulled from, or as a new one.
CheckChange(actor, change, force) ==
  IF change.status = "modified"
  THEN /\ MayReadScript(actor, change.entry.item)
       /\ scripts[change.entry.item].at = change.entry.at \/ force
  ELSE Find(actor, change.kind, change.entry.db, change.entry.name) = {}

\* The first call for a change: what the server has now.
PushChange(r) ==
  /\ At(r, "push", "next") /\ held[r].todo # {}
  /\ LET change == CHOOSE c \in held[r].todo : TRUE
         known  == change.status = "modified"
         rest   == [state |-> held[r].state, todo |-> held[r].todo \ {change},
                    failed |-> held[r].failed]
         now    == scripts[change.entry.item]
         row    == IF known THEN WithoutSecrets([now EXCEPT !.script = change.script])
                   ELSE NewRow(change)
     IN  IF ~CheckChange(r.actor, change, r.force) THEN Goto(r, "next", [rest EXCEPT !.failed = TRUE])
         ELSE IF r.dry THEN Goto(r, "next", rest)
         ELSE Goto(r, "post",
                [state |-> rest.state, todo |-> rest.todo, failed |-> rest.failed,
                 kind |-> change.kind, item |-> IF known THEN change.entry.item ELSE Nothing,
                 row |-> row, valid |-> TRUE, previous |-> NoScript, outcome |-> "none",
                 change |-> change, checked |-> IF known THEN now ELSE NoScript])
  /\ UNCHANGED <<storeVars, accessHistory, codeVars, dirVars>>

\* The response of the save; a change that failed does not end the others.
PushReply(r) ==
  /\ At(r, "push", "reply")
  /\ LET saved == held[r].outcome = "ok"
         path  == held[r].change.path
     IN  /\ Goto(r, "next",
              [state  |-> IF saved THEN Put(held[r].state, path, Entry(held[r].item, held[r].row))
                          ELSE held[r].state,
               todo   |-> held[r].todo,
               failed |-> held[r].failed \/ ~saved])
         /\ base' = IF saved THEN Put(base, path, held[r].row.script) ELSE base
  /\ UNCHANGED <<storeVars, accessHistory, codeVars, dir, torn>>

EndPush(r) ==
  /\ At(r, "push", "next") /\ held[r].todo = {}
  /\ IF r.dry THEN Answer(r, IF held[r].failed THEN "failed" ELSE "ok")
     ELSE Goto(r, "record", [state |-> held[r].state, failed |-> held[r].failed])
  /\ UNCHANGED <<storeVars, accessHistory, codeVars, dirVars>>

-----------------------------------------------------------------------------
(* workflow set sends back all that it read, with no look at updates.      *)

RunWorkflowSet(r) ==
  /\ At(r, "workflowSet", "start")
  /\ LET found == Find(r.actor, "workflow", r.db, r.name)
     IN  IF found = {} THEN Answer(r, "failed")
         ELSE LET i   == FirstOf(found)
                  row == [scripts[i] EXCEPT !.enabled = r.enabled, !.script = Served("workflow", scripts[i])]
              IN  Goto(r, "post", [kind |-> "workflow", item |-> i, row |-> WithoutSecrets(row),
                                   valid |-> TRUE, previous |-> NoScript, outcome |-> "none"])
  /\ UNCHANGED <<storeVars, accessHistory, codeVars, dirVars>>

WorkflowSetReply(r) ==
  /\ At(r, "workflowSet", "reply")
  /\ Answer(r, held[r].outcome)
  /\ UNCHANGED <<storeVars, accessHistory, codeVars, dirVars>>

CliSyncNext ==
  \E r \in due :
    \/ EditFile(r) \/ ListRemote(r) \/ ListScripts(r) \/ WriteFiles(r) \/ RecordState(r)
    \/ RunStatus(r) \/ StartPush(r) \/ PushChange(r) \/ PushReply(r) \/ EndPush(r)
    \/ RunWorkflowSet(r) \/ WorkflowSetReply(r)
=============================================================================
