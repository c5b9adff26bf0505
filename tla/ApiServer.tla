----------------------------- MODULE ApiServer -----------------------------
(***************************************************************************)
(* The HTTP server and its clients together: sign-in, grants and roles,    *)
(* the catalog and its rows, workflows and forms, and autablectl; with     *)
(* statements that fail and restarts of the server.                        *)
(***************************************************************************)
EXTENDS Accounts, Catalog, CliSync

vars == <<requestVars, storeVars, signInVars, doubled, catalogVars, codeVars, dirVars>>

Init ==
  /\ RequestsInit /\ StoreInit /\ AccountsInit /\ CatalogInit /\ CliSyncInit
  /\ doubled = {}
  /\ codeFiles = <<>> /\ writer = <<>> /\ contended = {} /\ misnamed = {}

\* What clients do, between their calls or instead of one.
ClientLabels ==
  {"away", "waiting", "redeem", "store", "forget",
   "scripts", "local", "record", "next", "post", "reply"}

Handled(r) == UnderWay(r) /\ pc[r] \notin ClientLabels

\* Commands that go on when a call fails.
GoesOn(r) == r.op \in {"push", "workflowSet"} /\ Handled(r)

\* A statement of a handler fails, a command is killed or a call is lost.
Fail(r) ==
  /\ IF GoesOn(r)
     THEN /\ faults < MaxFaults /\ faults' = faults + 1
          /\ pc' = [pc EXCEPT ![r] = "reply"]
          /\ held' = [held EXCEPT ![r].outcome = "failed"]
          /\ UNCHANGED <<due, result>>
     ELSE StatementFails(r)
  /\ UNCHANGED <<storeVars, signInVars, doubled, catalogVars, codeVars, dirVars>>

FileTables == UNION {{<<d, t>> : t \in DOMAIN file[d]} : d \in DOMAIN file}

\* The server stops and starts: the requests it handles and the codes in its
\* memory are gone, the catalog is read from its file, and every table of it
\* gets its columns.  The files are as they were left: the repository is not
\* synchronised, or the checkout of the start undoes nothing (RepositorySync).
Restart ==
  /\ faults < MaxFaults /\ faults' = faults + 1
  /\ codes # {} \/ slipped \/ \E r \in due : Handled(r)
  /\ pc' = [r \in due |-> IF GoesOn(r) THEN "reply" ELSE IF Handled(r) THEN "done" ELSE pc[r]]
  /\ result' = [r \in due |-> IF Handled(r) /\ ~GoesOn(r) THEN "failed" ELSE result[r]]
  /\ held' = [r \in due |-> IF GoesOn(r) THEN [held[r] EXCEPT !.outcome = "failed"]
                            ELSE IF Handled(r) THEN Nothing ELSE held[r]]
  /\ codes' = {}
  /\ catalog' = file
  /\ slipped' = FALSE
  /\ tables' = Over([k \in FileTables |-> EnsureTable(Physical(k), file[k[1]][k[2]])], tables)
  /\ UNCHANGED <<due, storeVars, browserVars, credentials, confirmed, redeemed, split, doubled,
                 file, ahead, touched, codeVars, dirVars>>

\* No request is under way; those not sent need never be.
Idle == (\A r \in due : ~UnderWay(r)) /\ UNCHANGED vars

Next ==
  \/ AccountsNext /\ UNCHANGED <<doubled, catalogVars, codeVars, dirVars>>
  \/ AccessNext /\ UNCHANGED <<signInVars, file, tables, catalogHistory, codeVars, dirVars>>
  \/ CatalogNext /\ UNCHANGED <<signInVars, codeVars, dirVars>>
  \/ ScriptsNext /\ UNCHANGED <<signInVars, file, tables, catalogHistory, dirVars>>
  \/ CliSyncNext /\ UNCHANGED <<signInVars, file, tables, catalogHistory>>
  \/ \E r \in due : Fail(r)
  \/ Restart
  \/ Idle

Spec == Init /\ [][Next]_vars

-----------------------------------------------------------------------------

\* Every variable has its type, unique columns are unique, and the metadata
\* file always holds a valid catalog.
TypeOK ==
  RequestsTypeOK /\ StoreTypeOK /\ AccountsTypeOK /\ CatalogTypeOK /\ CliSyncTypeOK

\* A subject never has both a grant on all fields (views, workflows, forms) and
\* one on a single one of them: handleSaveGrant deletes what a grant stands
\* instead of, and roles are checked.  It may happen to who was granted what
\* it created, when two handlers change the grants of one subject, and for a
\* workflow or form that was changed and deleted at the same time (its row comes
\* back, and the grants on it count again).
GrantsExclusive ==
  \A g, h \in grants :
    (g.sub = h.sub /\ g.level # None /\ h.level # None /\ Covers(h, g))
    => g.sub \in doubled \/ (g.scope \in ItemScopes /\ g.res[1] \in contended)

Subjects == {UserSubject(u.id) : u \in users}

\* What an actor is shown is what it may use, whichever way the grants got
\* there: it is listed a workflow or form exactly when it may read it, it then
\* sees the database; the level shown with it tells whether it may be saved; a
\* field is shown exactly when its values may be read, updated or created; and
\* the rows of every view that is shown can be listed.  What is listed and what
\* is done are decided by different code.
ListingAgrees ==
  \A s \in Subjects :
    /\ \A i \in ScriptIds : Exists(i) =>
         /\ i \in FilterReadable(s, {i}) <=> MayReadScript(s, i)
         /\ MayReadScript(s, i) /\ scripts[i].db \in DOMAIN catalog => VisibleDatabase(s, scripts[i].db)
         /\ PermissionLevel(s, i) >= Write <=> MayWriteScript(s, i)
    /\ \A d \in DOMAIN catalog : \A t \in VisibleTables(s, d) :
         /\ \A f \in ActiveFields(catalog[d][t]) :
              f.name \in VisibleFields(s, d, catalog[d][t])
                <=> \/ MayReadField(Actor(s, d), TableResource(d, t), f.name)
                    \/ {FieldUpdate, FieldCreate} \cap
                         FieldBits(Perms(s), s, TableResource(d, t), f.name) # {}
         /\ \A v \in VisibleViews(s, d, catalog[d][t]) :
              MayList(catalog[d][t], Actor(s, d), TableResource(d, t),
                [view |-> v, query |-> Missing, sorts |-> <<>>, limit |-> 0, offset |-> 0,
                 search |-> Null])

Readers == {r \in due : r.op = "queryRows"}

\* A row that a request is given, with whatever query, search and page, is in
\* the actor's row set as edits of it have it.  (A view that does not compile
\* ends the search for a row with an error.)
ListedRowsInRowSet ==
  \A r \in Readers : \A d \in DOMAIN catalog : \A t \in DOMAIN catalog[d] :
    LET page == Listing(r, d, t)
    IN  page # Refused => \A row \in page.rows :
          RowInActorRowSet(catalog[d][t], Actor(r.actor, d), TableResource(d, t),
                           Physical(<<d, t>>).rows, row.id) # FALSE

\* Every active field of the file has a column of its type, through changes,
\* failures and restarts; except in a table whose columns and metadata were
\* not both written, and when its name is that of another field but for case.
ColumnsMatch ==
  \A d \in DOMAIN file : \A t \in DOMAIN file[d] :
    (\A a \in ahead : a[1] # <<d, t>>) =>
      \A f \in ActiveFields(file[d][t]) :
        /\ Column(f.name) \in DOMAIN Physical(<<d, t>>).columns
        /\ \/ Physical(<<d, t>>).columns[Column(f.name)] = StorageType(f)
           \/ \E g \in ToSet(file[d][t].fields) : g.name # f.name /\ Column(g.name) = Column(f.name)

\* The values of a row's formulas are those of its other values.
IsCalculated(table, row) ==
  LET values == NamedValues(table, row)
      again  == CalculateFormulaValues(table, row.id, values)
  IN  \A f \in FormulaDefinitions(table) : again[f.name] = values[f.name]

Formulas(table) ==
  {<<f.name, f.formula, f.vtype>> : f \in {g \in ActiveFields(table) : g.type = "formula"}}

\* A change of formulas that is saved has recalculated every row that was not
\* written while it ran: calculating them once more changes nothing.  Said of
\* formulas that read no later formula and have a column to themselves.
UpdatesCalculate ==
  [][\A r \in due :
       (/\ r.op = "updateTable" /\ pc[r] = "save" /\ result'[r] = "ok" /\ ~slipped
        /\ Formulas(file[r.db][r.table]) # Formulas(file'[r.db][r.table]))
       => \A row \in tables[Key(r)].rows :
            <<Key(r), row.id>> \in touched \/ IsCalculated(file'[r.db][r.table], row)]_vars

\* No change loses what another one added: tables and fields stay, and fields
\* keep the type of their values.
FieldsKept ==
  [][\A d \in DOMAIN file : d \in DOMAIN file' /\
       \A t \in DOMAIN file[d] : t \in DOMAIN file'[d] /\
         \A f \in ToSet(file[d][t].fields) :
           \E g \in FieldOf(file'[d][t], f.name) : StorageType(g) = StorageType(f)]_vars

\* Formulas, deletions of fields and views are changed by updates of the owner
\* only; except where the table changed after the update was authorised, and
\* before it had the lock.
DefinitionsOwned ==
  [][\A r \in due :
       (r.op = "updateTable" /\ pc[r] = "save" /\ result'[r] = "ok") =>
         LET old == catalog[r.db][r.table]
             new == catalog'[r.db][r.table]
         IN  \/ IsDatabaseOwner(r.actor, r.db)
             \/ held[r].seen # old
             \/ /\ Formulas(old) = Formulas(new) /\ old.views = new.views
                /\ \A f \in ToSet(old.fields), g \in ToSet(new.fields) :
                     f.name = g.name => f.deleted = g.deleted]_vars

\* When no handler is at it, a file holds the script of the row it was written
\* for, which is there and has that path, after any creations, renames,
\* publications and deletions: so what is shown and run is the script of the row,
\* or of another one whose name has the same path.  It may hold another script
\* when a statement failed, when two handlers changed that workflow or form at
\* the same time, or when it was renamed to a blank name, which has no file.
ScriptsAgree ==
  (faults = 0 /\ \A r \in due : ~Changing(r)) =>
    \A p \in DOMAIN codeFiles :
      LET i == writer[p]
      IN  \/ i \in contended \cup misnamed
          \/ /\ Exists(i) /\ ScriptPath(Kind(i), scripts[i]) = p
             /\ codeFiles[p] = scripts[i].script

\* pull without force leaves every file alone that is not as pull or push put it
\* there last; one that is as the state says goes as well, after a command that
\* was killed between the files and the state.
PullKeepsEdits ==
  [][\A r \in due : (r.op = "pull" /\ pc[r] = "local" /\ ~r.force) =>
       \A p \in DOMAIN dir.files :
         \/ p \in DOMAIN dir'.files /\ dir'.files[p] = dir.files[p]
         \/ p \in DOMAIN base /\ dir.files[p] = base[p]
         \/ faults > 0 /\ p \in DOMAIN dir.state /\ dir.files[p] = dir.state[p].script]_vars

\* push without force replaces only the script that the file was made from or,
\* after a command that was killed, the one of the state; except one that
\* changed after push looked, one that was pulled while its row and its file
\* differed, and one that was written twice in a millisecond.
PushKeepsOthers ==
  [][\A r \in due :
       (r.op = "push" /\ pc[r] = "write" /\ pc'[r] = "file" /\ ~r.force) =>
         LET now    == scripts[held[r].item]
             change == held[r].change
         IN  \/ held[r].item \in torn \cup coincided
             \/ now # held[r].checked
             \/ change.path \in DOMAIN base /\ now.script = base[change.path]
             \/ faults > 0 /\ now.script = change.entry.script]_vars

\* Who registers or signs in, whatever else goes on, gets a session of the user
\* of the email, for as long as the session lasts; except for two upserts of
\* one email at the same time.
SessionsAuthenticate ==
  \A r \in due : (r.op \in {"register", "signIn", "oidcLogin"} /\ result[r] = "ok") =>
    \A s \in SessionOf(r.id) :
      r.email \in split \/ \E u \in users : u.id = s.user /\ u.email = r.email

\* A code makes at most one session, for the one who confirmed that login, and
\* before it runs out.
CodesSpentOnce ==
  /\ \A a, b \in redeemed : a.code = b.code => a = b
  /\ \A a \in redeemed : \E c \in confirmed :
       /\ c.code = a.code /\ c.user = a.user /\ c.login = a.by
       /\ a.at <= c.at + CodeTTL

\* autablectl is refused a session only when its code ran out or was redeemed
\* by a repeated call, or the server restarted: other logins and late callbacks
\* do not get in its way.
LoginFailsInTime ==
  \A r \in due : (r.op = "cliLogin" /\ result[r] = "unauthorized") =>
    \/ faults > 0
    \/ \E c \in Confirmations(r.id) : clock > c.at + CodeTTL
    \/ \E q \in due : q.op = "cliTokenAgain" /\ q.login = r.id /\ pc[q] # "start"
=============================================================================
