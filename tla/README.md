# A verification project for autable

autable is a self-hosted table database: a Go server with tables, forms and
scripted workflows over SQLite, LevelDB and a git repository, a runner process
that executes workflow nodes elsewhere, a command line tool and a web frontend.
This directory holds TLA+ models of its core, the TLC configurations that check
them, and theorems with proofs for the TLA+ proof system.

    tlc -config RemoteExecution.cfg MCRemoteExecution.tla     # any run below
    tlapm RemoteExecutionProofs.tla                           # any module of proofs

`PROJECT.json` maps every definition to the lines it translates, and lists the
runs, the mutants that show that each property can fail, the findings and the
hazards.

## 1. The system

| Component | State | Operations | Interacts with | Hard because |
|---|---|---|---|---|
| Remote runner hub (`internal/runnerhub`) | connections, table of pending jobs, token per database | ServeWS, register, unregister, Dispatch, reader and writer of a connection, DisconnectDatabase | workflow runs call Dispatch; runners over WebSockets | results, drops, timers and callers race for each job |
| Runner process (`internal/runnercli`) | job slots, running jobs | read, execute, answer, reconnect | hub | jobs outlive connections |
| Workflow triggering and runs (`internal/api/server.go` 1821-2252, `internal/workflow`) | an event channel per database, a job channel per workflow, running runs, run history | row changes, webhooks, ticks, manual runs, cleanup | row service (events, nodes that write rows), hub, history | bounded channels that form a cycle, timeouts, contexts that end, nothing is persisted |
| Row service (`internal/table`, `internal/recorddb`) | rows, autoincrement | create, update, delete, upsert, formula sync | history, file table, triggering | three stores, no transaction, no lock between statements |
| History store (`internal/history`) | entries by record or workflow and millisecond | save, list, delete prefix | rows, runs | keys are made unique by a read before the write |
| Repository sync (`internal/repositorysync`, `internal/repository`) | change queue, pending changes, status, git state | Notify, flush, commit and push, Shutdown, checkout at start | metadata, scripts | debounce, failed pushes, shutdown, what a start refuses or undoes |
| Scripts and code files (`internal/codefiles`) | the script in the database and in a file | save, load, rename, publish, delete | repository sync, CLI | two stores written one after the other, several names share a path |
| CLI synchronisation (`internal/ctl`) | local files, and for each the entry it was pulled from | pull, status, push, workflow set | workflow and form API | compare and overwrite in two requests |
| Metadata service (`internal/api/metadata_service.go`, `internal/metadata`) | catalog in memory and in its file, physical tables | create database and table, merge, create and move fields | rows, repository sync | tables are changed before the catalog is saved; rows are recalculated while they are edited |
| Row queries (`internal/recorddb`, `internal/table`) | - | conditions, views, sorts, pages, the row set of an actor | metadata, permissions | SQL for lists, another path for single rows |
| Permissions (`internal/permission`, `internal/api`) | grants, roles, members, owners | save a grant, save roles, what an actor may do and is shown | everything | what is shown and what is done are decided by different code; exclusive grants, two statements each |
| Sessions and CLI login (`internal/auth`, `internal/api/cli_auth.go`, `internal/ctl/login.go`) | users, sessions, login codes | register, sign in (password, OIDC), issue, redeem, expire | API | single use, expiry, repeated calls and late callbacks |
| System database (`internal/systemdb`) | users, sessions, grants, roles, workflows, forms, files, tokens, schema version | statements | everything | migrations, upserts, no transaction over two methods |
| Backup (`internal/backup`) | running flag | start, stop, run once | all stores | one run at a time |
| Web frontend, AI worker, external nodes, configuration, file store | - | - | API | I/O and presentation |

What makes each of them correct:

- *Hub and runner*: every remote call returns, is answered once, and what it
  returns tells the truth about what the runner did; a node runs at most once
  per call; a drop fails the calls of that connection and no others.
- *Triggering*: a workflow starts at most once per event, in the order of the
  events; nobody is blocked for ever by a full channel; a disabled workflow ends.
- *Rows*: a row, its history and its file bindings agree, whatever statement
  fails; what is announced is recorded.
- *Repository sync*: a change is in the repository, or pending, or reported, as long
  as the process lives; a server that says it is idle can be stopped.
- *Scripts, CLI*: file and database agree when no save is under way; a pull
  leaves edits alone, and a push does not overwrite a change it has not seen.
- *Metadata*: every field of the catalog file has a column of its type; no
  change loses what another added; formulas are calculated after they changed.
- *Permissions*: an actor is shown what it may use, and is given the rows and
  fields that it may read; a subject has no grant on all next to one on a part.
- *Login*: a session is that of the user who signed in; a code is used once, by
  the login it was confirmed for, before it runs out.

## 2. The modules

| Module | Role |
|---|---|
| `RunnerHub` | the server side of remote execution, and the wire |
| `RunnerCli` | the runner process; extends `RunnerHub` |
| `RemoteExecution` | their composition, fairness, properties |
| `RemoteCall` | abstract specification: a call that runs at most once |
| `RemoteExecutionProofs` | theorems about `RemoteExecution`: types, the table of pending jobs, where a job runs, what its answer says, the refinement |
| `WorkflowDispatch` | events, channels, workers, runs, scheduler, cleanup, kill |
| `TriggerDelivery` | abstract specification: in order, at most once |
| `WorkflowDispatchProofs` | theorems about `WorkflowDispatch`, the refinement among them |
| `RowService` | row writes, statement by statement |
| `RowServiceProofs` | theorems about `RowService`: what an acknowledged write has done, types, records and their history, match values |
| `RepositorySync` | changes, debounce, staging, commit, push, shutdown, kill, the start and its checkout |
| `RepositorySyncProofs` | theorems about `RepositorySync` |
| `Requests` | requests at the HTTP server, and how they fail |
| `Permissions` | pure: levels and field rights that grants give |
| `SystemStore` | the tables of the system database and their statements; extends `Permissions`, `Requests` |
| `Accounts` | registration, sign-in, OIDC, sessions, the login of `autablectl`; extends `SystemStore` |
| `Metadata` | pure: catalogs, their validity and the changes to them |
| `Queries` | pure: conditions, views, sorts, pages, row sets, conversions; extends `Metadata`, `Permissions` |
| `AccessControl` | grants, roles, what an actor may do and is shown; extends `SystemStore`, `Queries` |
| `Catalog` | changes of the catalog, physical tables, recalculation, row edits; extends `AccessControl` |
| `Scripts` | workflows and forms with the files of their scripts; extends `AccessControl` |
| `CliSync` | `autablectl` pull, status, push, workflow set; extends `Scripts` |
| `ApiServer` | composition of the eight above, restarts, properties |
| `ApiServerProofs` | theorems about `ApiServer`: codes, sessions, logins |
| `CatalogProofs` | further ones: the catalog, its file, the columns, who changed what; extends the former |
| `AccessProofs` | further ones: exclusive grants, what an actor is shown, listed rows; extends the former |
| `ScriptsProofs` | further ones: the files of scripts, what a pull and a push leave alone, the types; extends the former |
| `MCRemoteExecution`, `MCWorkflowDispatch`, `MCRowService`, `MCRepositorySync`, `MCApiServer` | instances for TLC |

Definitions named as mutants ("Mutant of ...") are not part of any
specification. Each is a plausible error in the definition that follows it, and
the run named in `PROJECT.json` refutes its property when the error is put in.

### Remote execution

One element of `Conns` is one WebSocket connection, one element of `Jobs` one
call of `Dispatch` (the uuid it makes), one element of `Resets` one request that
resets a token. What a runner says in its hello and where a job belongs are
constant functions, so they are arbitrary and fixed.

| Variable | Code |
|---|---|
| `phase`, `closed` | where the goroutine of `ServeWS` is; `conn.closed`. `conns` (serving or closing) is `hub.conns` |
| `send`, `writing` | `conn.send`; the writer is in its loop |
| `jobs`, `picked`, `reply` | `hub.jobs`; `pendingJob.conn`; `pendingJob.result` |
| `handoff` | jobs `readLoop` or `unregister` took off the table and has not answered yet: the code between `mu.Unlock()` and the channel send |
| `pc`, `outcome` | progress and result of `Dispatch` |
| `token`, `connToken`, `resetPc`, `toClose` | the stored token, the token a connection was admitted with, `handleResetDatabaseRunnerToken` and `DisconnectDatabase` |
| `toRunner`, `toServer`, `link` | the wire: frames in flight, the runner's end |
| `held`, `running`, `executions` | a frame waiting for a slot; job goroutines; a history variable |

A critical section under `hub.mu` is one action; so are a channel operation, a
read or a write of the socket. `Dispatch` is `Pick`, `Enter`, then one of `Send`,
`SendRefused`, `Cancelled`, then one of `Answered`, `TimedOut`, `Cancelled`, then
`Leave` (the deferred deletion). Go's `select` chooses freely among what is
ready, and so do the disjuncts. `unregister` is `ReadFails` (which closes),
`Unregister` (the critical section), one `HandOver` per orphan.

### Workflow triggering

One element of `Events` is one event: its kind, database, the workflows whose
trigger wants it and the workflow whose runs may make it are constants. `at[e]`
is how far it has come. `events` and `jobs` are the two kinds of channels, `cur`,
`todo` and `offer` the progress of `processWorkflowEvent`, `worker` the job that a
run worker executes. A run is named by the workflow whose worker executes it, or
by the manual request. `stored` are the timestamps of runs in the history store:
all that the scheduler and the cleanup look at. `accepted`, `started` are history
variables. `Crash` empties channels and workers and keeps what is on disk.

Time is the time of the last tick; `Day` is the length of a day in those units.
The order in which `processWorkflowEvent` goes through the workflows is left
open. A failing script, an unreadable change or a failing history store is the
choice of `Consider` to pass over a workflow that matches.

### Rows

One element of `Ops` is one request, or one node of a run, that writes. `pc` is the
statement it is at: `start` (row set check, upsert lookup or insert), `read`,
`bind`, `write`, `reread`, `delete`, `record` (the search for a free history key),
`put`, `notify`, `undo`. A statement succeeds (its own action) or fails
(`StatementFails`: the store fails, or the client has left and the context is
cancelled), and no lock is held between statements. A row is its values and the
values its formulas were calculated from (`calc`), so stale formulas show as
`calc # vals`. `overlap`, `cut` and `raced` are history variables that say for which
records the code gives no guarantee: two operations at once, an undoing that
failed, an upsert that found nothing while another was about to insert its row or
while a deleted one could still be put back.

An upsert lists its match through the view `all` (`RowsWithOptions` without a view
name) and is refused where its actor has no grant of that view (`UpsertRefused`), although
an update or a delete of the same actor goes by all views it may read (`InRowSet`); the
same row set is what `docs/permissions.md:56` and the comment at
`workflow_table_nodes.go:280` say of all three.

### Repository sync

One element of `Changes` is one request: it writes files in one managed path
(`Save`; a change is there when all its files are) and then announces them
(`Announce`), unless it fails in between (`Abandon`). `changes` is the channel,
`pending`, `taken` and `state` are the service's list, the list flush has taken
and the status. `pc` is where the goroutine of `run` is: `select`, and in a flush
`staging`, `pushing`, `pushed` (the remote has the push, its answer is under way).
`index`, `head` and `remote` are the changes that git's index, the branch and the
remote branch contain. `announced` is a history variable: what the service was told
of, also when the full channel dropped it; a start announces everything, because
its flush commits whatever is there.

A start first checks the branch out (`main.go:51`, `git.go:273-281`, and once more
in `repositorysync.New`), with go-git's `Checkout` without `Keep` or `Force`, a merge
reset. It has two consequences that `Restart` models. While a file in git's index has
a change that is not staged, `Checkout` returns `ErrUnstagedChanges` and the server
does not start (`CanCheckout`); files that were never staged do not count, hence
`Creating`, the changes that write a new file. Otherwise the index becomes the branch
and the files in which the two differed become what the branch has, so that a change
that was staged and not committed is taken out of the work tree (`undone`, a history
variable). `main` handles no signal: an ordinary stop is a `Kill`, within the debounce
time of a tracked change the first consequence, between staging and commit the second.
The branch has a commit from the start (a clone of a remote that is not empty); before
the first commit of an empty remote there is nothing to check out. The checkout is one
step, and what an operator does about a refused start is not modelled.

`diverged` stands for pushes by others, after
which no push succeeds: the service never pulls. `takePending` and the setting of
the status after it, and `restorePending` and `setFailed`, are one action each: the
only other writer of the status in between is a full channel's `setFailed`, which
commutes with them.

### The HTTP server and its clients

A request is a record: an id, the operation `op`, the requests it comes `after`, and
what its body says. A behaviour serves one scenario, a set of requests; each is
sent at any time once those it comes after are answered, so all the others meet
in every order. `pc` is where the handler of a request is, `held` what it has read
so far, `result` its answer. A step is one statement on a store, one file written,
or one stretch under a lock (the catalog lock, the mutex of the login codes). The
handlers of this server undo nothing: a statement that fails (`Fail`, at most
`MaxFaults` times, also a client that leaves or a command that is killed) ends the
handler where it is. `Restart` ends all of them, empties the memory (login codes,
the catalog as it was changed and not saved) and brings every physical table up to
date with the file, as `main` does. Calls that `autablectl` makes are requests
whose labels in `ClientLabels` are its own; a restart does not end those.

| Variable | Code |
|---|---|
| `owners`, `grants`, `roles`, `members`, `users`, `sessions`, `scripts` | tables of the system database; `scripts` holds the rows of `workflows` and `forms` |
| `made`, `stamp` | autoincrement; the latest `updated_at`: a write of a row may have the time of its last write; times of different rows, which nothing compares, differ |
| `clock`, `cookie`, `oidcState`, `shown`, `callbacks` | time, the cookies of each browser, authorisation pages on show, redirects to loopback ports |
| `codes`, `credentials` | `cliAuthorizations.codes`; the credentials file |
| `catalog`, `file` | the metadata in memory and in `main.yml` |
| `tables` | physical tables: columns with their types, rows, the next id |
| `codeFiles` | files of scripts, by path |
| `dir` | the directory of `autablectl`: files and `.autable/state.json` |

Some interleavings leave a state for which the code gives no guarantee, and
nothing in it notices. History variables say for what, so that the properties
hold elsewhere and say exactly where they do not:

| Variable | What happened | Excused in |
|---|---|---|
| `split` | two requests upserted one email between each other's two statements | `SessionsAuthenticate` |
| `doubled` | a subject was granted what it created, or two handlers changed its grants at once | `GrantsExclusive` |
| `ahead`, `slipped` | a physical table was changed and the file was not, or the table in memory and neither; a change in memory was not saved | `ColumnsMatch`, `UpdatesCalculate` |
| `touched` | a row was written while formulas were recalculated | `UpdatesCalculate` |
| `contended` | two handlers changed one workflow or form at once | `ScriptsAgree`, `GrantsExclusive` |
| `misnamed` | a workflow or form was renamed to a name of spaces, which has no file; the file of its old name stays | `ScriptsAgree` |
| `torn` | a row was pulled while it and its file had different scripts | `PushKeepsOthers` |
| `coincided` | a workflow or form was written twice in one millisecond, and has the same `updated_at` | `PushKeepsOthers` |

`base`, `writer`, `confirmed` and `redeemed` only record what the properties speak of:
which script a file of the directory was made from, for which workflow or form a file
of the server was written, who confirmed which login, which sessions codes made.

`Accounts`. An upsert of a user is two statements (`BeginUpsert`, `Upsert`), then
`OpenSession`. `BrowserLogin` listens on a port of `Ports` and waits; the user may open
the page in any browser that is signed in (`AuthorizePage`) and confirm it up to
`MaxConfirms` times (`Authorize` issues a code and a redirect); each redirect may
arrive late, again or never (`Callback`); `Redeem` takes the code out under the mutex,
`IssueToken` makes the session, `ResendToken` is the call arriving a second time.

`AccessControl`. Permission checks are operators on the grants as they are at that
statement. `HandleSaveGrant`, `FindConflicts`, `DeleteConflictingGrant` (once per
conflicting grant) and `WriteGrant` are the statements of saving a grant;
`HandleRole`, `WriteRole`, `WriteRoleGrants`, `WriteRoleMembers` and `RoleResponse` those of roles.
The `Visible...` operators are the filters of the listing handlers.

`Catalog`. A change authorises on a snapshot (`AuthorizePatch`, `AuthorizeFields`),
takes the lock (`ChangeTable`, `CreateFields`, ...), adds columns, when formulas
changed reads all rows (`ReadRows`) and writes them back one by one (`SyncRow`), and
saves (`SaveCatalog`). Row edits (`AuthorizeRow`, `ReadRow`, `WriteTableRow`, `AddRow`,
`DeleteTableRow`) take no lock and go on with the catalog they started with. They are
here only as far as they meet the catalog: their history and files are in
`RowService`. `QueryRows` answers what `Queries!RowsPageWithOptions` gives.

`Queries`. A query is a tree of groups and leaves, a value null, a number, a
fraction or a text. Where the code joins the queries of a view, its base views, a request
and its search with "and" into one more group (`combineViewQueries`,
`combineRuntimeQueries`), the model has the set of these queries, each of which a row has
to meet. What joining does besides is kept: empty queries of views are dropped
(`CombineViewQueries`), and a query with neither a combinator nor rules does not compile
once it is joined (`CanRun`). `$current_user` is replaced where a condition is evaluated
and not in a copy of the tree. A page is the set of rows whose place in the order is on it. What SQLite and `strconv` make of texts (`Like`, `ParseNumber`,
`TextBefore`, `Column`) and what a formula computes (`Evaluate`) are constants.

`Scripts`, `CliSync`. A save is `HandleSaveScript`, `FindPrevious`, `CreateScript` or `MergeScript`
and `WriteScriptRow`, `WriteScriptFile`, `RemoveOldFile`, `GrantResourceOwner`. Paths are made
with `Segment`, which maps several names to one. A push compares (`PushChange`), then
its save runs the same actions as any other (`r.op \in SaveOps`), then `PushReply`. A file's
hash is the script itself.

## 3. The runs

| Run | Bounds | Shows |
|---|---|---|
| `remote_safety` | 2 connections of one name, 2 jobs (one of a type the runners lack), 1 reset, send channel 1, 1 slot | `SingleAnswer`, `NoLostAnswer`, `OutcomeTellsExecution`, `DropFailsOnlyItsJobs`; implements `RemoteCall` |
| `remote_live` | 1 connection, 2 jobs, 1 reset | `DispatchReturns`, `DropFailsJobs`, `CollectedConnsLeave`, and the types |
| `remote_drop` | 1 connection, 1 job | refutes `InFlightJobsFailOnDrop` |
| `remote_reset` | 1 connection, 1 reset | refutes `ResetDropsConnections` |
| `dispatch_safety` | 2 workflows, 5 events (row changes of a request and of a run, a webhook, two ticks of two days), of which three occur in each behaviour, 1 manual run, 1 kill, event channel 1, job channel 2 | `DeliversInOrder` (implements `TriggerDelivery`), `DisabledEnds`, types |
| `dispatch_live` | 1 workflow that triggers itself, 5 events, channels of 1, 1 kill | `EventsHandled`, `RunsEnd`, `MatchedEventsStart` |
| `dispatch_overlap` | 1 event, 1 manual run | refutes `NeverConcurrentWithItself` |
| `dispatch_daily` | 2 ticks of one day | refutes `OncePerDay` |
| `rows` | three of an update, a delete and three upserts, one of which is refused, one file, one failure or one departure, 2 milliseconds | `SerialRecordsAgree`, `AnnouncedIsRecorded`, `AcknowledgedFilesBound`, `UpsertsKeepUnique`, types |
| `rows_cancel` | one update | refutes `FailedWritesChangeNothing` |
| `api_server` | 21 scenarios of 2 to 7 requests by an owner and two users, 1 failure or restart, clock to 2 | `ListingAgrees`, `ListedRowsInRowSet`, `GrantsExclusive`; `ColumnsMatch`, `UpdatesCalculate`, `FieldsKept`, `DefinitionsOwned`; `ScriptsAgree`, `PullKeepsEdits`, `PushKeepsOthers`; `SessionsAuthenticate`, `CodesSpentOnce`, `LoginFailsInTime`; types |
| `repository_sync` | 3 changes in 2 managed paths, channel of 2, one shutdown or kill | `IdleMeansPushed`, `IdleMayStop`, `NothingWaitsSilently`, `CommitHoldsItsChanges`, `AnnouncedReachesRemote`, types |

Why the bounds are enough. Two connections are the least in which one may fail
jobs of the other, two jobs the least that compete for a send channel of one. A
channel of one is full after one send, so every blocked send of the code (whose
channels hold 16 or 256) occurs; the job channel of two of `dispatch_safety` is the
least in which an order can be lost. Five events of a self-triggering workflow
fill event worker, event channel, job channel and run worker at once and leave
one more to block on. Three of the upserts, an update and a delete, with one match value
and one file among them and the first record, are the least in which a third operation
meets what two others left on a record, a match value and a file. `MaxTime` is one so that two changes may or may not meet in one
millisecond; free keys beyond it come from the number of operations. Three changes
fill the sync service's channel of two and leave one to be dropped; two managed
paths are the least of which one is staged before a file is saved and one after.

A scenario of `api_server` puts together the requests that meet on one piece of
state: two registrations and an OIDC login of one email; two command line logins
that share the one port, so that the callback of the first may reach the second;
a redeeming call that arrives twice, with a login of one tick's code lifetime on a
clock of two, so that a code may be redeemed in time, at the last moment or too
late (in the code both the code and the wait of the login last five minutes, here
both `CodeTTL`); grants on a part and on all for one subject; roles under two names;
an update of a formula while two rows are edited and listed through two views, one
of which depends on the other; concurrent additions and deletions of fields by the
owner and by a user with grants on fields, with two names for one column; an update that
deletes a field and loosens the views on it against one that brings them back; saves,
renames and deletions of one workflow and of two whose paths are the same;
a save of a workflow against its deletion, while its creator is granted all workflows;
publication of a form against a save; pull, edit and push against a save. Three
requests that write are the most that any one of the hazards needs, and the rest
prepare or observe. The groups of one query nest to a depth of `MaxNesting`, which
the queries of the instance do not reach.

Why the constraints are sound. `ResetOrJob`, `OneDisturbance`, `ThreeEvents`,
`HookOrTicks` and `OneFault` bound how many things from outside (resets, further
jobs, events, departures, manual runs, kills, failing statements) happen in one
behaviour. For safety that
is a bound like any other. In `remote_live` the constraint forbids only steps
that no fairness condition forces, so every behaviour it leaves is a fair
behaviour of the system. `InOrder` relabels the events that runs of one workflow
make, which are alike. `CHECK_DEADLOCK FALSE` in the older runs: all requests may have
been made and answered, and then nothing happens. `api_server` has the action `Idle`
for that state only, and checks that no handler is ever stuck before it.

Fairness. `RemoteExecution!HubFairness`: the Go scheduler runs every goroutine
that is not blocked, `writeWait` ends every blocked write and `readTimeout` every
read of a dead socket. Nothing is assumed of runners, the network, callers or
new requests. The job timers are a separate assumption, `TimersFire`, used by
`DispatchReturns` only: `DropFailsJobs` holds without them. In
`WorkflowDispatch!Fairness` the workers are weakly fair, every run's timer fires
(`context.WithTimeout`) and a run whose context has ended ends (its script is
interrupted); a send on a channel is strongly fair, because Go serves blocked
senders in turn. `dispatch_live` is about what follows from the timeout: with
`NeverExpire` in its place the cycle of event worker, run worker and run is a
deadlock. In `RepositorySync!Fairness` requests end, the service's goroutine goes on
(`PushTimeout` ends every flush), `main` returns after its five seconds, and somebody
starts the server again when the start does not fail: `AnnouncedReachesRemote` excuses
the changes that the start undid and a server that no start brings up. Requests are finitely many, so the debounce timer fires
in the end; the code itself does not bound how long it may be put off. `ApiServer`
has no fairness: its handlers never wait but for the catalog lock, and that none
of them is stuck is the deadlock check.

## 4. What is proved

`RemoteExecutionProofs`, for every set of connections, jobs, resets, databases,
names and node types, every capacity and every number of slots, from the
assumptions `HubAssumption` and `CliAssumption` (types of the constants, positive
capacities):

- `TypeCorrect`: `Spec => []TypeOK`. One lemma for the actions of each part
  (`ConnStepTypeOK` and so on), each with a case per action that shows the groups
  of variables it changes and takes the others from `Untouched`.
- `AnsweredOnce`: `Spec => []SingleAnswer`. That the capacity-one channel is empty
  when an answer arrives does not follow from `SingleAnswer` before the step: a
  job is entered after its `Dispatch` started, and must not have been answered
  before (`Fresh`); and `Unregister` overwrites what the connection's goroutine
  holds, so it must hold nothing (`ClosingHoldsNothing`). The inductive invariant
  `TableInv` is the conjunction of these with `SingleAnswer` and `Tracked`.
- `AnswersKept`: `Spec => []NoLostAnswer`, from `Tracked`: from `Enter` on, a job is
  on the table, or answered, or its answer is in some goroutine's hands.

Further ones follow a job from its `Dispatch` to the runner and its answer back:

- `RunsOnTheRightRunner`: `Spec => []RunsWhereItBelongs`, which no run checks. A job may only run on a
  connection that its `Dispatch` picked (`PickFits`), and has to be followed there:
  until it is executed it waits in one place (`Apart`: the send channel, the wire
  or the frame held for a slot) of that connection only (`WaitsOnce`), then it is
  among the running ones (`RunsOnce`). `Executed` ties the count to the progress of
  `Dispatch`. `RouteInv` is their conjunction.
- `AnswersTellTheTruth`: `Spec => []OutcomeTellsExecution`. Whatever is on its way
  back must be true already: `TruthInv` says so of the frames of a runner
  (`FramesVouched`), of what a goroutine took off the table (`HeldVouched`) and of
  what `Dispatch` is about to return or has returned (`ReplyVouched`).
- `DropsFailTheirJobs`: `Spec => []DropFailsOnlyItsJobs`, from `TruthInv`, which holds
  of "disconnected" because a socket is closed before its connection leaves the hub
  (`ClosedFirst`).
- `RemoteCallIsImplemented`: `Spec => ImplementsRemoteCall`, the refinement. A call
  that is refused (`NotConnected`, `Unsupported`, `SendRefused`) maps to `Refuse`, `Pick`
  to `Begin`, the start of a job to `Execute`, `Answered` to `Succeed`, or to `Fail` with
  `TimedOut`, `Cancelled` and an answer that tells of a drop; all else maps to
  stuttering. `Succeed` needs that the job was executed, which is `ReplyVouched`.

`WorkflowDispatchProofs`, for every set of workflows, databases and events, every
capacity and number of kills, from `DispatchAssumption`:

- `TypeCorrect`: `Spec => []TypeOK`. A job is an event, and that what an event worker
  offers is one takes `Matching`: while it offers or considers, it has an event.
- `DisabledWorkflowsEnd`: `Spec => DisabledEnds`, from `Matching`.
- `DeliveryIsImplemented`: `Spec => DeliversInOrder`, the refinement to `TriggerDelivery`.
  `Accept` maps to `Accept`, the start of a run to `Start`, which demands that the
  event was accepted and comes after the one the workflow was started with last.
  `ChannelIsSuffix` ties the channel and the worker to the events accepted, which
  are so once (`AcceptedOnce`); `LineTaken` says that jobs come from events that the
  worker has taken, and from earlier ones while the workflow is still to be
  considered; with these `LineAscends` is kept: the jobs of a workflow, behind the
  one it was started with last, are in the order of acceptance.

`RowServiceProofs`, for every set of operations, rows, files and faults, from
`RowAssumption`:

- `FilesStayBound`: `Spec => []AcknowledgedFilesBound`. `FilesBound` has it from `Bind`
  on, for every operation under way: a binding is never taken over or given up.
  `Progress` says which record and which act an operation has at which statement.
- `ChangesAreRecorded`: `Spec => []AnnouncedIsRecorded`. `AnnouncedKept`: the entry is
  there from `Put` on, and what others put, also under the same key, removes none.
- `TypeCorrect`: `Spec => []TypeOK`. What it takes is that there is a free history key
  (`FreeKey`) and a record to make (`RoomForOne`): both count, by `Bookkeeping`, which
  says that no operation has two entries and none before its last statement, and
  that `nextId` is the number of operations that have made a record.
- `RecordsAgree`: `Spec => []SerialRecordsAgree`. `HistoryInv` says for every record that
  was neither overlapped nor cut what its row is at each statement of the one
  operation on it (`Working`: as recorded, then as written, and `Former` is what
  an undoing would put back), that its entries are those of the operations that
  succeeded (`Credited`), and that its history keys have no gaps from the present
  time on (`Gapless`): only therefore is the first free key later than all others,
  and the new entry the latest. `Alone` and `Unborn` say that an overlap is noticed
  and that nobody has worked on a record that is yet to be made.
- `MatchValuesAreUnique`: `Spec => []UpsertsKeepUnique`, for upserts of whatever actors. A record never changes its match
  value: all that anybody has read of it or is to write there agrees (`Steady`); and
  no two records that are there, *or may be put back*, have the same, nor one the
  value of a row that is about to be inserted (`Distinct`). The second half of that
  was missing in the property: a deletion whose history entry fails puts its row
  back after an upsert has not found it and inserted another. The run finds this
  now that the first record has the match value of the upserts.

`ApiServerProofs`, for every set of scenarios, users, browsers, ports and paths,
every lifetime and number of faults, from `AccountAssumption` and `StoreAssumption`
(ids are handed out once; a repeated redeeming call is one of a login of the scenario; the first rows of the database
respect its indices).
All of it rests on who takes which step: `Placed` says that a request is only ever at
a statement of its own handler, and `WhoseStep` that every step but a restart is of
one request of one component, or of none, and what it leaves alone.

- `CodesAreSpentOnce`: `Spec => []CodesSpentOnce`. Only the sign-in handlers touch
  codes; a lemma per component shows that each of its steps is `Quiet`: no request
  comes to issue a token, and one that is about to keeps what it holds. `CodesInv`
  says what a waiting code stands for (`Matched`), that a new one differs from all
  before it (`Numbered`), that a request between `Redeem` and `IssueToken` is alone
  with its code and took it in time (`Spending`), and that a spent code is gone
  (`Gone`).
- `SessionsAreAuthentic`: `Spec => []SessionsAuthenticate`. Between the two statements
  of an upsert a request holds an id that is still the user's, or is known to have met
  another upsert of that email (`split`); from then on it holds a user of that email.
- `LoginsFailInTime`: `Spec => []LoginFailsInTime`. What is on its way to a port, or held
  by a call about to redeem it, was confirmed for that login (`OnTheWay`); and a code
  that was confirmed still waits, or its login has its session, or it is `Hindered`: by
  time, a failure or the repeated call (`Kept`).

`CatalogProofs`, from the assumptions of `ApiServerProofs` and `CatalogAssumption`: the
server starts with a valid file whose tables have their columns; the tables, fields
and patches of requests are decoded, and a field is moved to a side of another or to
the start (`moveField` refuses anything else before it reads the catalog).

- `FieldsAreKept`: `Spec => FieldsKept`. `ChangesInv`: at most one request is between
  taking the lock and giving it up (`LockInv`); what it is going to save is valid, has
  all that file and memory have now, and is the catalog of now but for its own table
  (`Fits`); file and memory have the same tables and fields, with the same types,
  though `createFields` may have changed memory without saving (`CatalogsInv`).
- `ColumnsMatchTheFile`: `Spec => []ColumnsMatch`. `TablesInv`: a table that no change has
  left half done (`ahead`) has a column for each field and a field for each column
  (`ColumnsInv`); the change under way has made its columns for the table it is to
  save, and is marked if that differs from the file (`ChangeInv`); and what an edit or
  the request to move a field was given has no column that the table in the file
  lacks (`EditInv`): edits bring the columns of their own, older table up to date and
  need not hold the lock for it. Here the attempt to prove it found two cases in
  which the property was false and that the run has scenarios for now: two fields whose
  names share a column (only one of them has its type), and fields that `createFields`
  brings back in memory before it refuses the rest of a request, which a later move
  saves without their columns.
- `DefinitionsAreOwned`: `Spec => DefinitionsOwned`. What an actor who is no owner was
  authorised to do is `Modest` relative to the table it was shown; merging a modest
  patch into the same table gives the same formulas, views and deletions
  (`ModestDefines`). `OwnersInv` carries that from the authorisation to the saving.

`AccessProofs`, from these, `GrantAssumption` and `ScriptAssumption` (the bodies that are
sent have a scope with its resource and a level, and the columns of a workflow or form)
and `RefusedAssumption` (an error is no view, and neither yes nor no):

- `GrantsStayExclusive`: `Spec => []GrantsExclusive`. `AccessInv` adds what the handlers
  are about to write: that of the grants in the way of a new one each is deleted, or
  on the list to be deleted, or excused (`GrantPending`); that the grants of a role do
  not cover one another (`RolePending`). Whether a grant on all workflows of a database
  covers one on a workflow depends on where that workflow is now, so the invariant is
  as much about saving, deletion and publication: a row goes back to the database it
  was in, or two handlers are known to have changed it (`SavePending`, `ItemPending`,
  `Contending`); and an id is never handed out twice (`IdsInv`), or a grant that is left
  over would apply to the next workflow. The attempt to prove it found that the property
  had said too much, and the run has a scenario for it now: when a save puts the row
  of a deleted workflow back, the old grants on it count again, next to one on all
  workflows that was made in between.
- `ShownIsWhatMayBeUsed`: `Spec => []ListingAgrees`. What is shown is computed from sums
  of bits and highest levels, what may be used from the grants one by one; the two agree
  for levels that a grant may have, which every grant has whatever role it comes by
  (`Grounded` in `AccessInv`, `PermsAreRanged`). That the rows of every view that is
  shown can be listed needs views that resolve. `CatalogsInv` says that file, memory and
  what a change is about to save are valid, and a valid table has views whose bases
  exist and form no cycle. `createFields` and moves of fields, which do not look at
  views, leave them alone (`SameViews`).
- `ListedRowsMayBeEdited`: `Spec => []ListedRowsInRowSet`, for all queries, searches,
  pages and conversions of values. A row that is listed is one that the view of the request
  selects (`PageIsSelected`, `ResolvedNarrowsView`), and that view is among those that
  `RowInActorRowSet` goes through: it resolves, so it is one of the table
  (`ResolvedIsThere`, which rests on the same recursion over base views as above). The
  search goes through the views in another order and may end earlier, at "all", at a view
  that finds the row or at an error; never with the row out of the row set (`SearchEnds`).

`ScriptsProofs`, from these and `DirectoryAssumption` (commands and edits in the directory of
`autablectl` come one after the other):

- `FilesHoldTheirScripts`: `Spec => []ScriptsAgree`. `FilesInv` follows each file from its
  writing on: it holds the script of the row it was written for, at that row's path, or
  a handler is under way that is about to write it or to remove it (`Owes`). For the
  handler to leave it right in the end it has to find the row as it read it, which
  is `Aware`: a save that has read the row still finds it (`Knows`), or two handlers are
  known to have been at it. The property speaks of the row that a file was *written
  for* (`writer`), since several rows may have one path; said of every row and its path it
  was only true where no two names share one. Handlers that write for what is not yet
  there need an id that is new and of the kind of what is saved (`KindsInv`), and a push
  takes it from the state file of the directory. Both hold until something fails.
- `PullsKeepEdits`: `Spec => PullKeepsEdits`. Between what a pull reads and what it writes
  no other command is at the directory (`TurnsInv`: a command has its turn when those
  before it are done); what it removes or overwrites is as the state records it. And
  the state records what was put (`BaseInv`), or the command at work holds a state that
  does: a pull between its two steps, a push from its first reply on, which has one
  entry for each path. That ends with the first command that is killed, when something
  is put and the state is not: the next pull takes what is not as the state says for
  edited and keeps it, and a file that somebody set back to what the state has it
  overwrites. The property has one alternative for either case.
- `PushesKeepOthers`: `Spec => PushKeepsOthers`. push compares times, not scripts. That this
  is enough is `SeenInv`: whatever a state, a listing, a pull or a push records of a
  row is a script that the row had at the time recorded with it (`Faithful`), or the row was
  torn or written twice in one millisecond; and every other write of a row gets a later time
  (`Later`), so a row of the same time is the same row. This holds with any failures. That the script of the state is also
  the one the file was made from is `BaseInv` again, and so holds until a command is killed.
- `TypesAreCorrect`: `Spec => []TypeOK`, the types of all components with the unique
  indices of the database. The types of the requests are `RequestsInv`: a statement that
  a request is at is one of its handler, and a request is answered once, by the last of
  them. The rest needs most of what the other theorems rest on. The file is valid by
  `CatalogsInv`. That a row, grant, role or user has a name of its own is what the
  statements check (`StoreInv`). That it also has an id of its own follows from where ids come
  from: a user or session has the one of the request that made it (`IdentitiesInv`), a
  workflow, form or role the next of those handed out (`IdsInv`), a row of a physical
  table one above all before (`RowsInv`).

What an operator on sequences gives (`MergeByName`, `WithFields`, `PatchOf`, folds in the
model) is proved for every sequence: `FoldExists` gives the function that a fold is,
defined on the sets of the first elements, and `Induction` is by the least number for
which a claim about a given function would fail, so that neither takes a theorem with
an operator as its parameter.

`RepositorySyncProofs`, for every set of changes, list of managed paths, capacity and
number of shutdowns and kills, from `SyncAssumption` (types of the constants, a
positive capacity, every change in a managed path):

- `TypeCorrect`: `Spec => []TypeOK`.
- `IdleIsTrue`: `Spec => []IdleMeansPushed`: everything announced is on the remote or
  was undone by the checkout of a start. The invariant says nothing about a
  flush under way; `Accounted` says where an announced change is at each step of
  it while the channel is empty and no start undid it: in the index or in a path still to stage, then on
  the branch, then on the remote. A change announced too late for its path makes
  the channel non-empty, and only `select` empties it. `ListsInv` says that a flush
  holds something and leaves nothing pending, so that a failed one restores it.
- `IdleIsSafe`: `Spec => []IdleMayStop`, from `IdleMeansPushed` and the inclusions of
  `TypeOK`: what is saved, in the index, on the branch and on the remote is then the
  same, so the checkout of the next start has nothing to refuse or to undo.
- `WaitingIsReported`: `Spec => []NothingWaitsSilently`, from `ListsInv`.
- `CommitsComplete`: `Spec => CommitHoldsItsChanges`. `KnownInv`: whatever the lists
  name is saved; `TakenInv`: what a flush has taken is in the index or in a path
  still to stage; both use that a process that is down holds no list (`TypeOK`), because
  a start may take a change out of the work tree.

The runs check each of these properties on an instance; the proofs remove the
bounds. `PROJECT.json` says which property a theorem states.

Only model-checked: liveness (`DispatchReturns`, `DropFailsJobs`, `CollectedConnsLeave`,
`EventsHandled`, `RunsEnd`, `MatchedEventsStart`, `AnnouncedReachesRemote`), which is out of
the prover's reach; and `UpdatesCalculate` of `ApiServer`, which is not true of all
values of the constants. Formulas are calculated in the order of the fields, in one pass:
one that reads a later formula is calculated from the old value of that, and two formulas
whose names differ in case share a column. The formulas of the instance do neither.

## 5. Where code and documents differ

The five violation runs; `PROJECT.json` quotes the lines.

- A `Dispatch` that picked a connection before it was unregistered may wait for
  its timer although the connection is gone (`remote_drop`).
- A token reset does not see a connection that is between its upgrade and its
  hello (`remote_reset`).
- A manual run does not take its turn with the workflow's run worker
  (`dispatch_overlap`).
- A daily workflow may be started by two ticks of a day while its first run has
  not ended (`dispatch_daily`).
- A write whose client leaves before the history entry is stored stays in the
  table without an entry (`rows_cancel`).

Plain from the code, and so without a run: an upsert of an actor who reads rows
through other views than `all` is refused instead of being matched within those rows
(`UpsertRefused`).

## 6. Plan

Done: remote execution and repository sync with their proofs, triggering, rows;
scripts and their files, the command line tool, metadata and formula recalculation,
queries, permissions and roles, sign-in and sessions, composed in `ApiServer`.

Next, in this order:

1. The file store (`internal/api/server.go`, upload, metadata and download of files)
   against the bindings of `RowService`; the handlers that list row history and runs.
2. `Migrations` and `Backup`, as far as they have state.
3. The formula recalculation of `Catalog` against the history of `RowService`.

Proofs to add: `UpdatesCalculate` under an assumption on what formulas read.

## 7. Not modelled

The web frontend, the AI worker and `ai.go`, nodes that call external services, the
bytes of the file store, argument parsing and configuration: presentation and I/O,
whose effect on the core are the requests the models take from small sets. Payloads
of frames, inputs and outputs of nodes, the text of errors: no property is about
them. Form scripts and the sandbox: what a script computes is arbitrary here.

Of the parts that are modelled: hashes of passwords and challenges (a value stands
for its hash), `autablectl login --token`, permissions of the credentials file, the
search for users, display names and the order of tables, the YAML text; which
fields of a row change the subject of a workflow may read (a choice of
`WorkflowDispatch!Consider`). Schema migrations run once before the server listens.
Backups copy files and have one flag.
