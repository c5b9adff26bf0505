--------------------------- MODULE RepositorySync ---------------------------
(***************************************************************************)
(* The service that commits and pushes what the API saved in its           *)
(* repository: internal/repositorysync/sync.go over                        *)
(* internal/repository/git.go, started by cmd/autable/main.go.             *)
(*                                                                         *)
(* A request saves a file and then announces the change on a bounded       *)
(* channel.  One goroutine collects changes, waits until no more arrive    *)
(* for a while, stages the managed paths one by one, commits and pushes.   *)
(* A full channel drops the announcement; a failed flush puts what it took *)
(* back and sets no timer.  Changes are the contents saved, one per        *)
(* request; the index, the branch and the remote are the sets of changes   *)
(* they contain.  Messages, authors and hashes are left out.               *)
(*                                                                         *)
(* Every start checks the branch out.  That undoes what was staged and not *)
(* committed when the process ended, and it fails, and the start with it,  *)
(* while a tracked file has a change that is not staged.                   *)
(***************************************************************************)
EXTENDS Naturals, Sequences, SequencesExt

CONSTANTS
  Changes,    \* the changes that requests save and announce
  Start,      \* the change the server announces whenever it starts
  Paths,      \* the managed paths in the order they are staged
  PathOf,     \* the managed path a change lies in
  Creating,   \* the changes that write a new file; the others write over, or
              \* delete, a file that is on the branch
  Cap,        \* the capacity of the channel, 256 in the code
  MaxEnds     \* bound: how often the process may be shut down or killed

\* The channel has room for a change, every change lies in a managed path.
ASSUME SyncAssumption ==
  /\ Cap \in Nat \ {0}
  /\ MaxEnds \in Nat
  /\ Paths \in Seq(STRING)
  /\ PathOf \in [Changes -> ToSet(Paths)]
  /\ Creating \subseteq Changes
  /\ Start \notin Changes

VARIABLES
  saved,      \* the changes in the work tree
  undone,     \* history: the changes that a start took out of the work tree
  handlers,   \* requests that have saved and not yet announced
  announced,  \* history: the changes the service was told of, heard or not
  changes,    \* service.changes, the channel
  pending,    \* service.pending
  state,      \* service.status.State
  timer,      \* the debounce timer runs
  pc,         \* where the goroutine of run is
  taken,      \* the changes flush has taken
  staged,     \* how many of Paths are staged by this flush
  index, head, remote,  \* what git's index, the branch and the remote contain
  diverged,   \* somebody else pushed to the remote branch
  git,        \* the repository was opened at start
  stopping,   \* Shutdown: "no", "asked", or "last" in the flush that answers it
  ends        \* how often the process was shut down or killed

requests   == <<saved, undone, handlers, announced>>
repository == <<index, head, remote, diverged, git>>
process    == <<stopping, ends>>
vars == <<saved, undone, handlers, announced, changes, pending, state, timer, pc, taken,
          staged, index, head, remote, diverged, git, stopping, ends>>

Entries  == Changes \cup {Start}
Up       == pc # "down"
Flushing == pc \in {"staging", "pushing", "pushed"}

Init ==
  /\ saved = {} /\ undone = {} /\ handlers = {} /\ announced = {}
  /\ changes = <<Start>> /\ pending = <<>>
  /\ state = "idle" /\ timer = FALSE
  /\ pc = "select" /\ taken = <<>> /\ staged = 0
  /\ index = {} /\ head = {} /\ remote = {}
  /\ diverged = FALSE /\ git \in BOOLEAN
  /\ stopping = "no" /\ ends = 0

-----------------------------------------------------------------------------
(* Requests *)

\* A request writes its file, which is replaced as a whole.
Save(c) ==
  /\ Up /\ c \notin saved \cup undone
  /\ saved' = saved \cup {c}
  /\ handlers' = handlers \cup {c}
  /\ UNCHANGED <<undone, announced, changes, pending, state, timer, pc, taken, staged,
                 repository, process>>

\* Mutant of HasRoom: a channel that takes one more.
HasRoomOffByOne(q) == Len(q) <= Cap

HasRoom(q) == Len(q) < Cap

\* Notify: queue the change, or only report that the queue is full.
Announce(c) ==
  /\ c \in handlers
  /\ handlers' = handlers \ {c}
  /\ announced' = announced \cup {c}
  /\ IF HasRoom(changes)
     THEN changes' = Append(changes, c) /\ UNCHANGED state
     ELSE state' = "failed" /\ UNCHANGED changes
  /\ UNCHANGED <<saved, undone, pending, timer, pc, taken, staged, repository, process>>

\* The request fails after it wrote its file: nobody announces the change.
Abandon(c) ==
  /\ c \in handlers
  /\ handlers' = handlers \ {c}
  /\ UNCHANGED <<saved, undone, announced, changes, pending, state, timer, pc, taken, staged,
                 repository, process>>

-----------------------------------------------------------------------------
(* The goroutine of run *)

\* addPending, and the timer starts or starts anew.
Receive ==
  /\ pc = "select" /\ changes # <<>>
  /\ pending' = Append(pending, Head(changes))
  /\ changes' = Tail(changes)
  /\ state' = "pending"
  /\ timer' = TRUE
  /\ UNCHANGED <<requests, pc, taken, staged, repository, process>>

\* Where run goes on after a flush.
AfterFlush(stop) == IF stop = "last" THEN "stopped" ELSE "select"

\* The beginning of flush, when the timer fires or the context is done: take what
\* is pending.  There may be nothing, or no repository to put it in.
BeginFlush(stop) ==
  /\ stopping' = stop
  /\ timer' = FALSE
  /\ \/ /\ pending = <<>>
        /\ state' = "idle" /\ pc' = AfterFlush(stop)
        /\ UNCHANGED <<pending, taken, staged>>
     \/ /\ pending # <<>> /\ ~git
        /\ state' = "failed" /\ pc' = AfterFlush(stop)
        /\ UNCHANGED <<pending, taken, staged>>
     \/ /\ pending # <<>> /\ git
        /\ state' = "committing" /\ pc' = "staging"
        /\ taken' = pending /\ pending' = <<>> /\ staged' = 0
  /\ UNCHANGED <<requests, changes, repository, ends>>

TimerFires == pc = "select" /\ timer /\ BeginFlush(stopping)

\* The last flush: what is still in the channel is not taken.
ContextDone == pc = "select" /\ stopping = "asked" /\ BeginFlush("last")

In(p) == {c \in saved : PathOf[c] = p}

\* Mutant of Stage: the last path is forgotten.
StageAllButLast ==
  /\ pc = "staging" /\ staged < Len(Paths)
  /\ staged' = staged + 1
  /\ index' = IF staged' = Len(Paths) THEN index ELSE index \cup In(Paths[staged'])
  /\ UNCHANGED <<requests, changes, pending, state, timer, pc, taken, head, remote,
                 diverged, git, process>>

\* Stage the next managed path as it is now.
Stage ==
  /\ pc = "staging" /\ staged < Len(Paths)
  /\ staged' = staged + 1
  /\ index' = index \cup In(Paths[staged'])
  /\ UNCHANGED <<requests, changes, pending, state, timer, pc, taken, head, remote,
                 diverged, git, process>>

\* Mutant of Commit: without anything to commit there is nothing to push.
CommitOrReturn ==
  /\ pc = "staging" /\ staged = Len(Paths)
  /\ head' = index
  /\ IF index = head
     THEN pc' = AfterFlush(stopping) /\ state' = "idle" /\ taken' = <<>>
     ELSE pc' = "pushing" /\ UNCHANGED <<state, taken>>
  /\ UNCHANGED <<requests, changes, pending, timer, staged, index, remote, diverged,
                 git, process>>

\* Commit what is staged, if anything is, and push in either case.
Commit ==
  /\ pc = "staging" /\ staged = Len(Paths)
  /\ head' = index
  /\ pc' = "pushing"
  /\ UNCHANGED <<requests, changes, pending, state, timer, taken, staged, index, remote,
                 diverged, git, process>>

\* The remote takes the push, unless it has commits the branch has not.
Push ==
  /\ pc = "pushing" /\ ~diverged
  /\ remote' = head
  /\ pc' = "pushed"
  /\ UNCHANGED <<requests, changes, pending, state, timer, taken, staged, index, head,
                 diverged, git, process>>

\* The answer of the remote arrives.
FlushDone ==
  /\ pc = "pushed"
  /\ pc' = AfterFlush(stopping)
  /\ state' = "idle"
  /\ taken' = <<>>
  /\ UNCHANGED <<requests, changes, pending, timer, staged, repository, process>>

\* Mutant of FlushFails: the failure is only logged.
FlushFailsQuietly ==
  /\ Flushing
  /\ pending' = taken \o pending /\ taken' = <<>>
  /\ state' = "idle"
  /\ pc' = AfterFlush(stopping)
  /\ UNCHANGED <<requests, changes, timer, staged, repository, process>>

\* Staging, the commit or the push fails, or its answer is lost: restorePending and
\* setFailed.  No timer is set.
FlushFails ==
  /\ Flushing
  /\ pending' = taken \o pending /\ taken' = <<>>
  /\ state' = "failed"
  /\ pc' = AfterFlush(stopping)
  /\ UNCHANGED <<requests, changes, timer, staged, repository, process>>

-----------------------------------------------------------------------------
(* The process and the world *)

\* main leaves when the listener fails, and calls Shutdown.
Shutdown ==
  /\ Up /\ stopping = "no" /\ ends < MaxEnds
  /\ stopping' = "asked" /\ ends' = ends + 1
  /\ UNCHANGED <<requests, changes, pending, state, timer, pc, taken, staged, repository>>

\* The process is gone, with all it had in memory.
Gone ==
  /\ pc' = "down"
  /\ handlers' = {} /\ changes' = <<>> /\ pending' = <<>> /\ taken' = <<>>
  /\ state' = "idle" /\ timer' = FALSE /\ staged' = 0 /\ stopping' = "no"
  /\ UNCHANGED <<saved, undone, announced, repository>>

\* main returns: run has ended, or Shutdown does not wait for it any longer.
Exit == stopping # "no" /\ Gone /\ UNCHANGED ends

Kill == Up /\ ends < MaxEnds /\ ends' = ends + 1 /\ Gone

\* Checkout returns ErrUnstagedChanges while a file in the index has a change that
\* is not staged; files that were never staged do not count.
CanCheckout == saved \ index \subseteq Creating

\* Checkout, a merge reset: the index becomes the branch, and with it the files in
\* which the two differed.
Checkout ==
  /\ CanCheckout
  /\ index' = head
  /\ saved' = saved \ (index \ head)
  /\ undone' = undone \cup (index \ head)
  /\ UNCHANGED <<head, remote, diverged>>

\* Mutant of Restart: nothing is announced at start.
RestartQuietly ==
  /\ ~Up
  /\ Checkout
  /\ pc' = "select" /\ git' \in BOOLEAN
  /\ announced' = announced \cup saved'
  /\ UNCHANGED <<handlers, changes, pending, state, timer, taken, staged, process>>

\* A start checks the branch out, or fails; then it announces a change of its own,
\* whose flush commits whatever is there.
Restart ==
  /\ ~Up
  /\ Checkout
  /\ pc' = "select" /\ git' \in BOOLEAN
  /\ announced' = announced \cup saved'
  /\ changes' = <<Start>>
  /\ UNCHANGED <<handlers, pending, state, timer, taken, staged, process>>

\* Somebody else pushes to the branch.  The service never pulls.
OutsidePush ==
  /\ ~diverged /\ diverged' = TRUE
  /\ UNCHANGED <<requests, changes, pending, state, timer, pc, taken, staged, index, head,
                 remote, git, process>>

RunStep == Receive \/ TimerFires \/ ContextDone \/ Stage \/ Commit \/ Push \/ FlushDone
           \/ FlushFails

Next ==
  \/ \E c \in Changes : Save(c) \/ Announce(c) \/ Abandon(c)
  \/ RunStep
  \/ Shutdown \/ Exit \/ Kill \/ Restart \/ OutsidePush

Spec == Init /\ [][Next]_vars

\* Requests end, the goroutine of run goes on (the timer fires, and the push timeout
\* ends every flush), and somebody starts the server again when it is down and the
\* start does not fail.
Fairness ==
  /\ \A c \in Changes : WF_vars(Announce(c) \/ Abandon(c))
  /\ WF_vars(RunStep)
  /\ WF_vars(Exit)
  /\ WF_vars(Restart)

FairSpec == Spec /\ Fairness

-----------------------------------------------------------------------------
(* Properties *)

TypeOK ==
  /\ saved \subseteq Changes /\ undone \subseteq Changes \ saved
  /\ handlers \subseteq saved /\ announced \subseteq saved \cup undone
  /\ changes \in Seq(Entries) /\ Len(changes) <= Cap
  /\ pending \in Seq(Entries) /\ taken \in Seq(Entries)
  /\ state \in {"idle", "pending", "committing", "failed"}
  /\ timer \in BOOLEAN
  /\ pc \in {"select", "staging", "pushing", "pushed", "stopped", "down"}
  /\ ~Up => handlers = {} /\ changes = <<>> /\ pending = <<>> /\ taken = <<>>
  /\ staged \in 0 .. Len(Paths)
  /\ index \subseteq saved /\ head \subseteq index /\ remote \subseteq head
  /\ diverged \in BOOLEAN /\ git \in BOOLEAN
  /\ stopping \in {"no", "asked", "last"}
  /\ ends \in 0 .. MaxEnds

\* The service says that it has nothing to do.
Idle == pc = "select" /\ state = "idle" /\ changes = <<>>

\* When the status says idle and no announcement waits in the channel, everything
\* announced is on the remote, also what the full channel dropped, what a failed
\* flush left behind, and what was saved before a kill; but for the changes that
\* were staged and not committed when the process ended, which the next start undid.
IdleMeansPushed == Idle => announced \subseteq remote \cup undone

\* A server that is idle, and in which every change was announced, can be stopped:
\* the next start neither fails nor undoes a change.
IdleMayStop == Idle /\ saved \subseteq announced => CanCheckout /\ index = head

\* Changes that wait although no timer will flush them are reported as failed.
NothingWaitsSilently ==
  pc = "select" /\ pending # <<>> /\ ~timer => state = "failed"

\* A commit contains the files of the changes its message names: they were saved
\* before they were announced, and all paths are staged after they were taken.
CommitHoldsItsChanges ==
  [][pc = "staging" /\ pc' = "pushing" => ToSet(taken) \ {Start} \subseteq head']_vars

\* No start succeeds before somebody has put the work tree in order by hand.
Refused == ~Up /\ ~CanCheckout

\* What the service was told of reaches the remote, or the status says it failed,
\* unless the process ends before the change is committed: the next start undoes it
\* when it was staged, and no start succeeds while a tracked file is changed and not
\* staged.  Files saved by requests that did not announce them do so after a start.
AnnouncedReachesRemote ==
  \A c \in Changes :
    c \in announced ~> c \in remote \/ state = "failed" \/ c \in undone \/ Refused
=============================================================================
