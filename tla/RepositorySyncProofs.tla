------------------------ MODULE RepositorySyncProofs ------------------------
(***************************************************************************)
(* Theorems about RepositorySync, for every set of changes, every list of  *)
(* managed paths, every capacity and every number of shutdowns and kills.  *)
(***************************************************************************)
EXTENDS RepositorySync, SequenceTheorems, TLAPS

-----------------------------------------------------------------------------
(* Type correctness *)

LEMMA PathCount == Len(Paths) \in Nat
  BY SyncAssumption, LenProperties

LEMMA InitTypeOK == Init => TypeOK
<1> SUFFICES ASSUME Init PROVE TypeOK
  OBVIOUS
<1>1. changes \in Seq(Entries) /\ Len(changes) = 1
  BY DEF Init, Entries
<1>2. Len(changes) <= Cap
  BY <1>1, SyncAssumption
<1>3. 0 \in 0 .. Len(Paths)
  BY PathCount
<1>4. <<>> \in Seq(Entries)
  OBVIOUS
<1>5. ends \in 0 .. MaxEnds
  BY SyncAssumption DEF Init
<1>6. git \in BOOLEAN /\ diverged \in BOOLEAN /\ timer \in BOOLEAN
  BY DEF Init
<1>7. QED
  BY <1>1, <1>2, <1>3, <1>4, <1>5, <1>6 DEF Init, Up, TypeOK

\* A change that is saved or announced, or a start.
LEMMA RequestTypeOK ==
  ASSUME TypeOK, NEW c \in Changes, Save(c) \/ Announce(c) \/ Abandon(c)
  PROVE  TypeOK'
<1>1. CASE Save(c)
  BY <1>1 DEF Save, Up, TypeOK, repository, process
<1>2. CASE Announce(c)
  <2>1. c \in Entries
    BY DEF Entries
  <2>2. /\ Append(changes, c) \in Seq(Entries)
        /\ Len(Append(changes, c)) = Len(changes) + 1
        /\ Len(changes) \in Nat
    BY <2>1, AppendProperties, LenProperties DEF TypeOK
  <2>3. changes' \in Seq(Entries) /\ Len(changes') <= Cap
    <3>1. CASE HasRoom(changes)
      <4>1. Len(changes) + 1 <= Cap
        BY <2>2, <3>1, SyncAssumption DEF HasRoom
      <4>2. QED BY <1>2, <2>2, <3>1, <4>1 DEF Announce
    <3>2. CASE ~HasRoom(changes)
      BY <1>2, <3>2 DEF Announce, TypeOK
    <3>3. QED BY <3>1, <3>2
  <2>4. state' \in {"idle", "pending", "committing", "failed"}
    BY <1>2 DEF Announce, TypeOK
  <2>5. handlers' \subseteq saved' /\ announced' \subseteq saved' \cup undone' /\ Up'
    BY <1>2 DEF Announce, TypeOK, Up
  <2>6. QED
    BY <1>2, <2>3, <2>4, <2>5 DEF Announce, TypeOK, repository, process
<1>3. CASE Abandon(c)
  BY <1>3 DEF Abandon, Up, TypeOK, repository, process
<1>4. QED
  BY <1>1, <1>2, <1>3

LEMMA BeginFlushTypeOK ==
  ASSUME TypeOK, NEW s \in {"no", "asked", "last"}, BeginFlush(s)
  PROVE  TypeOK'
<1>1. /\ pending' \in {pending, <<>>} /\ taken' \in {taken, pending}
      /\ state' \in {"idle", "committing", "failed"}
      /\ pc' \in {"select", "staging", "stopped"}
      /\ staged' \in {staged, 0}
  BY DEF BeginFlush, AfterFlush
<1>2. pending' \in Seq(Entries) /\ taken' \in Seq(Entries)
  <2>1. <<>> \in Seq(Entries)
    OBVIOUS
  <2>2. pending \in Seq(Entries) /\ taken \in Seq(Entries)
    BY DEF TypeOK
  <2>3. QED BY <1>1, <2>1, <2>2
<1>3. staged' \in 0 .. Len(Paths)
  BY <1>1, PathCount DEF TypeOK
<1>4. timer' = FALSE /\ stopping' \in {"no", "asked", "last"}
  BY DEF BeginFlush
<1>5. QED
  BY <1>1, <1>2, <1>3, <1>4 DEF BeginFlush, Up, TypeOK, requests, repository

LEMMA RunStepTypeOK ==
  ASSUME TypeOK, RunStep
  PROVE  TypeOK'
<1>1. CASE Receive
  <2>1. /\ Head(changes) \in Entries /\ Tail(changes) \in Seq(Entries)
        /\ Len(Tail(changes)) = Len(changes) - 1 /\ Len(changes) \in Nat
    BY <1>1, HeadTailProperties, LenProperties DEF Receive, TypeOK
  <2>2. Append(pending, Head(changes)) \in Seq(Entries)
    BY <2>1, AppendProperties DEF TypeOK
  <2>3. Len(changes') <= Cap
    BY <1>1, <2>1, SyncAssumption DEF Receive, TypeOK
  <2>4. QED
    BY <1>1, <2>1, <2>2, <2>3 DEF Receive, Up, TypeOK, requests, repository, process
<1>2. CASE TimerFires
  BY <1>2, BeginFlushTypeOK DEF TimerFires, TypeOK
<1>3. CASE ContextDone
  BY <1>3, BeginFlushTypeOK DEF ContextDone
<1>4. CASE Stage
  <2>1. staged' \in 0 .. Len(Paths)
    BY <1>4, PathCount DEF Stage, TypeOK
  <2>2. index' \subseteq saved /\ head \subseteq index'
    BY <1>4 DEF Stage, In, TypeOK
  <2>3. QED
    BY <1>4, <2>1, <2>2 DEF Stage, Up, TypeOK, requests, process
<1>5. CASE Commit
  BY <1>5 DEF Commit, Up, TypeOK, requests, process
<1>6. CASE Push
  BY <1>6 DEF Push, Up, TypeOK, requests, process
<1>7. CASE FlushDone
  BY <1>7 DEF FlushDone, AfterFlush, Up, TypeOK, requests, repository, process
<1>8. CASE FlushFails
  <2>1. taken \o pending \in Seq(Entries)
    BY ConcatProperties DEF TypeOK
  <2>2. QED
    BY <1>8, <2>1 DEF FlushFails, AfterFlush, Up, TypeOK, requests, repository, process
<1>9. QED
  BY <1>1, <1>2, <1>3, <1>4, <1>5, <1>6, <1>7, <1>8 DEF RunStep

\* The process ends with nothing in memory.
LEMMA GoneTypeOK ==
  ASSUME TypeOK, Gone, ends' \in 0 .. MaxEnds
  PROVE  TypeOK'
<1>1. 0 \in 0 .. Len(Paths)
  BY PathCount
<1>2. changes' \in Seq(Entries) /\ Len(changes') <= Cap
  BY SyncAssumption DEF Gone
<1>3. QED
  BY <1>1, <1>2 DEF Gone, Up, TypeOK, repository

LEMMA WorldTypeOK ==
  ASSUME TypeOK, Shutdown \/ Exit \/ Kill \/ Restart \/ OutsidePush
  PROVE  TypeOK'
<1>1. CASE Shutdown
  BY <1>1, SyncAssumption DEF Shutdown, Up, TypeOK, requests, repository
<1>2. CASE Exit
  BY <1>2, GoneTypeOK DEF Exit, TypeOK
<1>3. CASE Kill
  BY <1>3, GoneTypeOK, SyncAssumption DEF Kill, TypeOK
<1>4. CASE Restart
  <2>1. changes' \in Seq(Entries) /\ Len(changes') = 1
    BY <1>4 DEF Restart, Entries
  <2>2. Len(changes') <= Cap
    BY <2>1, SyncAssumption
  <2>3. saved' \subseteq Changes /\ undone' \subseteq Changes \ saved'
        /\ handlers' \subseteq saved' /\ announced' \subseteq saved' \cup undone'
    BY <1>4 DEF Restart, Checkout, TypeOK
  <2>4. index' \subseteq saved' /\ head' \subseteq index' /\ remote' \subseteq head'
        /\ diverged' \in BOOLEAN /\ git' \in BOOLEAN
    BY <1>4 DEF Restart, Checkout, TypeOK
  <2>5. QED
    BY <1>4, <2>1, <2>2, <2>3, <2>4 DEF Restart, Up, TypeOK, process
<1>5. CASE OutsidePush
  BY <1>5 DEF OutsidePush, Up, TypeOK, requests, process
<1>6. QED
  BY <1>1, <1>2, <1>3, <1>4, <1>5

LEMMA NextTypeOK == TypeOK /\ [Next]_vars => TypeOK'
<1> SUFFICES ASSUME TypeOK, [Next]_vars PROVE TypeOK'
  OBVIOUS
<1>1. CASE \E c \in Changes : Save(c) \/ Announce(c) \/ Abandon(c)
  BY <1>1, RequestTypeOK
<1>2. CASE RunStep
  BY <1>2, RunStepTypeOK
<1>3. CASE Shutdown \/ Exit \/ Kill \/ Restart \/ OutsidePush
  BY <1>3, WorldTypeOK
<1>4. CASE UNCHANGED vars
  BY <1>4 DEF vars, Up, TypeOK
<1>5. QED
  BY <1>1, <1>2, <1>3, <1>4 DEF Next

\* Every reachable state of the service is type correct; in particular the channel
\* never holds more than its capacity, and the remote contains nothing that is not
\* on the branch, the branch nothing that was not staged, the index nothing that was
\* not saved.
THEOREM TypeCorrect == Spec => []TypeOK
  BY InitTypeOK, NextTypeOK, PTL DEF Spec

-----------------------------------------------------------------------------
(* Nothing announced is forgotten *)

\* The managed paths that a flush has not staged yet.
Unstaged == {Paths[i] : i \in staged + 1 .. Len(Paths)}

\* What the goroutine of run holds: a flush took something and left nothing, and
\* an idle service has nothing pending.
ListsInv ==
  /\ Flushing => pending = <<>> /\ taken # <<>>
  /\ pc = "down" => pending = <<>>
  /\ pc = "select" /\ state = "idle" => pending = <<>>
  /\ NothingWaitsSilently

\* What was announced and not undone by a start.
Kept == announced \ undone

\* Where a kept change is while the channel is empty: on the remote, or ahead
\* of a flush, or in the stage of the repository that the flush has reached.
Accounted ==
  changes # <<>> \/
    /\ pc = "select" => pending # <<>> \/ Kept \subseteq remote
    /\ pc = "staging" => \A c \in Kept : c \in index \/ PathOf[c] \in Unstaged
    /\ pc = "pushing" => Kept \subseteq head
    /\ pc = "pushed" => Kept \subseteq remote

LEMMA InitLists == Init => ListsInv /\ Accounted
  BY DEF Init, ListsInv, Accounted, Flushing, NothingWaitsSilently

LEMMA BeginFlushLists ==
  ASSUME TypeOK, ListsInv, pc = "select", NEW s, BeginFlush(s)
  PROVE  ListsInv'
  BY DEF BeginFlush, AfterFlush, ListsInv, Flushing, NothingWaitsSilently

LEMMA NextLists == TypeOK /\ ListsInv /\ [Next]_vars => ListsInv'
<1> SUFFICES ASSUME TypeOK, ListsInv, [Next]_vars PROVE ListsInv'
  OBVIOUS
<1> USE DEF ListsInv, Flushing, NothingWaitsSilently
<1>1. ASSUME NEW c \in Changes, Save(c) \/ Announce(c) \/ Abandon(c) PROVE ListsInv'
  BY <1>1 DEF Save, Announce, Abandon
<1>2. CASE Receive
  BY <1>2 DEF Receive
<1>3. CASE TimerFires
  BY <1>3, BeginFlushLists DEF TimerFires
<1>4. CASE ContextDone
  BY <1>4, BeginFlushLists DEF ContextDone
<1>5. CASE Stage
  BY <1>5 DEF Stage
<1>6. CASE Commit
  BY <1>6 DEF Commit
<1>7. CASE Push
  BY <1>7 DEF Push
<1>8. CASE FlushDone
  BY <1>8 DEF FlushDone, AfterFlush
<1>9. CASE FlushFails
  BY <1>9 DEF FlushFails, AfterFlush
<1>10. CASE Shutdown \/ OutsidePush
  BY <1>10 DEF Shutdown, OutsidePush
<1>11. CASE Exit \/ Kill
  BY <1>11 DEF Exit, Kill, Gone
<1>12. CASE Restart
  BY <1>12 DEF Restart, Up
<1>13. CASE UNCHANGED vars
  BY <1>13 DEF vars
<1>14. QED
  BY <1>1, <1>2, <1>3, <1>4, <1>5, <1>6, <1>7, <1>8, <1>9, <1>10, <1>11, <1>12, <1>13
     DEF Next, RunStep

\* A new flush has every path still to stage.
LEMMA BeginFlushAccounted ==
  ASSUME TypeOK, Accounted, pc = "select", NEW s, BeginFlush(s)
  PROVE  Accounted'
<1>1. CASE pc' = "staging"
  <2>1. staged' = 0 /\ Kept' = Kept
    BY <1>1 DEF BeginFlush, AfterFlush, Kept, requests
  <2>2. Unstaged' = ToSet(Paths)
    BY <2>1, SyncAssumption, LenProperties DEF Unstaged, ToSet
  <2>3. \A c \in Kept : PathOf[c] \in ToSet(Paths)
    BY SyncAssumption DEF Kept, TypeOK
  <2>4. QED
    BY <1>1, <2>1, <2>2, <2>3 DEF Accounted
<1>2. CASE pc' # "staging"
  BY <1>2 DEF BeginFlush, AfterFlush, Accounted, Kept, requests, repository
<1>3. QED BY <1>1, <1>2

LEMMA StageAccounted ==
  ASSUME TypeOK, Accounted, Stage
  PROVE  Accounted'
<1>1. staged \in Nat /\ Len(Paths) \in Nat /\ staged < Len(Paths) /\ staged' = staged + 1
  BY PathCount DEF Stage, TypeOK
<1>2. \A p \in Unstaged : p = Paths[staged'] \/ p \in Unstaged'
  BY <1>1 DEF Unstaged
<1>3. ASSUME NEW c \in Kept, c \in index \/ PathOf[c] \in Unstaged
      PROVE  c \in index' \/ PathOf[c] \in Unstaged'
  BY <1>2, <1>3 DEF Stage, In, Kept, TypeOK
<1>4. QED
  BY <1>3 DEF Stage, Kept, Accounted, Kept, requests

LEMMA NextAccounted == TypeOK /\ ListsInv /\ Accounted /\ [Next]_vars => Accounted'
<1> SUFFICES ASSUME TypeOK, ListsInv, Accounted, [Next]_vars PROVE Accounted'
  OBVIOUS
<1>1. ASSUME NEW c \in Changes, Announce(c) PROVE Accounted'
  <2>1. changes' # <<>>
    <3>1. CASE HasRoom(changes)
      BY <1>1, <3>1, AppendProperties DEF Announce, TypeOK, Entries
    <3>2. CASE ~HasRoom(changes)
      <4>1. Len(changes) # 0
        BY <3>2, SyncAssumption, LenProperties DEF HasRoom, TypeOK
      <4>2. QED BY <1>1, <3>2, <4>1 DEF Announce
    <3>3. QED BY <3>1, <3>2
  <2>2. QED BY <2>1 DEF Accounted
<1>2. ASSUME NEW c \in Changes, Save(c) \/ Abandon(c) PROVE Accounted'
  BY <1>2 DEF Save, Abandon, Accounted, Kept, Unstaged, repository
<1>3. CASE Receive
  <2>1. pending' # <<>> /\ pc' = "select"
    BY <1>3, AppendProperties, HeadTailProperties DEF Receive, TypeOK
  <2>2. QED BY <2>1 DEF Accounted
<1>4. CASE TimerFires \/ ContextDone
  BY <1>4, BeginFlushAccounted DEF TimerFires, ContextDone
<1>5. CASE Stage
  BY <1>5, StageAccounted
<1>6. CASE Commit
  <2>1. Unstaged = {}
    BY <1>6, PathCount DEF Commit, Unstaged
  <2>2. QED BY <1>6, <2>1 DEF Commit, Accounted, Kept, requests
<1>7. CASE Push
  BY <1>7 DEF Push, Accounted, Kept, requests
<1>8. CASE FlushDone
  BY <1>8 DEF FlushDone, AfterFlush, Accounted, Kept, requests, repository
<1>9. CASE FlushFails
  <2>1. pending' # <<>>
    <3>1. Len(taken \o pending) # 0
      BY <1>9, ConcatProperties, LenProperties, EmptySeq
         DEF FlushFails, ListsInv, TypeOK
    <3>2. QED BY <1>9, <3>1 DEF FlushFails
  <2>2. pc' \in {"select", "stopped"}
    BY <1>9 DEF FlushFails, AfterFlush
  <2>3. QED BY <2>1, <2>2 DEF Accounted
<1>10. CASE Shutdown \/ OutsidePush
  BY <1>10 DEF Shutdown, OutsidePush, Accounted, Kept, Unstaged, requests, repository
<1>11. CASE Exit \/ Kill
  BY <1>11 DEF Exit, Kill, Gone, Accounted
<1>12. CASE Restart
  BY <1>12 DEF Restart, Accounted
<1>13. CASE UNCHANGED vars
  BY <1>13 DEF vars, Accounted, Kept, Unstaged
<1>14. QED
  BY <1>1, <1>2, <1>3, <1>4, <1>5, <1>6, <1>7, <1>8, <1>9, <1>10, <1>11, <1>12, <1>13
     DEF Next, RunStep

\* When the status says idle and the channel is empty, everything announced is on
\* the remote, whatever was dropped, failed or killed on the way, unless a start
\* undid it.
THEOREM IdleIsTrue == Spec => []IdleMeansPushed
<1>1. ListsInv /\ Accounted => IdleMeansPushed
  BY DEF ListsInv, Accounted, Kept, IdleMeansPushed, Idle
<1>2. QED
  BY <1>1, InitTypeOK, NextTypeOK, InitLists, NextLists, NextAccounted, PTL DEF Spec

\* When moreover every saved change was announced, the next start neither fails nor
\* undoes anything: all that is saved is on the remote, so in the index and on the
\* branch.
THEOREM IdleIsSafe == Spec => []IdleMayStop
<1>1. TypeOK /\ IdleMeansPushed => IdleMayStop
  <2>. SUFFICES ASSUME TypeOK, IdleMeansPushed, Idle, saved \subseteq announced
                PROVE  CanCheckout /\ index = head
    BY DEF IdleMayStop
  <2>1. saved \subseteq remote
    BY DEF TypeOK, IdleMeansPushed
  <2>2. saved = index /\ index = head
    BY <2>1 DEF TypeOK
  <2>3. QED
    BY <2>2 DEF CanCheckout
<1>2. QED
  BY <1>1, TypeCorrect, IdleIsTrue, PTL

\* Changes that no timer will flush are reported as failed.
THEOREM WaitingIsReported == Spec => []NothingWaitsSilently
<1>1. ListsInv => NothingWaitsSilently
  BY DEF ListsInv
<1>2. QED
  BY <1>1, InitTypeOK, NextTypeOK, InitLists, NextLists, PTL DEF Spec

-----------------------------------------------------------------------------
(* A commit holds what its message names *)

\* What the lists of the service may name: files that are saved, and starts.
Known == saved \cup {Start}

KnownInv == changes \in Seq(Known) /\ pending \in Seq(Known) /\ taken \in Seq(Known)

\* While paths are staged, a taken change is in the index or in a path to come.
TakenInv ==
  pc = "staging" => \A c \in ToSet(taken) \ {Start} :
                      c \in index \/ PathOf[c] \in Unstaged

LEMMA KnownGrows ==
  ASSUME KnownInv, Known \subseteq Known', UNCHANGED <<changes, pending, taken>>
  PROVE  KnownInv'
  BY DEF KnownInv

LEMMA NextKnown == TypeOK /\ KnownInv /\ [Next]_vars => KnownInv'
<1> SUFFICES ASSUME TypeOK, KnownInv, [Next]_vars PROVE KnownInv'
  OBVIOUS
<1>1. CASE UNCHANGED <<changes, pending, taken, saved>>
  BY <1>1 DEF KnownInv, Known
<1>2. ASSUME NEW c \in Changes, Save(c) PROVE KnownInv'
  BY <1>2, KnownGrows DEF Save, Known
<1>3. ASSUME NEW c \in Changes, Announce(c) PROVE KnownInv'
  <2>1. c \in Known /\ Known' = Known
    BY <1>3 DEF Announce, Known, TypeOK
  <2>2. Append(changes, c) \in Seq(Known)
    BY <2>1, AppendProperties DEF KnownInv
  <2>3. QED
    BY <1>3, <2>1, <2>2 DEF Announce, KnownInv
<1>4. CASE Receive
  <2>1. Head(changes) \in Known /\ Tail(changes) \in Seq(Known)
    BY <1>4, HeadTailProperties DEF Receive, KnownInv
  <2>2. Append(pending, Head(changes)) \in Seq(Known)
    BY <2>1, AppendProperties DEF KnownInv
  <2>3. QED
    BY <1>4, <2>1, <2>2 DEF Receive, KnownInv, Known, requests
<1>5. ASSUME NEW s, BeginFlush(s) PROVE KnownInv'
  <2>1. <<>> \in Seq(Known)
    OBVIOUS
  <2>2. Known' = Known /\ pending' \in {pending, <<>>} /\ taken' \in {taken, pending}
        /\ changes' = changes
    BY <1>5 DEF BeginFlush, Known, requests
  <2>3. QED BY <2>1, <2>2 DEF KnownInv
<1>6. CASE FlushDone
  <2>1. <<>> \in Seq(Known)
    OBVIOUS
  <2>2. QED BY <1>6, <2>1 DEF FlushDone, KnownInv, Known, requests
<1>7. CASE FlushFails
  <2>1. <<>> \in Seq(Known) /\ taken \o pending \in Seq(Known)
    BY ConcatProperties DEF KnownInv
  <2>2. QED BY <1>7, <2>1 DEF FlushFails, KnownInv, Known, requests
<1>8. CASE Exit \/ Kill
  <2>1. <<>> \in Seq(Known) /\ Known' = Known
    BY <1>8 DEF Exit, Kill, Gone, Known
  <2>2. QED BY <1>8, <2>1 DEF Exit, Kill, Gone, KnownInv
<1>9. CASE Restart
  <2>1. pending = <<>> /\ taken = <<>>
    BY <1>9 DEF Restart, TypeOK
  <2>2. <<Start>> \in Seq(Known') /\ <<>> \in Seq(Known')
    BY DEF Known
  <2>3. QED BY <1>9, <2>1, <2>2 DEF Restart, KnownInv
<1>10. ASSUME NEW c \in Changes, Abandon(c) PROVE KnownInv'
  BY <1>1, <1>10 DEF Abandon
<1>11. CASE Stage \/ Commit \/ Push \/ Shutdown \/ OutsidePush \/ UNCHANGED vars
  BY <1>1, <1>11 DEF Stage, Commit, Push, Shutdown, OutsidePush, vars, requests
<1>12. QED
  BY <1>2, <1>3, <1>4, <1>5, <1>6, <1>7, <1>8, <1>9, <1>10, <1>11
     DEF Next, RunStep, TimerFires, ContextDone

LEMMA NextTaken == TypeOK /\ KnownInv /\ TakenInv /\ [Next]_vars => TakenInv'
<1> SUFFICES ASSUME TypeOK, KnownInv, TakenInv, [Next]_vars, pc' = "staging"
             PROVE  TakenInv'
  BY DEF TakenInv
<1>1. CASE UNCHANGED <<pc, taken, staged, index>>
  BY <1>1 DEF TakenInv, Unstaged
<1>2. CASE pc = "select" /\ taken' = pending /\ staged' = 0
  <2>1. \A c \in ToSet(pending) \ {Start} : PathOf[c] \in ToSet(Paths)
    BY SyncAssumption DEF KnownInv, Known, ToSet, TypeOK
  <2>2. Unstaged' = ToSet(Paths)
    BY <1>2, SyncAssumption, LenProperties DEF Unstaged, ToSet
  <2>3. QED
    BY <1>2, <2>1, <2>2 DEF TakenInv
<1>3. CASE Stage
  <2>1. staged \in Nat /\ Len(Paths) \in Nat /\ staged < Len(Paths) /\ staged' = staged + 1
    BY <1>3, PathCount DEF Stage, TypeOK
  <2>2. \A p \in Unstaged : p = Paths[staged'] \/ p \in Unstaged'
    BY <2>1 DEF Unstaged
  <2>3. \A c \in ToSet(taken) \ {Start} : c \in saved
    BY DEF KnownInv, Known, ToSet
  <2>4. QED
    BY <1>3, <2>2, <2>3 DEF Stage, In, TakenInv
<1>4. ASSUME NEW s, pc = "select", BeginFlush(s) PROVE TakenInv'
  BY <1>2, <1>4 DEF BeginFlush, AfterFlush
<1>5. ASSUME NEW c \in Changes, Save(c) \/ Announce(c) \/ Abandon(c) PROVE TakenInv'
  BY <1>1, <1>5 DEF Save, Announce, Abandon, repository
<1>6. CASE Commit \/ Push \/ FlushDone \/ FlushFails \/ Exit \/ Kill \/ Restart \/ Receive
  BY <1>6 DEF Commit, Push, FlushDone, FlushFails, AfterFlush, Exit, Kill, Gone, Restart,
              Receive
<1>7. CASE Shutdown \/ OutsidePush \/ UNCHANGED vars
  BY <1>1, <1>7 DEF Shutdown, OutsidePush, vars, repository
<1>8. QED
  BY <1>3, <1>4, <1>5, <1>6, <1>7 DEF Next, RunStep, TimerFires, ContextDone

\* A commit contains the files of every change that its message names.
THEOREM CommitsComplete == Spec => CommitHoldsItsChanges
<1>1. Init => KnownInv /\ TakenInv
  BY DEF Init, KnownInv, TakenInv, Known
<1>2. TypeOK /\ TakenInv /\ [Next]_vars
      => [pc = "staging" /\ pc' = "pushing" => ToSet(taken) \ {Start} \subseteq head']_vars
  <2>1. SUFFICES ASSUME TypeOK, TakenInv, Next, pc = "staging", pc' = "pushing"
                 PROVE  ToSet(taken) \ {Start} \subseteq head'
    OBVIOUS
  <2>2. Commit
    BY <2>1 DEF Next, RunStep, Save, Announce, Abandon, Receive, TimerFires, ContextDone,
                Stage, Push, FlushDone, FlushFails, AfterFlush, Shutdown, Exit, Kill,
                Gone, Restart, OutsidePush
  <2>3. Unstaged = {}
    BY <2>2, PathCount DEF Commit, Unstaged
  <2>4. QED BY <2>1, <2>2, <2>3 DEF Commit, TakenInv
<1>3. QED
  BY <1>1, <1>2, InitTypeOK, NextTypeOK, NextKnown, NextTaken, PTL
     DEF Spec, CommitHoldsItsChanges
=============================================================================
