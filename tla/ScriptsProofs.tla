---------------------------- MODULE ScriptsProofs ----------------------------
(***************************************************************************)
(* Theorems about the scripts of workflows and forms in ApiServer, on the  *)
(* server and in the directory of autablectl.                              *)
(*                                                                         *)
(* When no handler is at it, each file of the server holds the script of   *)
(* its row.  A handler must find the row as it left it, which the          *)
(* invariant of AccessProofs sees to: two that change the same workflow    *)
(* or form are known. And what is saved as a workflow has the id of one,   *)
(* which for push depends on the state of the directory.                   *)
(*                                                                         *)
(* A pull leaves files alone that were edited, since no other command is   *)
(* at the directory and the state is as the files were put.  A push        *)
(* replaces the script its file was made from: what it has recorded and    *)
(* compared is a script the row had at that time, and every write of a     *)
(* row has its own.                                                        *)
(*                                                                         *)
(* The last part puts all modules together: the types of ApiServer, with   *)
(* the unique columns of the system database.                              *)
(***************************************************************************)
EXTENDS AccessProofs

-----------------------------------------------------------------------------
(* What is saved is of the kind of its id.                                 *)

OfItsKind(i, kind) == i \in ScriptIds /\ Kind(i) = kind

\* The entries of a state are workflows or forms as their paths say.
StateKinds(state) == \A p \in DOMAIN state : OfItsKind(state[p].item, p[1])

ChangeKinds(c) ==
  /\ c.kind = c.path[1]
  /\ c.status = "modified" => OfItsKind(c.entry.item, c.kind)

PullKinds(r) ==
  r.op = "pull" =>
    /\ pc[r] = "scripts" => DOMAIN held[r].rows \subseteq ScriptIds
    /\ pc[r] = "local" => StateKinds(held[r].remote)
    /\ pc[r] = "record" => StateKinds(held[r].state)

PushKinds(r) ==
  (r.op = "push" /\ pc[r] \notin {"start", "done"}) =>
    /\ StateKinds(held[r].state)
    /\ pc[r] # "record" => \A c \in held[r].todo : ChangeKinds(c)
    /\ pc[r] \notin {"record", "next"} =>
         "outcome" \in DOMAIN held[r] /\ held[r].kind = held[r].change.path[1]

SaveKinds(r) ==
  (r.op \in SaveOps /\ (pc[r] \in {"post", "reply"} \/ Changing(r))) =>
    /\ held[r].item # Nothing => OfItsKind(held[r].item, held[r].kind)
    /\ (r.op = "push" /\ pc[r] = "reply" /\ held[r].outcome = "ok") => held[r].item # Nothing

Kinds(r) == PullKinds(r) /\ PushKinds(r) /\ SaveKinds(r)

KindsInv ==
  /\ {"files", "state", "known"} \subseteq DOMAIN dir /\ StateKinds(dir.state)
  /\ \A r \in due : Kinds(r)

\* What a handler holds on to.
Carried(h, k) ==
  /\ DOMAIN k = DOMAIN h /\ k.kind = h.kind /\ k.state = h.state /\ k.todo = h.todo
  /\ k.change = h.change /\ k.checked = h.checked

LEMMA Carrying ==
  ASSUME NEW h
  PROVE  /\ \A x : Carried(h, [h EXCEPT !.outcome = x]) /\ [h EXCEPT !.outcome = x].item = h.item
         /\ \A x : Carried(h, [h EXCEPT !.previous = x]) /\ [h EXCEPT !.previous = x].item = h.item
         /\ \A x : Carried(h, [h EXCEPT !.row = x]) /\ [h EXCEPT !.row = x].item = h.item
  BY DEF Carried

\* The next id is of its kind.
LEMMA NextIdKind ==
  ASSUME IdsInv, NEW kind \in ItemScopes, made[kind] < Len(IdsOf(kind))
  PROVE  OfItsKind(NextScriptId(kind), kind)
<1>1. /\ IdsOf(kind) \in Seq(Range(IdsOf(kind))) /\ made[kind] \in Nat
      /\ DOMAIN IdsOf(kind) = 1 .. Len(IdsOf(kind)) /\ Len(IdsOf(kind)) \in Nat
  BY StoreAssumption DEF IdsOf, ItemScopes, IdsInv
<1>2. made[kind] + 1 \in DOMAIN IdsOf(kind)
  BY <1>1
<1>3. NextScriptId(kind) \in Range(IdsOf(kind))
  BY <1>2 DEF NextScriptId, Range
<1>. QED  BY <1>3, StoreAssumption DEF OfItsKind, Kind, ScriptIds, IdsOf, ItemScopes

\* A step of a save goes on with what the handler had, and with a new id when it
\* created a row; or it is the last one.
SaveGoes(r, h) ==
  /\ Carried(h, held'[r])
  /\ \/ held'[r].item = h.item
     \/ /\ pc[r] = "row" /\ h.item = Nothing /\ h.kind \in ItemScopes
        /\ pc'[r] = "file" /\ held'[r].item # Nothing /\ OfItsKind(held'[r].item, h.kind)
  /\ pc'[r] \in ChangeLabels \cup {"reply"}
  /\ pc'[r] = "reply" => \E outcome \in Outcomes :
                                      /\ held'[r] = [h EXCEPT !.outcome = outcome]
                                      /\ outcome = "ok" => pc[r] \in {"file", "oldFile", "owner"}

LEMMA ReplyGoes ==
  ASSUME Progressing, NEW r \in due, r.op \in SaveOps, NEW outcome \in Outcomes, Reply(r, outcome),
         outcome = "ok" => pc[r] \in {"file", "oldFile", "owner"}
  PROVE  IF r.op = "saveScript" THEN pc'[r] = "done" ELSE SaveGoes(r, held[r])
<1>1. CASE r.op = "saveScript"
  BY <1>1, GotoMoves DEF Reply
<1>2. CASE r.op # "saveScript"
  <2>1. pc'[r] = "reply" /\ held'[r] = [held[r] EXCEPT !.outcome = outcome]
    BY <1>2, GotoMoves DEF Reply, SaveOps
  <2>. QED  BY <1>2, <2>1, Carrying DEF SaveGoes
<1>. QED  BY <1>1, <1>2

\* Every step of a save but the first.
LEMMA SaveOn ==
  ASSUME PlaceInv, AccessInv, NEW r \in due, r.op \in SaveOps,
         \/ FindPrevious(r) \/ CreateScript(r) \/ MergeScript(r) \/ WriteScriptRow(r)
         \/ WriteScriptFile(r) \/ RemoveOldFile(r) \/ GrantResourceOwner(r)
  PROVE  /\ Changing(r)
         /\ (r.op = "saveScript" /\ pc'[r] = "done") \/ SaveGoes(r, held[r])
<1>0. Progressing /\ Changing(r)
  BY DEF PlaceInv, FindPrevious, CreateScript, MergeScript, WriteScriptRow, WriteScriptFile, RemoveOldFile,
     GrantResourceOwner, Changing, ChangeOps, ChangeLabels
<1> DEFINE Goes == (r.op = "saveScript" /\ pc'[r] = "done") \/ SaveGoes(r, held[r])
<1> SUFFICES Goes
  BY <1>0
<1>1. /\ Reply(r, "failed") => Goes
      /\ Reply(r, "ok") /\ pc[r] \in {"file", "oldFile", "owner"} => Goes
  <2>1. Reply(r, "failed") => Goes
    BY <1>0, ReplyGoes DEF Outcomes
  <2>2. Reply(r, "ok") /\ pc[r] \in {"file", "oldFile", "owner"} => Goes
    BY <1>0, ReplyGoes DEF Outcomes
  <2>. QED  BY <2>1, <2>2
<1>2. \A label, k :
        (label \in ChangeLabels /\ Goto(r, label, k) /\ Carried(held[r], k) /\ k.item = held[r].item) => Goes
  BY <1>0, GotoMoves DEF SaveGoes, ChangeLabels
<1> HIDE DEF Goes
<1>3. CASE FindPrevious(r)
  <2>1. Reply(r, "failed") \/ \E x : Goto(r, "row", [held[r] EXCEPT !.previous = x])
    BY <1>3 DEF FindPrevious
  <2>2. \A x : Goto(r, "row", [held[r] EXCEPT !.previous = x]) => Goes
    BY <1>2, Carrying, Zenon DEF ChangeLabels
  <2>. QED  BY <1>1, <2>1, <2>2
<1>4. CASE MergeScript(r)
  <2>1. Reply(r, "failed") \/ \E x : Goto(r, "write", [held[r] EXCEPT !.row = x])
    BY <1>4 DEF MergeScript
  <2>2. \A x : Goto(r, "write", [held[r] EXCEPT !.row = x]) => Goes
    BY <1>2, Carrying, Zenon DEF ChangeLabels
  <2>. QED  BY <1>1, <2>1, <2>2
<1>5. CASE WriteScriptRow(r)
  <2>1. \/ Reply(r, "failed")
        \/ Goto(r, "file", [held[r] EXCEPT !.row.at = stamp'])
    BY <1>5 DEF WriteScriptRow
  <2>2. PICK k : k = [held[r] EXCEPT !.row.at = stamp']
    OBVIOUS
  <2>3. Carried(held[r], k) /\ k.item = held[r].item
    BY <2>2 DEF Carried
  <2>4. Goto(r, "file", k) => Goes
    BY <1>2, <2>3, Zenon DEF ChangeLabels
  <2>. QED  BY <1>1, <2>1, <2>2, <2>4
<1>6. CASE WriteScriptFile(r)
  <2>1. \/ Reply(r, "failed") \/ (Reply(r, "ok") /\ pc[r] = "file")
        \/ Goto(r, "oldFile", held[r]) \/ Goto(r, "owner", held[r])
    BY <1>6 DEF WriteScriptFile
  <2>2. Carried(held[r], held[r])
    BY DEF Carried
  <2>3. Goto(r, "oldFile", held[r]) \/ Goto(r, "owner", held[r]) => Goes
    BY <1>2, <2>2, Zenon DEF ChangeLabels
  <2>. QED  BY <1>1, <2>1, <2>3
<1>7. CASE RemoveOldFile(r) \/ GrantResourceOwner(r)
  <2>1. Reply(r, "ok") /\ pc[r] \in {"oldFile", "owner"}
    BY <1>7 DEF RemoveOldFile, GrantResourceOwner
  <2>. QED  BY <1>1, <2>1
<1>8. CASE CreateScript(r)
  <2>1. pc[r] = "row" /\ held[r].item = Nothing /\ made[held[r].kind] < Len(IdsOf(held[r].kind))
    BY <1>8 DEF CreateScript
  <2>2. PICK kind \in ItemScopes : kind = held[r].kind
    BY <1>0, <2>1 DEF AccessInv, Pending, SavePending
  <2>3. PICK id : id = NextScriptId(kind)
    OBVIOUS
  <2>4. \/ Reply(r, "failed")
        \/ Goto(r, "file", [held[r] EXCEPT !.item = id, !.row.at = stamp'])
    BY <1>8, <2>2, <2>3 DEF CreateScript
  <2>5. OfItsKind(id, kind) /\ id # Nothing
    BY <2>1, <2>2, <2>3, NextIdKind, NextIdIsNew DEF AccessInv
  <2>6. CASE Goto(r, "file", [held[r] EXCEPT !.item = id, !.row.at = stamp'])
    <3>1. pc'[r] = "file" /\ held'[r] = [held[r] EXCEPT !.item = id, !.row.at = stamp']
      BY <1>0, <2>6, GotoMoves
    <3>2. "item" \in DOMAIN held[r]
      BY <1>0 DEF AccessInv, Pending, SavePending
    <3>3. Carried(held[r], held'[r]) /\ held'[r].item = id
      BY <3>1, <3>2 DEF Carried
    <3>4. pc'[r] \in ChangeLabels \cup {"reply"} /\ pc'[r] # "reply"
      BY <3>1 DEF ChangeLabels
    <3>5. /\ pc[r] = "row" /\ held[r].item = Nothing /\ held[r].kind \in ItemScopes /\ pc'[r] = "file"
          /\ held'[r].item # Nothing /\ OfItsKind(held'[r].item, held[r].kind)
      BY <2>1, <2>2, <2>5, <3>1, <3>3
    <3>. QED  BY <3>3, <3>4, <3>5 DEF SaveGoes, Goes
  <2>. QED  BY <1>1, <2>4, <2>6
<1>. QED  BY <1>3, <1>4, <1>5, <1>6, <1>7, <1>8

\* The first one holds what it was asked for.
LEMMA SaveBegins ==
  ASSUME PlaceInv, AccessInv, NEW r \in due, HandleSaveScript(r)
  PROVE  /\ r.op = "saveScript" \/ (r.op \in SaveOps /\ pc[r] = "post" /\ Posted(r) = held[r])
         /\ (r.op = "saveScript" /\ pc'[r] = "done") \/ SaveGoes(r, Posted(r))
         /\ r.op = "saveScript" /\ pc'[r] # "done" => Posted(r).item = Nothing \/ Exists(Posted(r).item)
<1>0. Progressing /\ r.op \in SaveOps /\ (r.op = "saveScript" \/ pc[r] = "post")
  BY DEF PlaceInv, HandleSaveScript, At, SaveOps
<1>1. r.op # "saveScript" => Posted(r) = held[r]
  BY DEF Posted
<1> DEFINE asked == Posted(r)
           new == asked.item = Nothing
<1>2. CASE \E outcome \in Outcomes : Reply(r, outcome) /\ outcome # "ok"
  BY <1>0, <1>1, <1>2, ReplyGoes
<1>3. CASE ~ \E outcome \in Outcomes : Reply(r, outcome) /\ outcome # "ok"
  <2>1. /\ new \/ MayWriteScript(r.actor, asked.item)
        /\ Goto(r, IF new THEN "row" ELSE "previous", [asked EXCEPT !.row.creator = IF new THEN r.actor ELSE @])
    BY <1>3 DEF HandleSaveScript, Outcomes
  <2>2. new \/ Exists(asked.item)
    BY <2>1 DEF MayWriteScript, CanAccessScript
  <2>3. SaveGoes(r, asked)
    <3> HIDE DEF new, asked
    <3>1. /\ pc'[r] \in {"row", "previous"}
          /\ held'[r] = [asked EXCEPT !.row.creator = IF new THEN r.actor ELSE @]
      BY <1>0, <2>1, GotoMoves
    <3>2. Carried(asked, held'[r]) /\ held'[r].item = asked.item
      BY <3>1 DEF Carried
    <3>. QED  BY <3>1, <3>2 DEF SaveGoes, ChangeLabels
  <2>. QED  BY <1>0, <1>1, <2>2, <2>3
<1>. QED  BY <1>2, <1>3

\* One request takes a step: it has to see to its own.
LEMMA StepKeepsKinds ==
  ASSUME KindsInv, NEW r \in due, Moves(r), DOMAIN dir' = DOMAIN dir, StateKinds(dir'.state), Kinds(r)'
  PROVE  KindsInv'
<1>1. \A q \in due \ {r} : pc'[q] = pc[q] /\ held'[q] = held[q]
  BY DEF Moves
<1>2. \A q \in due \ {r} : Kinds(q)'
  <2> SUFFICES ASSUME NEW q \in due \ {r} PROVE Kinds(q)'
    OBVIOUS
  <2>1. pc'[q] = pc[q] /\ held'[q] = held[q] /\ Kinds(q)
    BY <1>1 DEF KindsInv
  <2>. QED  BY <2>1 DEF Kinds, PullKinds, PushKinds, SaveKinds, Changing
<1>. QED  BY <1>2 DEF Moves, KindsInv

LEMMA NoKinds ==
  ASSUME NEW r, pc'[r] = "done" \/ r.op \notin SaveOps \cup {"pull"}
  PROVE  Kinds(r)'
  BY DEF Kinds, PullKinds, PushKinds, SaveKinds, Changing, ChangeLabels, SaveOps

\* A save keeps to the kind of what it saves.
LEMMA GoesKeepsKinds ==
  ASSUME NEW r, r.op \in SaveOps, NEW h, SaveGoes(r, h),
         h.item # Nothing => OfItsKind(h.item, h.kind),
         pc[r] \in {"file", "oldFile", "owner"} => h.item # Nothing,
         r.op = "push" =>
           /\ StateKinds(h.state) /\ (\A c \in h.todo : ChangeKinds(c))
           /\ "outcome" \in DOMAIN h /\ h.kind = h.change.path[1]
  PROVE  Kinds(r)'
<1>1. held'[r].item # Nothing => OfItsKind(held'[r].item, held'[r].kind)
  BY DEF SaveGoes, Carried
<1>2. SaveKinds(r)'
  <2>1. ASSUME r.op = "push", pc'[r] = "reply", held'[r].outcome = "ok" PROVE held'[r].item # Nothing
    <3>1. PICK outcome : /\ held'[r] = [h EXCEPT !.outcome = outcome]
                         /\ outcome = "ok" => pc[r] \in {"file", "oldFile", "owner"}
      BY <2>1 DEF SaveGoes
    <3>2. outcome = "ok" /\ held'[r].item = h.item
      BY <2>1, <3>1
    <3>. QED  BY <3>1, <3>2
  <2>. QED  BY <1>1, <2>1 DEF SaveKinds
<1>3. PushKinds(r)'
  BY DEF PushKinds, SaveGoes, Carried, ChangeLabels
<1>4. PullKinds(r)'
  BY DEF PullKinds, SaveOps
<1>. QED  BY <1>2, <1>3, <1>4 DEF Kinds

LEMMA SaveKeepsKinds ==
  ASSUME PlaceInv, AccessInv, KindsInv, NEW r \in due, ScriptsSteps(r), r.op \in SaveOps
  PROVE  Kinds(r)'
<1>0. Progressing
  BY DEF PlaceInv
<1>1. CASE HandleSaveScript(r)
  <2>1. CASE pc'[r] = "done"
    BY <2>1, NoKinds
  <2>2. CASE pc'[r] # "done"
    <3> DEFINE h == Posted(r)
    <3>1. SaveGoes(r, h)
      BY <1>1, <2>2, SaveBegins
    <3>2. CASE r.op = "saveScript"
      <4>1. h.kind = r.kind /\ h.item = r.item
        BY <3>2 DEF Posted
      <4>2. h.item # Nothing => h.item \in ScriptIds
        BY <1>1, <2>2, <3>2, SaveBegins DEF Exists
      <4>3. h.item # Nothing => OfItsKind(h.item, h.kind)
        BY <1>0, <3>2, <4>1, <4>2, ScriptAssumption DEF Progressing, OfItsKind
      <4>4. pc[r] \notin {"file", "oldFile", "owner"}
        BY <1>1, <3>2 DEF HandleSaveScript, At
      <4>. QED  BY <3>1, <3>2, <4>3, <4>4, GoesKeepsKinds
    <3>3. CASE r.op # "saveScript"
      <4>1. r.op \in SaveOps /\ pc[r] = "post" /\ Posted(r) = held[r]
        BY <1>1, <3>3, SaveBegins
      <4>2. Kinds(r)
        BY DEF KindsInv
      <4>. QED  BY <3>1, <4>1, <4>2, GoesKeepsKinds DEF Kinds, PushKinds, SaveKinds
    <3>. QED  BY <3>2, <3>3
  <2>. QED  BY <2>1, <2>2
<1>2. CASE ~HandleSaveScript(r)
  <2>1. \/ FindPrevious(r) \/ CreateScript(r) \/ MergeScript(r) \/ WriteScriptRow(r)
        \/ WriteScriptFile(r) \/ RemoveOldFile(r) \/ GrantResourceOwner(r)
    BY <1>2 DEF ScriptsSteps, HandleDeleteScript, FindDeleted, DeleteRowOfScript, RemoveScriptFile,
       HandlePublish, ReadForm, WriteToken, GetScript, GetPublishedForm, HandleWorkflowWebhook, At,
       SaveOps, PublishOps
  <2>2. Changing(r) /\ ((r.op = "saveScript" /\ pc'[r] = "done") \/ SaveGoes(r, held[r]))
    BY <2>1, SaveOn
  <2>3. CASE pc'[r] = "done"
    BY <2>3, NoKinds
  <2>4. CASE SaveGoes(r, held[r])
    <3>1. Kinds(r) /\ SavePending(r)
      BY DEF KindsInv, AccessInv, Pending
    <3>2. pc[r] \in ChangeLabels
      BY <2>2 DEF Changing
    <3>3. pc[r] \in {"file", "oldFile", "owner"} => held[r].item # Nothing
      BY <2>2, <3>1 DEF SavePending
    <3>4. held[r].item # Nothing => OfItsKind(held[r].item, held[r].kind)
      BY <2>2, <3>1 DEF Kinds, SaveKinds
    <3>. QED  BY <2>4, <3>1, <3>2, <3>3, <3>4, GoesKeepsKinds DEF Kinds, PushKinds, ChangeLabels
  <2>. QED  BY <2>2, <2>3, <2>4
<1>. QED  BY <1>1, <1>2

\* What pull lists is of the kinds of its paths.
LEMMA ListedKind ==
  ASSUME NEW ids, ids \subseteq ScriptIds, NEW rows, NEW p, NEW at,
         at = {i \in ids : ScriptPath(Kind(i), rows[i]) = p}, at # {}
  PROVE  OfItsKind(FirstOf(at), p[1])
<1>1. PICK i \in at : i = FirstOf(at)
  BY FirstIsOne
<1>2. i \in ScriptIds /\ p = ScriptPath(Kind(i), rows[i])
  OBVIOUS
<1>3. p[1] = Kind(i)
  BY <1>2 DEF ScriptPath
<1>. QED  BY <1>1, <1>2, <1>3 DEF OfItsKind

LEMMA OverKinds ==
  ASSUME NEW f, NEW g, StateKinds(f), StateKinds(g)
  PROVE  /\ StateKinds(Over(f, g))
         /\ \A paths : StateKinds(Without(f, paths))
         /\ \A p, e : OfItsKind(e.item, p[1]) => StateKinds(Put(f, p, e))
  BY DEF StateKinds, Over, Without, Restrict, Put

LEMMA ChangesKinds ==
  ASSUME KindsInv
  PROVE  \A actor : \A c \in LocalChanges(actor) : ChangeKinds(c)
<1> SUFFICES ASSUME NEW actor, NEW c \in LocalChanges(actor) PROVE ChangeKinds(c)
  OBVIOUS
<1>1. \E p : \/ /\ p \in DOMAIN dir.state
                /\ c = [path |-> p, status |-> "modified", kind |-> p[1], script |-> dir.files[p],
                        entry |-> dir.state[p]]
             \/ \E status \in {"new", "invalid"} : \E entry :
                  c = [path |-> p, status |-> status, kind |-> p[1], script |-> dir.files[p], entry |-> entry]
  BY DEF LocalChanges
<1>. QED  BY <1>1 DEF ChangeKinds, KindsInv, StateKinds

LEMMA PullKeepsKinds ==
  ASSUME PlaceInv, KindsInv, NEW r \in due, r.op = "pull", CliSyncSteps(r)
  PROVE  Kinds(r)' /\ DOMAIN dir' = DOMAIN dir /\ StateKinds(dir'.state)
<1>0. Progressing /\ Kinds(r)
  BY DEF PlaceInv, KindsInv
<1>1. ListRemote(r) \/ ListScripts(r) \/ WriteFiles(r) \/ RecordState(r)
  BY DEF CliSyncSteps, EditFile, RunStatus, StartPush, PushChange, PushReply, EndPush, RunWorkflowSet,
     WorkflowSetReply, At
<1>2. CASE ListRemote(r)
  <2> DEFINE databases == IF r.databases = Missing THEN VisibleNames(r.actor) ELSE r.databases
             listed == UNION {ScriptsOf(kind, d) : kind \in ItemScopes, d \in databases}
             rows == [i \in listed |-> scripts[i]]
  <2>1. Goto(r, "scripts", [databases |-> databases, rows |-> rows])
    BY <1>2 DEF ListRemote
  <2>2. listed \subseteq ScriptIds
    BY DEF ScriptsOf
  <2>3. pc'[r] = "scripts" /\ held'[r].rows = rows
    BY <1>0, <2>1, GotoMoves
  <2>. QED  BY <1>2, <2>1, <2>2, <2>3 DEF ListRemote, dirVars, Kinds, PullKinds, PushKinds, SaveKinds, SaveOps, KindsInv
<1>3. CASE ListScripts(r)
  <2> DEFINE rows == held[r].rows
             readable == {i \in DOMAIN rows : MayReadScript(r.actor, i)}
             full == [i \in readable |-> [rows[i] EXCEPT !.script = Served(Kind(i), rows[i])]]
             at(p) == {i \in readable : ScriptPath(Kind(i), rows[i]) = p}
             remote == [p \in {ScriptPath(Kind(i), rows[i]) : i \in readable} |->
                          Entry(FirstOf(at(p)), full[FirstOf(at(p))])]
  <2>1. Goto(r, "local", [databases |-> held[r].databases, remote |-> remote])
    BY <1>3 DEF ListScripts
  <2>2. readable \subseteq ScriptIds
    BY <1>0, <1>3 DEF ListScripts, At, Kinds, PullKinds
  <2>3. StateKinds(remote)
    <3> SUFFICES ASSUME NEW p \in DOMAIN remote PROVE OfItsKind(remote[p].item, p[1])
      BY DEF StateKinds
    <3>1. at(p) # {}
      OBVIOUS
    <3>2. remote[p].item = FirstOf(at(p))
      BY DEF Entry
    <3>3. PICK ids : ids = readable
      OBVIOUS
    <3>4. PICK all : all = at(p)
      OBVIOUS
    <3>5. ids \subseteq ScriptIds /\ all = {i \in ids : ScriptPath(Kind(i), rows[i]) = p} /\ all # {}
      BY <2>2, <3>1, <3>3, <3>4
    <3>6. OfItsKind(FirstOf(all), p[1])
      BY <3>5, ListedKind
    <3>. QED  BY <3>2, <3>4, <3>6
  <2> HIDE DEF remote
  <2>4. pc'[r] = "local" /\ held'[r].remote = remote
    BY <1>0, <2>1, GotoMoves
  <2>. QED  BY <1>3, <2>3, <2>4 DEF ListScripts, Kinds, PullKinds, PushKinds, SaveKinds, SaveOps, KindsInv
<1>4. CASE WriteFiles(r)
  <2>1. PICK paths, gone, files :
          /\ Goto(r, "record", [state |-> Over(Without(held[r].remote, paths), Without(dir.state, gone)),
                                failed |-> FALSE])
          /\ dir' = [dir EXCEPT !.files = files]
    BY <1>4 DEF WriteFiles
  <2>2. StateKinds(held[r].remote)
    BY <1>0, <1>4 DEF WriteFiles, At, Kinds, PullKinds
  <2>3. StateKinds(Over(Without(held[r].remote, paths), Without(dir.state, gone)))
    BY <2>2, OverKinds DEF KindsInv
  <2>4. pc'[r] = "record" /\ StateKinds(held'[r].state)
    BY <1>0, <2>1, <2>3, GotoMoves
  <2>. QED  BY <2>1, <2>4 DEF Kinds, PullKinds, PushKinds, SaveKinds, SaveOps, KindsInv
<1>5. CASE RecordState(r)
  <2>1. /\ pc'[r] = "done" /\ pc[r] = "record"
        /\ dir' = [dir EXCEPT !.state = held[r].state, !.known = TRUE]
    BY <1>0, <1>5, GotoMoves DEF RecordState
  <2>2. DOMAIN dir' = DOMAIN dir /\ dir'.state = held[r].state
    BY <2>1 DEF KindsInv
  <2>. QED  BY <1>0, <2>1, <2>2, NoKinds DEF Kinds, PullKinds
<1>. QED  BY <1>1, <1>2, <1>3, <1>4, <1>5

LEMMA PushChangeKeepsKinds ==
  ASSUME PlaceInv, KindsInv, NEW r \in due, PushChange(r)
  PROVE  Kinds(r)'
<1>0. r.op = "push" /\ pc[r] = "next" /\ held[r].todo # {} /\ Progressing
  BY DEF PushChange, At, PlaceInv
<1>1. StateKinds(held[r].state) /\ \A c \in held[r].todo : ChangeKinds(c)
  BY <1>0 DEF KindsInv, Kinds, PushKinds
<1>2. PICK change : change = (CHOOSE c \in held[r].todo : TRUE)
  OBVIOUS
<1>3. change \in held[r].todo /\ ChangeKinds(change)
  BY <1>0, <1>1, <1>2
<1>4. ASSUME NEW failed, Goto(r, "next", [state |-> held[r].state, todo |-> held[r].todo \ {change},
                                          failed |-> failed])
      PROVE  Kinds(r)'
  <2>1. /\ pc'[r] = "next" /\ held'[r].state = held[r].state
        /\ held'[r].todo = held[r].todo \ {change}
    BY <1>0, <1>4, GotoMoves
  <2>. QED  BY <1>0, <1>1, <2>1 DEF Kinds, PullKinds, PushKinds, SaveKinds, Changing, ChangeLabels
<1>5. ASSUME NEW failed, NEW row, NEW checked, NEW item,
             item = IF change.status = "modified" THEN change.entry.item ELSE Nothing,
             Goto(r, "post", [state |-> held[r].state, todo |-> held[r].todo \ {change},
                              failed |-> failed, kind |-> change.kind, item |-> item, row |-> row,
                              valid |-> TRUE, previous |-> NoScript, outcome |-> "none",
                              change |-> change, checked |-> checked])
      PROVE  Kinds(r)'
  <2>1. /\ pc'[r] = "post" /\ "outcome" \in DOMAIN held'[r] /\ held'[r].state = held[r].state
        /\ held'[r].todo = held[r].todo \ {change} /\ held'[r].kind = change.kind
        /\ held'[r].item = item /\ held'[r].change = change
    BY <1>0, <1>5, GotoMoves
  <2>2. item # Nothing => OfItsKind(item, change.kind)
    BY <1>3, <1>5 DEF ChangeKinds
  <2>3. change.kind = change.path[1]
    BY <1>3 DEF ChangeKinds
  <2>. QED  BY <1>0, <1>1, <2>1, <2>2, <2>3 DEF Kinds, PullKinds, PushKinds, SaveKinds, Changing, ChangeLabels
<1>6. \/ \E failed : Goto(r, "next", [state |-> held[r].state, todo |-> held[r].todo \ {change},
                                      failed |-> failed])
      \/ \E failed, row, checked, item :
           /\ item = IF change.status = "modified" THEN change.entry.item ELSE Nothing
           /\ Goto(r, "post", [state |-> held[r].state, todo |-> held[r].todo \ {change},
                               failed |-> failed, kind |-> change.kind, item |-> item, row |-> row,
                               valid |-> TRUE, previous |-> NoScript, outcome |-> "none",
                               change |-> change, checked |-> checked])
  <2>1. CASE CheckChange(r.actor, change, r.force) /\ ~r.dry
    BY <1>2, <2>1, Zenon DEF PushChange
  <2>2. CASE CheckChange(r.actor, change, r.force) /\ r.dry
    BY <1>2, <2>2, Zenon DEF PushChange
  <2>3. CASE ~CheckChange(r.actor, change, r.force)
    <3>1. \A a, b, c, d : [[state |-> a, todo |-> b, failed |-> c] EXCEPT !.failed = d] =
                          [state |-> a, todo |-> b, failed |-> d]
      OBVIOUS
    <3>2. PICK rest : /\ Goto(r, "next", rest)
                      /\ rest = [[state |-> held[r].state, todo |-> held[r].todo \ {change},
                                  failed |-> held[r].failed] EXCEPT !.failed = TRUE]
      BY <1>2, <2>3, Zenon DEF PushChange
    <3>3. rest = [state |-> held[r].state, todo |-> held[r].todo \ {change}, failed |-> TRUE]
      BY <3>1, <3>2, Zenon
    <3>. QED  BY <3>2, <3>3
  <2>. QED  BY <2>1, <2>2, <2>3
<1>. QED  BY <1>4, <1>5, <1>6

LEMMA PushKeepsKinds ==
  ASSUME PlaceInv, KindsInv, NEW r \in due, r.op = "push", CliSyncSteps(r)
  PROVE  Kinds(r)' /\ DOMAIN dir' = DOMAIN dir /\ StateKinds(dir'.state)
<1>0. Progressing /\ Kinds(r)
  BY DEF PlaceInv, KindsInv
<1>1. StartPush(r) \/ PushChange(r) \/ PushReply(r) \/ EndPush(r) \/ RecordState(r)
  BY DEF CliSyncSteps, EditFile, ListRemote, ListScripts, WriteFiles, RunStatus, RunWorkflowSet,
     WorkflowSetReply, At
<1>2. CASE StartPush(r)
  <2>1. dir' = dir
    BY <1>2 DEF StartPush, dirVars
  <2>2. CASE pc'[r] = "done"
    BY <2>1, <2>2, NoKinds DEF KindsInv
  <2>3. CASE pc'[r] # "done"
    <3>1. PICK changes, failed :
            /\ changes \subseteq LocalChanges(r.actor)
            /\ Goto(r, "next", [state |-> dir.state, todo |-> changes, failed |-> failed])
      BY <1>0, <1>2, <2>3, GotoMoves DEF StartPush
    <3>2. pc'[r] = "next" /\ held'[r].state = dir.state /\ held'[r].todo = changes
      BY <1>0, <3>1, GotoMoves
    <3>3. \A c \in changes : ChangeKinds(c)
      BY <3>1, ChangesKinds
    <3>. QED  BY <2>1, <3>2, <3>3 DEF KindsInv, Kinds, PullKinds, PushKinds, SaveKinds, Changing, ChangeLabels
  <2>. QED  BY <2>2, <2>3
<1>3. CASE PushChange(r)
  BY <1>3, PushChangeKeepsKinds DEF PushChange, dirVars, KindsInv
<1>4. CASE PushReply(r)
  <2>0. pc[r] = "reply" /\ dir' = dir
    BY <1>4 DEF PushReply, At
  <2>1. /\ StateKinds(held[r].state) /\ \A c \in held[r].todo : ChangeKinds(c)
        /\ held[r].kind = held[r].change.path[1]
        /\ held[r].outcome = "ok" => OfItsKind(held[r].item, held[r].kind)
    BY <1>0, <2>0 DEF Kinds, PushKinds, SaveKinds, SaveOps
  <2>2. PICK path, entry : path = held[r].change.path /\ entry = Entry(held[r].item, held[r].row)
    OBVIOUS
  <2>3. PICK state, failed :
          /\ Goto(r, "next", [state |-> state, todo |-> held[r].todo, failed |-> failed])
          /\ state = IF held[r].outcome = "ok" THEN Put(held[r].state, path, entry) ELSE held[r].state
    BY <1>4, <2>2 DEF PushReply
  <2>4. StateKinds(state)
    <3>1. CASE held[r].outcome = "ok"
      <4>1. OfItsKind(entry.item, path[1])
        BY <2>1, <2>2, <3>1 DEF Entry
      <4>. QED  BY <2>1, <2>3, <3>1, <4>1, OverKinds
    <3>2. CASE held[r].outcome # "ok"
      BY <2>1, <2>3, <3>2
    <3>. QED  BY <3>1, <3>2
  <2>5. pc'[r] = "next" /\ held'[r].state = state /\ held'[r].todo = held[r].todo
    BY <1>0, <2>3, GotoMoves
  <2>. QED  BY <2>0, <2>1, <2>4, <2>5 DEF KindsInv, Kinds, PullKinds, PushKinds, SaveKinds, Changing, ChangeLabels
<1>5. CASE EndPush(r)
  <2>0. pc[r] = "next" /\ dir' = dir
    BY <1>5 DEF EndPush, At, dirVars
  <2>1. pc'[r] = "done" \/ (pc'[r] = "record" /\ held'[r].state = held[r].state)
    BY <1>0, <1>5, GotoMoves DEF EndPush
  <2>2. Kinds(r)'
    BY <1>0, <2>0, <2>1, NoKinds DEF Kinds, PullKinds, PushKinds, SaveKinds, Changing, ChangeLabels
  <2>. QED  BY <2>0, <2>2 DEF KindsInv
<1>6. CASE RecordState(r)
  <2>1. /\ pc'[r] = "done" /\ pc[r] = "record"
        /\ dir' = [dir EXCEPT !.state = held[r].state, !.known = TRUE]
    BY <1>0, <1>6, GotoMoves DEF RecordState
  <2>2. DOMAIN dir' = DOMAIN dir /\ dir'.state = held[r].state
    BY <2>1 DEF KindsInv
  <2>. QED  BY <1>0, <2>1, <2>2, NoKinds DEF Kinds, PushKinds
<1>. QED  BY <1>1, <1>2, <1>3, <1>4, <1>5, <1>6

LEMMA CliSyncKeepsKinds ==
  ASSUME PlaceInv, KindsInv, NEW r \in due, CliSyncSteps(r), Moves(r)
  PROVE  KindsInv'
<1>0. Progressing
  BY DEF PlaceInv
<1>1. CASE r.op \in {"pull", "push"}
  BY <1>1, PullKeepsKinds, PushKeepsKinds, StepKeepsKinds
<1>2. CASE r.op \notin {"pull", "push"}
  <2>1. EditFile(r) \/ RunStatus(r) \/ RunWorkflowSet(r) \/ WorkflowSetReply(r)
    <3>1. ~(ListRemote(r) \/ ListScripts(r) \/ WriteFiles(r) \/ RecordState(r))
      BY <1>2 DEF ListRemote, ListScripts, WriteFiles, RecordState, At
    <3>2. ~(StartPush(r) \/ PushChange(r) \/ PushReply(r) \/ EndPush(r))
      BY <1>2 DEF StartPush, PushChange, PushReply, EndPush, At
    <3>. QED  BY <3>1, <3>2 DEF CliSyncSteps
  <2>2. CASE EditFile(r)
    <3>1. \E files : dir' = [dir EXCEPT !.files = files]
      BY <2>2 DEF EditFile
    <3>2. DOMAIN dir' = DOMAIN dir /\ dir'.state = dir.state /\ pc'[r] = "done"
      BY <1>0, <2>2, <3>1, GotoMoves DEF EditFile
    <3>. QED  BY <3>2, NoKinds, StepKeepsKinds DEF KindsInv
  <2>3. CASE RunStatus(r) \/ WorkflowSetReply(r)
    <3>1. dir' = dir /\ pc'[r] = "done"
      BY <1>0, <2>3, GotoMoves DEF RunStatus, WorkflowSetReply, dirVars
    <3>. QED  BY <3>1, NoKinds, StepKeepsKinds DEF KindsInv
  <2>4. CASE RunWorkflowSet(r)
    <3> DEFINE found == Find(r.actor, "workflow", r.db, r.name)
    <3>0. r.op = "workflowSet" /\ dir' = dir
      BY <2>4 DEF RunWorkflowSet, At, dirVars
    <3>1. CASE found = {}
      BY <1>0, <2>4, <3>0, <3>1, GotoMoves, NoKinds, StepKeepsKinds DEF RunWorkflowSet, KindsInv
    <3>2. CASE found # {}
      <4>1. \A i \in found : OfItsKind(i, "workflow")
        BY DEF Find, FilterReadable, ScriptsOf, OfItsKind
      <4>2. PICK i \in found : i = FirstOf(found)
        BY <3>2, <4>1, FirstIsOne DEF OfItsKind
      <4>3. PICK enabled, script :
              Goto(r, "post", [kind |-> "workflow", item |-> i,
                               row |-> WithoutSecrets([scripts[i] EXCEPT !.enabled = enabled, !.script = script]),
                               valid |-> TRUE, previous |-> NoScript, outcome |-> "none"])
        BY <2>4, <3>2, <4>2 DEF RunWorkflowSet
      <4>4. pc'[r] = "post" /\ held'[r].kind = "workflow" /\ held'[r].item = i
        BY <1>0, <4>3, GotoMoves
      <4>5. Kinds(r)'
        BY <3>0, <4>1, <4>4 DEF Kinds, PullKinds, PushKinds, SaveKinds
      <4>. QED  BY <3>0, <4>5, StepKeepsKinds DEF KindsInv
    <3>. QED  BY <3>1, <3>2
  <2>. QED  BY <2>1, <2>2, <2>3, <2>4
<1>. QED  BY <1>1, <1>2

\* The directory stays as it is for all but commands.
LEMMA DirStays == [Next]_vars => UNCHANGED dirVars \/ \E r \in due : CliSyncSteps(r)
  BY DEF Next, vars, Fail, Restart, Idle, CliSyncNext, CliSyncSteps

\* Faults aside, what is saved stays of its kind.
LEMMA NextKinds ==
  ASSUME PlaceInv, AccessInv, KindsInv, [Next]_vars, faults \in Nat, faults' = faults
  PROVE  KindsInv'
<1>0. Progressing /\ Placed
  BY DEF PlaceInv
<1>1. ASSUME NEW r \in due, CliSyncSteps(r) PROVE KindsInv'
  BY <1>0, <1>1, CliSyncMoves, CliSyncKeepsKinds DEF Steps
<1>2. CASE UNCHANGED dirVars
  <2>0. DOMAIN dir' = DOMAIN dir /\ StateKinds(dir'.state) /\ KindsInv
    BY <1>2 DEF dirVars, KindsInv
  <2>1. ASSUME NEW r \in due, NEW ops, Steps(r, ops), ops \cap (SaveOps \cup {"pull"}) = {}
        PROVE  KindsInv'
    BY <2>0, <2>1, NoKinds, StepKeepsKinds DEF Steps
  <2>2. ASSUME NEW r \in due, Steps(r, ScriptsOps), ScriptsSteps(r) PROVE KindsInv'
    <3>1. Kinds(r)'
      BY <2>2, SaveKeepsKinds, NoKinds DEF Steps, ScriptsOps, ChangeOps
    <3>. QED  BY <2>0, <2>2, <3>1, StepKeepsKinds DEF Steps
  <2>3. UNCHANGED requestVars => KindsInv'
    BY <1>2 DEF requestVars, dirVars, KindsInv, StateKinds, Kinds, PullKinds, PushKinds, SaveKinds, Changing
  <2>4. ~Restart /\ \A r \in due : ~Fail(r)
    BY DEF Restart, Fail, StatementFails
  <2>5. /\ SignInOps \cap (SaveOps \cup {"pull"}) = {}
        /\ AccessOps \cap (SaveOps \cup {"pull"}) = {}
        /\ CatalogOps \cap (SaveOps \cup {"pull"}) = {}
    BY DEF SignInOps, AccessOps, CatalogOps, SaveOps
  <2>6. (Tick \/ (\E r \in due, b \in Browsers : AuthorizePage(r, b)) \/ (\E page \in shown : Authorize(page)))
        => UNCHANGED requestVars
    BY DEF Tick, AuthorizePage, Authorize, requestVars
  <2>7. UNCHANGED vars => UNCHANGED requestVars
    BY DEF vars
  <2>. QED  BY <1>0, <1>1, <2>1, <2>2, <2>3, <2>4, <2>5, <2>6, <2>7, WhoseStep
<1>. QED  BY <1>1, <1>2, DirStays

-----------------------------------------------------------------------------
(* Files are those of their rows, or are to be written or removed.         *)

\* The path is that of a row.
AtPath(i, row, p) == row.name \notin BlankNames /\ ScriptPath(Kind(i), row) = p

FileOf(i, p) == Exists(i) /\ AtPath(i, scripts[i], p) /\ codeFiles[p] = scripts[i].script

\* A handler has yet to write or to remove a file.
Owes(r, p) ==
  \/ r.op \in SaveOps /\ pc[r] = "file" /\ AtPath(held[r].item, held[r].row, p)
  \/ r.op \in SaveOps /\ pc[r] \in {"file", "oldFile"} /\ Renamed(r) /\ AtPath(held[r].item, held[r].previous, p)
  \/ r.op = "deleteScript" /\ pc[r] = "remove" /\ AtPath(held[r].item, held[r].row, p)

SameFile(i, row) ==
  Exists(i) /\ scripts[i].db = row.db /\ scripts[i].name = row.name /\ scripts[i].script = row.script

\* What a handler knows of the row that it is to change or has changed.
Knows(r) ==
  /\ (r.op \in SaveOps /\ pc[r] \in {"row", "write"}) =>
       Exists(held[r].item) /\ scripts[held[r].item] = held[r].previous
  /\ (r.op \in SaveOps /\ pc[r] = "file") => SameFile(held[r].item, held[r].row)
  /\ (r.op = "deleteScript" /\ pc[r] = "delete" /\ held[r].row # NoScript) =>
       scripts[held[r].item] = held[r].row
  /\ (r.op \in PublishOps /\ pc[r] = "token" /\ held[r].row # NoScript) =>
       SameFile(held[r].item, held[r].row)

Aware(r) ==
  (Changing(r) /\ held[r].item # Nothing /\ held[r].item \notin contended) => Knows(r)

\* A file that was written for a workflow or form.
Tracked(i, p) ==
  \/ i \in contended \cup misnamed
  \/ FileOf(i, p)
  \/ \E r \in due : Changing(r) /\ held[r].item = i /\ Owes(r, p)

FilesInv ==
  /\ \A p \in DOMAIN codeFiles :
       p \in DOMAIN writer /\ \E i : i = writer[p] /\ HandedOut(i) /\ Tracked(i, p)
  /\ \A r \in due : Aware(r)

\* A step of a request changes rows that it is at, and new ones.
RowsStay(r) ==
  \A i : HandedOut(i) => scripts'[i] = scripts[i] \/ (Changing(r) /\ held[r].item = i)

Grows ==
  /\ contended \subseteq contended' /\ misnamed \subseteq misnamed'
  /\ \A i : HandedOut(i) => HandedOut(i)'

\* A file that the step leaves there.
Left(p) == p \in DOMAIN codeFiles /\ codeFiles'[p] = codeFiles[p] /\ writer'[p] = writer[p]

\* What a request has to see to, of a file that is to be as its row or that it owes.
Settles(r) ==
  \A p \in DOMAIN codeFiles' : \A i :
    (/\ Left(p) /\ i = writer[p] /\ i \notin contended' \cup misnamed'
     /\ Changing(r) /\ held[r].item = i /\ (FileOf(i, p) \/ Owes(r, p)))
    => FileOf(i, p)' \/ (Changing(r)' /\ held'[r].item = i /\ Owes(r, p)')

LEMMA ChangedIds ==
  ASSUME AccessInv, NEW q \in due, Changing(q), held[q].item # Nothing
  PROVE  HandedOut(held[q].item)
<1>1. SavePending(q) /\ ItemPending(q) /\ pc[q] # "post"
  BY DEF AccessInv, Pending, Changing, ChangeLabels
<1>. QED  BY <1>1 DEF SavePending, ItemPending, Changing, ChangeOps, PublishOps

LEMMA OthersAware ==
  ASSUME AccessInv, NEW r \in due, Moves(r), RowsStay(r), Grows, NEW q \in due \ {r}, Aware(q)
  PROVE  Aware(q)'
<1>0. pc'[q] = pc[q] /\ held'[q] = held[q]
  BY DEF Moves
<1>1. PICK i, row, previous : i = held[q].item /\ row = held[q].row /\ previous = held[q].previous
  OBVIOUS
<1> SUFFICES ASSUME Changing(q), i # Nothing, i \notin contended' PROVE Knows(q)'
  BY <1>0, <1>1 DEF Aware, Changing
<1>2. Knows(q) /\ i \notin contended
  BY <1>1 DEF Aware, Grows
<1>3. HandedOut(i) /\ ~(Changing(r) /\ held[r].item = i)
  BY <1>1, <1>2, ChangedIds DEF AccessInv, Contending
<1>4. scripts'[i] = scripts[i]
  BY <1>3 DEF RowsStay
<1>5. (Exists(i)' <=> Exists(i)) /\ (SameFile(i, row)' <=> SameFile(i, row))
  BY <1>4 DEF Exists, SameFile
<1>. QED  BY <1>0, <1>1, <1>2, <1>4, <1>5 DEF Knows

\* What a step of one request has to see to.
LEMMA StepKeepsFiles ==
  ASSUME AccessInv, FilesInv, NEW r \in due, Moves(r), RowsStay(r), Grows, Settles(r), Aware(r)',
         \A p \in DOMAIN codeFiles' :
           /\ p \in DOMAIN writer'
           /\ Left(p) \/ \E i : i = writer'[p] /\ HandedOut(i)' /\ Tracked(i, p)'
  PROVE  FilesInv'
<1>0. due' = due
  BY DEF Moves
<1>1. ASSUME NEW q \in due PROVE Aware(q)'
  BY OthersAware DEF FilesInv
<1>2. ASSUME NEW p \in DOMAIN codeFiles', Left(p)
      PROVE  \E i : i = writer'[p] /\ HandedOut(i)' /\ Tracked(i, p)'
  <2>1. PICK i : i = writer[p] /\ HandedOut(i) /\ Tracked(i, p)
    BY <1>2 DEF FilesInv, Left
  <2>2. i = writer'[p] /\ HandedOut(i)'
    BY <1>2, <2>1 DEF Left, Grows
  <2> SUFFICES ASSUME i \notin contended' \cup misnamed' PROVE Tracked(i, p)'
    BY <2>2 DEF Tracked
  <2>3. i \notin contended \cup misnamed
    BY DEF Grows
  <2>4. ASSUME Changing(r), held[r].item = i, FileOf(i, p) \/ Owes(r, p) PROVE Tracked(i, p)'
    <3>1. FileOf(i, p)' \/ (Changing(r)' /\ held'[r].item = i /\ Owes(r, p)')
      BY <1>2, <2>1, <2>4 DEF Settles
    <3>. QED  BY <1>0, <3>1 DEF Tracked
  <2>5. CASE FileOf(i, p) /\ scripts'[i] = scripts[i]
    <3>1. FileOf(i, p)'
      BY <1>2, <2>5 DEF FileOf, Exists, AtPath, Left
    <3>. QED  BY <3>1 DEF Tracked
  <2>6. CASE FileOf(i, p) /\ scripts'[i] # scripts[i]
    BY <2>1, <2>4, <2>6 DEF RowsStay
  <2>7. ASSUME NEW q \in due \ {r}, Changing(q), held[q].item = i, Owes(q, p) PROVE Tracked(i, p)'
    <3>1. pc'[q] = pc[q] /\ held'[q] = held[q]
      BY DEF Moves
    <3>2. Changing(q)' /\ held'[q].item = i /\ Owes(q, p)'
      BY <2>7, <3>1 DEF Changing, Owes, Renamed, AtPath
    <3>. QED  BY <1>0, <3>2 DEF Tracked
  <2>. QED  BY <2>1, <2>3, <2>4, <2>5, <2>6, <2>7 DEF Tracked
<1>. QED  BY <1>0, <1>1, <1>2 DEF FilesInv

\* Files and the rows of workflows and forms stay as they are.
LEMMA QuietKeepsFiles ==
  ASSUME AccessInv, FilesInv, NEW r \in due, Moves(r), Grows, UNCHANGED <<scripts, fileVars>>,
         Changing(r) => pc[r] \notin {"file", "oldFile", "remove"}, Aware(r)'
  PROVE  FilesInv'
<1>1. RowsStay(r)
  BY DEF RowsStay
<1>2. \A p \in DOMAIN codeFiles' : p \in DOMAIN writer' /\ Left(p)
  BY DEF fileVars, Left, FilesInv
<1>3. Settles(r)
  <2>1. \A p : Changing(r) => ~Owes(r, p)
    BY DEF Owes
  <2>2. \A i, p : FileOf(i, p) => FileOf(i, p)'
    BY DEF fileVars, FileOf, Exists, AtPath
  <2>. QED  BY <2>1, <2>2 DEF Settles
<1>. QED  BY <1>1, <1>2, <1>3, StepKeepsFiles

LEMMA NotAware ==
  ASSUME NEW r, pc'[r] \in {"done", "reply"} \/ r.op \notin ChangeOps
  PROVE  Aware(r)'
  BY DEF Aware, Changing, ChangeLabels

LEMMA MadeGrows ==
  ASSUME \A kind \in ItemScopes : made'[kind] = made[kind],
         contended \subseteq contended', misnamed \subseteq misnamed'
  PROVE  Grows
  BY DEF Grows, HandedOut

\* A row has columns.
LEMMA RowIsThere == \A row : DOMAIN row = Columns => row # NoScript
  BY DEF Columns, NoScript

\* A row is written with the time.
LEMMA RowIsWritten ==
  ASSUME AccessInv, NEW i \in ScriptIds, NEW row, DOMAIN row = Columns, WriteRow(i, row)
  PROVE  /\ \A j \in ScriptIds : j # i => scripts'[j] = scripts[j]
         /\ DOMAIN scripts'[i] = Columns /\ Exists(i)'
         /\ scripts'[i].db = row.db /\ scripts'[i].name = row.name /\ scripts'[i].script = row.script
         /\ scripts'[i].at = stamp' /\ coincided \subseteq coincided'
         /\ stamp' = stamp + 1 \/ (stamp' = stamp /\ i \in coincided')
<1>1. DOMAIN scripts = ScriptIds
  BY DEF AccessInv, IdsInv
<1>2. PICK w : w = [row EXCEPT !.at = stamp']
  OBVIOUS
<1>3. DOMAIN w = Columns /\ w.db = row.db /\ w.name = row.name /\ w.script = row.script /\ w.at = stamp'
  BY <1>2 DEF Columns
<1>4. /\ scripts' = [scripts EXCEPT ![i] = w] /\ coincided \subseteq coincided'
      /\ stamp' = stamp + 1 \/ (stamp' = stamp /\ i \in coincided')
  BY <1>2 DEF WriteRow
<1>5. scripts'[i] = w /\ \A j \in ScriptIds : j # i => scripts'[j] = scripts[j]
  BY <1>1, <1>4
<1>. QED  BY <1>3, <1>4, <1>5, RowIsThere DEF Exists

\* Steps of a save that change no more than what is held.
LEMMA SaveBeginsFiles ==
  ASSUME PlaceInv, AccessInv, FilesInv, NEW r \in due, Moves(r), HandleSaveScript(r)
  PROVE  FilesInv'
<1>0. Progressing /\ UNCHANGED <<scripts, made, fileVars>> /\ pc[r] \in {"start", "post"}
  BY DEF PlaceInv, HandleSaveScript, At, storeVars, scriptVars
<1>1. contended \subseteq contended'
  BY DEF HandleSaveScript, Contend
<1>2. Grows
  BY <1>0, <1>1, MadeGrows DEF fileVars
<1>3. Aware(r)'
  <2>1. CASE pc'[r] \in {"done", "reply"}
    BY <2>1, NotAware
  <2>2. CASE pc'[r] \notin {"done", "reply"}
    <3> DEFINE asked == Posted(r)
               new == asked.item = Nothing
    <3>1. Goto(r, IF new THEN "row" ELSE "previous", [asked EXCEPT !.row.creator = IF new THEN r.actor ELSE @])
      BY <1>0, <2>2, GotoMoves DEF HandleSaveScript, Reply
    <3> HIDE DEF asked, new
    <3>2. /\ pc'[r] = IF new THEN "row" ELSE "previous"
          /\ held'[r] = [asked EXCEPT !.row.creator = IF new THEN r.actor ELSE @]
      BY <1>0, <3>1, GotoMoves
    <3>3. held'[r].item = asked.item
      BY <3>2
    <3>4. new => held'[r].item = Nothing
      BY <3>3 DEF new
    <3>5. r.op \in SaveOps
      BY DEF HandleSaveScript, At, SaveOps
    <3>. QED  BY <3>2, <3>4, <3>5 DEF Aware, Knows, SaveOps, PublishOps
  <2>. QED  BY <2>1, <2>2
<1>. QED  BY <1>0, <1>2, <1>3, QuietKeepsFiles

LEMMA ReplyKeepsFiles ==
  ASSUME PlaceInv, AccessInv, FilesInv, NEW r \in due, Moves(r), UNCHANGED <<scripts, made, fileVars, contended>>,
         Changing(r) => pc[r] \notin {"file", "oldFile", "remove"},
         (\E outcome : Reply(r, outcome)) \/ pc'[r] \in {"done", "reply"}
  PROVE  FilesInv'
<1>1. pc'[r] \in {"done", "reply"}
  BY GotoMoves DEF PlaceInv, Reply
<1>2. Grows
  BY MadeGrows DEF fileVars
<1>. QED  BY <1>1, <1>2, NotAware, QuietKeepsFiles

LEMMA FindPreviousKeepsFiles ==
  ASSUME PlaceInv, AccessInv, FilesInv, NEW r \in due, Moves(r), FindPrevious(r)
  PROVE  FilesInv'
<1>0. /\ Progressing /\ UNCHANGED <<scripts, made, fileVars, contended>> /\ r.op \in SaveOps
      /\ pc[r] = "previous" /\ Changing(r)
  BY DEF PlaceInv, FindPrevious, storeVars, scriptVars, codeVars, Changing, ChangeOps, ChangeLabels
<1>1. CASE \E outcome : Reply(r, outcome)
  BY <1>0, <1>1, ReplyKeepsFiles
<1>2. CASE ~ \E outcome : Reply(r, outcome)
  <2>1. PICK i : i = held[r].item
    OBVIOUS
  <2>2. Exists(i) /\ pc'[r] = "row" /\ held'[r] = [held[r] EXCEPT !.previous = scripts[i]]
    BY <1>0, <1>2, <2>1, GotoMoves DEF FindPrevious
  <2>3. "previous" \in DOMAIN held[r]
    BY <1>0 DEF AccessInv, Pending, SavePending
  <2>4. held'[r].item = i /\ held'[r].previous = scripts[i]
    BY <2>1, <2>2, <2>3
  <2>5. Aware(r)'
    BY <1>0, <2>2, <2>4 DEF Aware, Knows, Exists, SaveOps, PublishOps
  <2>6. Grows
    BY <1>0, MadeGrows DEF fileVars
  <2>. QED  BY <1>0, <2>5, <2>6, QuietKeepsFiles
<1>. QED  BY <1>1, <1>2

LEMMA MergeScriptKeepsFiles ==
  ASSUME PlaceInv, AccessInv, FilesInv, NEW r \in due, Moves(r), MergeScript(r)
  PROVE  FilesInv'
<1>0. /\ Progressing /\ UNCHANGED <<scripts, made, fileVars, contended>> /\ r.op \in SaveOps
      /\ pc[r] = "row" /\ held[r].item # Nothing /\ Changing(r)
  BY DEF PlaceInv, MergeScript, storeVars, scriptVars, codeVars, Changing, ChangeOps, ChangeLabels
<1>1. CASE \E outcome : Reply(r, outcome)
  BY <1>0, <1>1, ReplyKeepsFiles
<1>2. CASE ~ \E outcome : Reply(r, outcome)
  <2>1. PICK row : pc'[r] = "write" /\ held'[r] = [held[r] EXCEPT !.row = row]
    BY <1>0, <1>2, GotoMoves DEF MergeScript
  <2>2. PICK i, previous : i = held[r].item /\ previous = held[r].previous
    OBVIOUS
  <2>3. held'[r].item = i /\ held'[r].previous = previous
    BY <2>1, <2>2
  <2>4. i \notin contended => Exists(i) /\ scripts[i] = previous
    BY <1>0, <2>2 DEF FilesInv, Aware, Knows
  <2>5. Aware(r)'
    BY <1>0, <2>1, <2>3, <2>4 DEF Aware, Knows, Exists, SaveOps, PublishOps
  <2>6. Grows
    BY <1>0, MadeGrows DEF fileVars
  <2>. QED  BY <1>0, <2>5, <2>6, QuietKeepsFiles
<1>. QED  BY <1>1, <1>2

\* Steps of a save that write rows and files.
LEMMA CreateScriptKeepsFiles ==
  ASSUME PlaceInv, AccessInv, FilesInv, NEW r \in due, Moves(r), CreateScript(r)
  PROVE  FilesInv'
<1>0. /\ Progressing /\ UNCHANGED <<fileVars, contended>> /\ r.op \in SaveOps
      /\ pc[r] = "row" /\ held[r].item = Nothing /\ Changing(r)
      /\ made[held[r].kind] < Len(IdsOf(held[r].kind))
  BY DEF PlaceInv, CreateScript, codeVars, Changing, ChangeOps, ChangeLabels
<1>1. CASE \E outcome : Reply(r, outcome) /\ UNCHANGED scriptVars
  BY <1>0, <1>1, ReplyKeepsFiles DEF scriptVars
<1>2. CASE ~ \E outcome : Reply(r, outcome) /\ UNCHANGED scriptVars
  <2>1. {"item", "row"} \subseteq DOMAIN held[r] /\ DOMAIN held[r].row = Columns
    BY <1>0 DEF AccessInv, Pending, SavePending
  <2>2. PICK kind \in ItemScopes : kind = held[r].kind
    BY <1>0 DEF AccessInv, Pending, SavePending
  <2>3. PICK id, row : id = NextScriptId(kind) /\ row = held[r].row
    OBVIOUS
  <2>4. /\ IF kind = "workflow" THEN CreateWorkflow(row) ELSE Create(kind, row)
        /\ Goto(r, "file", [held[r] EXCEPT !.item = id, !.row.at = stamp'])
    BY <1>0, <1>2, <2>2, <2>3 DEF CreateScript
  <2>5. PICK w : /\ DOMAIN w = Columns /\ WriteRow(id, w) /\ made' = [made EXCEPT ![kind] = @ + 1]
                 /\ w.db = row.db /\ w.name = row.name /\ w.script = row.script
    <3>1. \E w : /\ Create(kind, w) /\ DOMAIN w = Columns
                 /\ w.db = row.db /\ w.name = row.name /\ w.script = row.script
      <4>1. CASE kind = "workflow"
        <5>1. PICK w : w = [row EXCEPT !.enabled = TRUE]
          OBVIOUS
        <5>2. DOMAIN w = Columns /\ w.db = row.db /\ w.name = row.name /\ w.script = row.script
          BY <2>1, <2>3, <5>1 DEF Columns
        <5>. QED  BY <2>4, <4>1, <5>1, <5>2 DEF CreateWorkflow
      <4>2. CASE kind # "workflow"
        BY <2>1, <2>3, <2>4, <4>2
      <4>. QED  BY <4>1, <4>2
    <3>. QED  BY <2>3, <3>1 DEF Create
  <2>6. id \in ScriptIds /\ ~HandedOut(id) /\ \A i : HandedOut(i) => HandedOut(i)'
    BY <1>0, <2>2, <2>3, <2>5, NextIdIsNew DEF AccessInv
  <2>7. /\ \A j \in ScriptIds : j # id => scripts'[j] = scripts[j]
        /\ SameFile(id, row)'
    BY <2>5, <2>6, RowIsWritten DEF SameFile
  <2>8. RowsStay(r)
    BY <2>6, <2>7, HandedOutIds DEF RowsStay
  <2>9. Grows
    BY <1>0, <2>6 DEF Grows, fileVars
  <2>10. Settles(r)
    <3>1. \A p \in DOMAIN codeFiles : writer[p] # Nothing
      BY HandedOutIds DEF FilesInv
    <3>. QED  BY <1>0, <3>1 DEF Settles, Left
  <2>11. pc'[r] = "file" /\ held'[r] = [held[r] EXCEPT !.item = id, !.row.at = stamp']
    BY <1>0, <2>4, GotoMoves
  <2>12. PICK v : v = held'[r].row
    OBVIOUS
  <2>13. held'[r].item = id /\ v.db = row.db /\ v.name = row.name /\ v.script = row.script
    BY <2>1, <2>3, <2>11, <2>12 DEF Columns
  <2>14. SameFile(id, v)'
    BY <2>7, <2>13 DEF SameFile
  <2>15. Aware(r)'
    BY <1>0, <2>11, <2>12, <2>13, <2>14 DEF Aware, Knows, SaveOps, PublishOps
  <2>16. \A p \in DOMAIN codeFiles' : p \in DOMAIN writer' /\ Left(p)
    BY <1>0 DEF fileVars, Left, FilesInv
  <2>. QED  BY <2>8, <2>9, <2>10, <2>15, <2>16, StepKeepsFiles
<1>. QED  BY <1>1, <1>2

\* The file of the row as it was is to be written again, or to be removed.
LEMMA WriteScriptRowKeepsFiles ==
  ASSUME PlaceInv, AccessInv, FilesInv, NEW r \in due, Moves(r), WriteScriptRow(r)
  PROVE  FilesInv'
<1>0. /\ Progressing /\ UNCHANGED <<fileVars, contended>> /\ r.op \in SaveOps
      /\ pc[r] = "write" /\ Changing(r)
  BY DEF PlaceInv, WriteScriptRow, codeVars, Changing, ChangeOps, ChangeLabels
<1>1. CASE \E outcome : Reply(r, outcome) /\ UNCHANGED scriptVars
  BY <1>0, <1>1, ReplyKeepsFiles DEF scriptVars
<1>2. CASE ~ \E outcome : Reply(r, outcome) /\ UNCHANGED scriptVars
  <2>1. PICK i, row, previous : i = held[r].item /\ row = held[r].row /\ previous = held[r].previous
    OBVIOUS
  <2>2. /\ {"item", "row", "previous"} \subseteq DOMAIN held[r] /\ DOMAIN row = Columns
        /\ i # Nothing /\ i \in ScriptIds
    BY <1>0, <2>1, HandedOutIds DEF AccessInv, Pending, SavePending
  <2>3. i \notin contended => Exists(i) /\ scripts[i] = previous
    BY <1>0, <2>1, <2>2 DEF FilesInv, Aware, Knows
  <2>4. WriteRow(i, row) /\ made' = made /\ Goto(r, "file", [held[r] EXCEPT !.row.at = stamp'])
    BY <1>2, <2>1 DEF WriteScriptRow, SaveScript
  <2>5. (\A j \in ScriptIds : j # i => scripts'[j] = scripts[j]) /\ SameFile(i, row)'
    BY <2>2, <2>4, RowIsWritten DEF SameFile
  <2>6. pc'[r] = "file" /\ held'[r] = [held[r] EXCEPT !.row.at = stamp']
    BY <1>0, <2>4, GotoMoves
  <2>7. PICK v : v = held'[r].row
    OBVIOUS
  <2>8. /\ held'[r].item = i /\ held'[r].previous = previous
        /\ v.db = row.db /\ v.name = row.name /\ v.script = row.script
    BY <2>1, <2>2, <2>6, <2>7 DEF Columns
  <2>9. SameFile(i, v)'
    BY <2>5, <2>8 DEF SameFile
  <2>10. Aware(r)'
    BY <1>0, <2>6, <2>7, <2>8, <2>9 DEF Aware, Knows, SaveOps, PublishOps
  <2>11. RowsStay(r) /\ Grows
    BY <1>0, <2>1, <2>4, <2>5, MadeGrows, HandedOutIds DEF RowsStay, fileVars
  <2>12. Settles(r)
    <3> SUFFICES ASSUME NEW p, i \notin contended, FileOf(i, p) \/ Owes(r, p) PROVE Changing(r)' /\ Owes(r, p)'
      BY <1>0, <2>1, <2>8 DEF Settles
    <3>1. Changing(r)'
      BY <1>0, <2>6 DEF Changing, ChangeOps, ChangeLabels
    <3>2. AtPath(i, previous, p) /\ previous # NoScript
      BY <1>0, <2>3 DEF FileOf, Owes, Exists, SaveOps
    <3>3. CASE <<previous.db, previous.name>> = <<row.db, row.name>>
      <4>1. AtPath(i, v, p)
        BY <2>8, <3>2, <3>3 DEF AtPath, ScriptPath
      <4>. QED  BY <1>0, <2>6, <2>7, <2>8, <3>1, <4>1 DEF Owes, AtPath
    <3>4. CASE <<previous.db, previous.name>> # <<row.db, row.name>>
      <4>1. Renamed(r)'
        BY <2>7, <2>8, <3>2, <3>4 DEF Renamed
      <4>. QED  BY <1>0, <2>6, <2>8, <3>1, <3>2, <4>1 DEF Owes, AtPath
    <3>. QED  BY <3>3, <3>4
  <2>13. \A p \in DOMAIN codeFiles' : p \in DOMAIN writer' /\ Left(p)
    BY <1>0 DEF fileVars, Left, FilesInv
  <2>. QED  BY <2>10, <2>11, <2>12, <2>13, StepKeepsFiles
<1>. QED  BY <1>1, <1>2

\* The file is written for its row, and what was written for it before is the same
\* file or is to be removed.
LEMMA WriteScriptFileKeepsFiles ==
  ASSUME PlaceInv, AccessInv, KindsInv, FilesInv, NEW r \in due, Moves(r), WriteScriptFile(r)
  PROVE  FilesInv'
<1>0. /\ Progressing /\ UNCHANGED <<scripts, made, contended>> /\ r.op \in SaveOps
      /\ pc[r] = "file" /\ Changing(r)
  BY DEF PlaceInv, WriteScriptFile, storeVars, scriptVars, Changing, ChangeOps, ChangeLabels
<1>1. PICK i, row, previous : i = held[r].item /\ row = held[r].row /\ previous = held[r].previous
  OBVIOUS
<1>2. HandedOut(i) /\ i # Nothing /\ held[r].kind = Kind(i)
  <2>1. i # Nothing /\ HandedOut(i)
    BY <1>0, <1>1 DEF AccessInv, Pending, SavePending
  <2>. QED  BY <1>0, <1>1, <2>1 DEF KindsInv, Kinds, SaveKinds, OfItsKind
<1>3. i \notin contended => SameFile(i, row)
  BY <1>0, <1>1, <1>2 DEF FilesInv, Aware, Knows
<1>4. RowsStay(r)
  BY <1>0 DEF RowsStay
<1>5. \A p : i \notin contended =>
        /\ FileOf(i, p) => AtPath(i, row, p)
        /\ Owes(r, p) => AtPath(i, row, p) \/ (Renamed(r) /\ AtPath(i, previous, p))
  BY <1>0, <1>1, <1>3 DEF FileOf, SameFile, AtPath, ScriptPath, Owes, SaveOps
<1>6. CASE row.name \in BlankNames
  <2>1. /\ UNCHANGED <<codeFiles, writer>>
        /\ misnamed' = misnamed \cup (IF previous = NoScript THEN {} ELSE {i})
        /\ Reply(r, "failed")
    BY <1>1, <1>6 DEF WriteScriptFile
  <2>2. Grows
    BY <1>0, <2>1, MadeGrows
  <2>3. pc'[r] \in {"done", "reply"}
    BY <1>0, <2>1, GotoMoves DEF Reply
  <2>4. Settles(r)
    BY <1>0, <1>1, <1>5, <1>6, <2>1 DEF Settles, AtPath, Renamed
  <2>5. \A p \in DOMAIN codeFiles' : p \in DOMAIN writer' /\ Left(p)
    BY <2>1 DEF FilesInv, Left
  <2>. QED  BY <1>4, <2>2, <2>3, <2>4, <2>5, NotAware, StepKeepsFiles
<1>7. CASE row.name \notin BlankNames
  <2>0. PICK path : path = ScriptPath(Kind(i), row)
    OBVIOUS
  <2>1. /\ codeFiles' = Put(codeFiles, path, row.script) /\ writer' = Put(writer, path, i)
        /\ misnamed' = misnamed
        /\ IF Renamed(r) THEN Goto(r, "oldFile", held[r])
           ELSE Goto(r, "owner", held[r]) \/ Reply(r, "ok")
    <3>1. /\ WriteScript(held[r].kind, held[r].row)
          /\ writer' = Put(writer, ScriptPath(held[r].kind, held[r].row), held[r].item)
          /\ misnamed' = misnamed
      BY <1>1, <1>7 DEF WriteScriptFile
    <3>2. (CASE Renamed(r) -> Goto(r, "oldFile", held[r])
             [] held[r].previous = NoScript -> Goto(r, "owner", held[r])
             [] OTHER -> Reply(r, "ok"))
      BY <1>1, <1>7 DEF WriteScriptFile
    <3>3. Renamed(r) => held[r].previous # NoScript
      BY DEF Renamed
    <3>4. Renamed(r) => Goto(r, "oldFile", held[r])
      BY <3>2, <3>3
    <3>5. ~Renamed(r) => Goto(r, "owner", held[r]) \/ Reply(r, "ok")
      BY <3>2
    <3>. QED  BY <1>1, <1>2, <2>0, <3>1, <3>4, <3>5 DEF WriteScript
  <2>2. Grows
    BY <1>0, <2>1, MadeGrows
  <2>3. pc'[r] \in {"done", "reply", "oldFile", "owner"}
    BY <1>0, <2>1, GotoMoves DEF Reply
  <2>4. Renamed(r) => pc'[r] = "oldFile" /\ held'[r] = held[r]
    BY <1>0, <2>1, GotoMoves
  <2>5. \A p \in DOMAIN codeFiles' :
          p \in DOMAIN writer' /\ (p = path \/ Left(p))
    BY <2>1 DEF Put, FilesInv, Left
  <2>6. writer'[path] = i /\ HandedOut(i)' /\ Tracked(i, path)'
    <3>1. writer'[path] = i /\ codeFiles'[path] = row.script
      BY <2>1 DEF Put
    <3>2. i \notin contended => FileOf(i, path)'
      BY <1>0, <1>3, <1>7, <2>0, <3>1 DEF FileOf, SameFile, Exists, AtPath, ScriptPath
    <3>. QED  BY <1>0, <1>2, <2>2, <3>1, <3>2 DEF Tracked, Grows
  <2>7. Aware(r)'
    BY <1>0, <2>3 DEF Aware, Knows, Changing, ChangeLabels, SaveOps, PublishOps
  <2>8. Settles(r)
    <3> SUFFICES ASSUME NEW p \in DOMAIN codeFiles', Left(p), i \notin contended,
                        FileOf(i, p) \/ Owes(r, p)
                 PROVE  FileOf(i, p)' \/ (Changing(r)' /\ held'[r].item = i /\ Owes(r, p)')
      BY <1>0, <1>1 DEF Settles
    <3>1. AtPath(i, row, p) \/ (Renamed(r) /\ AtPath(i, previous, p))
      BY <1>5
    <3>2. CASE AtPath(i, row, p)
      <4>1. p = path
        BY <2>0, <3>2 DEF AtPath
      <4>2. codeFiles'[p] = row.script
        BY <2>1, <4>1 DEF Put
      <4>. QED  BY <1>0, <1>3, <1>7, <2>0, <4>1, <4>2 DEF FileOf, SameFile, Exists, AtPath, ScriptPath
    <3>3. CASE Renamed(r) /\ AtPath(i, previous, p)
      <4>1. pc'[r] = "oldFile" /\ held'[r] = held[r]
        BY <2>4, <3>3
      <4>2. Changing(r)'
        BY <1>0, <4>1 DEF Changing, ChangeOps, ChangeLabels
      <4>3. Owes(r, p)'
        BY <1>0, <1>1, <3>3, <4>1 DEF Owes, Renamed, AtPath
      <4>. QED  BY <1>1, <4>1, <4>2, <4>3
    <3>. QED  BY <3>1, <3>2, <3>3
  <2>9. \A p \in DOMAIN codeFiles' :
           /\ p \in DOMAIN writer'
           /\ Left(p) \/ \E j : j = writer'[p] /\ HandedOut(j)' /\ Tracked(j, p)'
    BY <2>5, <2>6
  <2>. QED  BY <1>4, <2>2, <2>7, <2>8, <2>9, StepKeepsFiles
<1>. QED  BY <1>6, <1>7

\* The file of a row is removed.
LEMMA RemoveKeepsFiles ==
  ASSUME PlaceInv, AccessInv, FilesInv, NEW r \in due, Moves(r), UNCHANGED <<scripts, made, contended>>,
         UNCHANGED <<writer, misnamed>>, NEW row, DeleteScript(Kind(held[r].item), row),
         \A p : Owes(r, p) => AtPath(held[r].item, row, p),
         pc'[r] \in {"done", "reply"}
  PROVE  FilesInv'
<1>1. Grows
  BY MadeGrows
<1>2. RowsStay(r)
  BY DEF RowsStay
<1>3. \A p \in DOMAIN codeFiles' :
        /\ p \in DOMAIN codeFiles /\ codeFiles'[p] = codeFiles[p]
        /\ ~AtPath(held[r].item, row, p)
  BY DEF DeleteScript, Restrict, AtPath
<1>4. \A p \in DOMAIN codeFiles' : p \in DOMAIN writer' /\ Left(p)
  BY <1>3 DEF FilesInv, Left
<1>5. Settles(r)
  <2> SUFFICES ASSUME NEW p \in DOMAIN codeFiles', NEW i, held[r].item = i, FileOf(i, p) \/ Owes(r, p)
               PROVE  FileOf(i, p)'
    BY DEF Settles
  <2>1. FileOf(i, p)
    BY <1>3
  <2>. QED  BY <1>3, <2>1 DEF FileOf, Exists, AtPath
<1>. QED  BY <1>1, <1>2, <1>4, <1>5, NotAware, StepKeepsFiles

LEMMA RemoveOldFileKeepsFiles ==
  ASSUME PlaceInv, AccessInv, KindsInv, FilesInv, NEW r \in due, Moves(r), RemoveOldFile(r)
  PROVE  FilesInv'
<1>0. /\ Progressing /\ UNCHANGED <<scripts, made, contended>> /\ r.op \in SaveOps
      /\ pc[r] = "oldFile" /\ Changing(r)
  BY DEF PlaceInv, RemoveOldFile, storeVars, scriptVars, Changing, ChangeOps, ChangeLabels
<1>1. held[r].kind = Kind(held[r].item)
  <2>1. held[r].item # Nothing
    BY <1>0 DEF AccessInv, Pending, SavePending
  <2>. QED  BY <1>0, <2>1 DEF KindsInv, Kinds, SaveKinds, OfItsKind
<1>2. DeleteScript(Kind(held[r].item), held[r].previous) /\ UNCHANGED <<writer, misnamed>>
  BY <1>1 DEF RemoveOldFile
<1>3. \A p : Owes(r, p) => AtPath(held[r].item, held[r].previous, p)
  BY <1>0 DEF Owes, SaveOps
<1>4. pc'[r] \in {"done", "reply"}
  BY <1>0, GotoMoves DEF RemoveOldFile, Reply
<1>. QED  BY <1>0, <1>2, <1>3, <1>4, RemoveKeepsFiles

-----------------------------------------------------------------------------
(* Deleting and publishing, and all steps together.                        *)

LEMMA ItemBeginsFiles ==
  ASSUME PlaceInv, AccessInv, FilesInv, NEW r \in due, Moves(r), HandleDeleteScript(r) \/ HandlePublish(r)
  PROVE  FilesInv'
<1>0. /\ Progressing /\ UNCHANGED <<scripts, made, fileVars>> /\ pc[r] = "start"
      /\ r.op \in {"deleteScript"} \cup PublishOps
  BY DEF PlaceInv, HandleDeleteScript, HandlePublish, At, storeVars, scriptVars
<1>1. contended \subseteq contended'
  BY DEF HandleDeleteScript, HandlePublish, Contend
<1>2. Grows
  BY <1>0, <1>1, MadeGrows DEF fileVars
<1>3. pc'[r] = "done" \/ held'[r].row = NoScript
  BY <1>0, GotoMoves DEF HandleDeleteScript, HandlePublish
<1>4. Aware(r)'
  BY <1>0, <1>3, NotAware DEF Aware, Knows, SaveOps, PublishOps
<1>. QED  BY <1>0, <1>2, <1>4, QuietKeepsFiles

LEMMA ItemReadFiles ==
  ASSUME PlaceInv, AccessInv, FilesInv, NEW r \in due, Moves(r), FindDeleted(r) \/ ReadForm(r)
  PROVE  FilesInv'
<1>0. /\ Progressing /\ UNCHANGED <<scripts, made, fileVars, contended>> /\ Changing(r)
      /\ pc[r] \in {"delete", "token"} /\ r.op \in {"deleteScript"} \cup PublishOps
  BY DEF PlaceInv, FindDeleted, ReadForm, At, storeVars, scriptVars, codeVars, Changing, ChangeOps,
     ChangeLabels, PublishOps
<1>1. CASE pc'[r] = "done"
  BY <1>0, <1>1, ReplyKeepsFiles
<1>2. CASE pc'[r] # "done"
  <2>1. PICK i : i = r.item
    OBVIOUS
  <2>2. PICK row : /\ Exists(i) /\ held'[r] = [item |-> i, row |-> row]
                   /\ r.op = "deleteScript" => row = scripts[i]
                   /\ r.op \in PublishOps => \E token : row = [scripts[i] EXCEPT !.token = token]
    <3>1. CASE FindDeleted(r)
      BY <1>0, <1>2, <2>1, <3>1, GotoMoves DEF FindDeleted, At, PublishOps
    <3>2. CASE ReadForm(r)
      <4>1. Exists(i)
        BY <1>0, <1>2, <2>1, <3>2, GotoMoves DEF ReadForm
      <4>2. PICK token : Goto(r, "token", [item |-> i, row |-> [scripts[i] EXCEPT !.token = token]])
        BY <2>1, <3>2, <4>1 DEF ReadForm
      <4>3. held'[r] = [item |-> i, row |-> [scripts[i] EXCEPT !.token = token]]
        BY <1>0, <4>2, GotoMoves
      <4>4. r.op # "deleteScript"
        BY <3>2 DEF ReadForm, PublishOps
      <4>. QED  BY <4>1, <4>3, <4>4
    <3>. QED  BY <3>1, <3>2
  <2>3. DOMAIN scripts[i] = Columns
    BY <2>2 DEF AccessInv, IdsInv, Exists
  <2>4. r.op \in PublishOps => SameFile(i, row)
    BY <2>2, <2>3 DEF SameFile, Columns
  <2>5. r.op \in PublishOps => SameFile(i, row)'
    BY <1>0, <2>4 DEF SameFile, Exists
  <2>6. held'[r].item = i /\ held'[r].row = row
    BY <2>2
  <2>7. Aware(r)'
    BY <1>0, <2>2, <2>5, <2>6 DEF Aware, Knows, SaveOps, PublishOps
  <2>8. Grows
    BY <1>0, MadeGrows DEF fileVars
  <2>. QED  BY <1>0, <2>7, <2>8, QuietKeepsFiles
<1>. QED  BY <1>1, <1>2

LEMMA DeleteRowKeepsFiles ==
  ASSUME PlaceInv, AccessInv, FilesInv, NEW r \in due, Moves(r), DeleteRowOfScript(r)
  PROVE  FilesInv'
<1>0. /\ r.op = "deleteScript" /\ pc[r] = "delete" /\ held[r].row # NoScript /\ Changing(r)
      /\ scripts' = [scripts EXCEPT ![r.item] = NoScript] /\ made' = made
      /\ pc'[r] = "remove" /\ held'[r] = held[r] /\ UNCHANGED <<fileVars, contended>>
  BY GotoMoves DEF DeleteRowOfScript, DeleteScriptRow, At, Changing, ChangeOps, ChangeLabels, codeVars, PlaceInv
<1>1. PICK i : i = r.item
  OBVIOUS
<1>2. held[r].item = i /\ HandedOut(i) /\ i # Nothing
  BY <1>0, <1>1, HandedOutIds DEF AccessInv, Pending, ItemPending
<1>3. i \notin contended => scripts[i] = held[r].row
  BY <1>0, <1>2 DEF FilesInv, Aware, Knows
<1>4. RowsStay(r)
  BY <1>0, <1>1, <1>2, HandedOutIds DEF RowsStay, AccessInv, IdsInv
<1>5. Grows
  BY <1>0, MadeGrows DEF fileVars
<1>6. Aware(r)'
  BY <1>0 DEF Aware, Knows, SaveOps, PublishOps
<1>7. Changing(r)'
  BY <1>0 DEF Changing, ChangeOps, ChangeLabels
<1>8. Settles(r)
  <2> SUFFICES ASSUME NEW p, i \notin contended, FileOf(i, p) \/ Owes(r, p) PROVE Owes(r, p)'
    BY <1>0, <1>2, <1>7 DEF Settles
  <2>1. AtPath(i, held[r].row, p)
    BY <1>0, <1>3 DEF FileOf, Owes, SaveOps
  <2>. QED  BY <1>0, <1>2, <2>1 DEF Owes, AtPath
<1>9. \A p \in DOMAIN codeFiles' : p \in DOMAIN writer' /\ Left(p)
  BY <1>0 DEF fileVars, Left, FilesInv
<1>. QED  BY <1>4, <1>5, <1>6, <1>8, <1>9, StepKeepsFiles

LEMMA RemoveScriptFileKeepsFiles ==
  ASSUME PlaceInv, AccessInv, FilesInv, NEW r \in due, Moves(r), RemoveScriptFile(r)
  PROVE  FilesInv'
<1>0. /\ r.op = "deleteScript" /\ pc[r] = "remove" /\ pc'[r] = "done" /\ Changing(r)
      /\ UNCHANGED <<scripts, made, contended>> /\ UNCHANGED <<writer, misnamed>>
  BY GotoMoves DEF RemoveScriptFile, At, Changing, ChangeOps, ChangeLabels, PlaceInv, storeVars, scriptVars
<1>1. held[r].item = r.item
  BY <1>0 DEF AccessInv, Pending, ItemPending
<1>2. DeleteScript(Kind(held[r].item), held[r].row)
  BY <1>1 DEF RemoveScriptFile
<1>3. \A p : Owes(r, p) => AtPath(held[r].item, held[r].row, p)
  BY <1>0 DEF Owes, SaveOps
<1>. QED  BY <1>0, <1>2, <1>3, RemoveKeepsFiles

\* Only the token of the row changes.
LEMMA WriteTokenKeepsFiles ==
  ASSUME PlaceInv, AccessInv, FilesInv, NEW r \in due, Moves(r), WriteToken(r)
  PROVE  FilesInv'
<1>0. /\ r.op \in PublishOps /\ pc[r] = "token" /\ held[r].row # NoScript /\ Changing(r) /\ pc'[r] = "done"
      /\ UNCHANGED <<fileVars, contended>>
  BY GotoMoves DEF WriteToken, Changing, ChangeOps, ChangeLabels, PublishOps, PlaceInv, codeVars
<1>1. CASE UNCHANGED scriptVars
  BY <1>0, <1>1, ReplyKeepsFiles DEF scriptVars
<1>2. CASE ~UNCHANGED scriptVars
  <2>1. PICK i, row : i = r.item /\ row = held[r].row
    OBVIOUS
  <2>2. held[r].item = i /\ i # Nothing /\ i \in ScriptIds /\ DOMAIN row = Columns
    BY <1>0, <2>1, HandedOutIds DEF AccessInv, Pending, ItemPending
  <2>3. i \notin contended => SameFile(i, row)
    BY <1>0, <2>1, <2>2 DEF FilesInv, Aware, Knows
  <2>4. PICK v : SaveScript(i, v) /\ v \in {row, MergedForm(scripts[i], row)}
    BY <1>2, <2>1 DEF WriteToken
  <2>5. DOMAIN v = Columns /\ v.db = row.db /\ v.name = row.name /\ v.script = row.script
    BY <2>2, <2>4 DEF MergedForm, Columns
  <2>6. /\ \A j \in ScriptIds : j # i => scripts'[j] = scripts[j]
        /\ SameFile(i, row)' /\ made' = made
    BY <2>2, <2>4, <2>5, RowIsWritten DEF SaveScript, SameFile
  <2>7. RowsStay(r) /\ Grows
    BY <1>0, <2>2, <2>6, MadeGrows, HandedOutIds DEF RowsStay, fileVars
  <2>8. Settles(r)
    <3> SUFFICES ASSUME NEW p, codeFiles'[p] = codeFiles[p], i \notin contended, FileOf(i, p) \/ Owes(r, p)
                 PROVE  FileOf(i, p)'
      BY <1>0, <2>2 DEF Settles, Left
    <3>1. FileOf(i, p)
      BY <1>0 DEF Owes, SaveOps, PublishOps
    <3>. QED  BY <2>3, <2>6, <3>1 DEF FileOf, SameFile, AtPath, ScriptPath
  <2>9. \A p \in DOMAIN codeFiles' : p \in DOMAIN writer' /\ Left(p)
    BY <1>0 DEF fileVars, Left, FilesInv
  <2>. QED  BY <1>0, <2>7, <2>8, <2>9, NotAware, StepKeepsFiles
<1>. QED  BY <1>1, <1>2

LEMMA ScriptsKeepFiles ==
  ASSUME PlaceInv, AccessInv, KindsInv, FilesInv, NEW r \in due, ScriptsSteps(r), Moves(r)
  PROVE  FilesInv'
<1>1. CASE GrantResourceOwner(r)
  <2>1. /\ UNCHANGED <<scripts, made, fileVars, contended>> /\ pc[r] = "owner"
        /\ \E outcome : Reply(r, outcome)
    BY <1>1 DEF GrantResourceOwner, scriptVars, codeVars
  <2>. QED  BY <2>1, ReplyKeepsFiles
<1>2. CASE GetScript(r) \/ GetPublishedForm(r) \/ HandleWorkflowWebhook(r)
  <2>1. /\ UNCHANGED <<scripts, made, fileVars, contended>> /\ pc[r] = "start" /\ pc'[r] = "done"
    BY <1>2, GotoMoves DEF GetScript, GetPublishedForm, HandleWorkflowWebhook, At, PlaceInv, storeVars,
       scriptVars, codeVars
  <2>. QED  BY <2>1, ReplyKeepsFiles
<1>. QED  BY <1>1, <1>2, SaveBeginsFiles, FindPreviousKeepsFiles, CreateScriptKeepsFiles,
          MergeScriptKeepsFiles, WriteScriptRowKeepsFiles, WriteScriptFileKeepsFiles,
          RemoveOldFileKeepsFiles, ItemBeginsFiles, ItemReadFiles, DeleteRowKeepsFiles,
          RemoveScriptFileKeepsFiles, WriteTokenKeepsFiles
          DEF ScriptsSteps

\* Grants and roles leave workflows and forms as they are, and their ids.
LEMMA AccessLeavesScripts ==
  ASSUME AccessInv, NEW r \in due, AccessSteps(r)
  PROVE  UNCHANGED <<scripts, stamp, coincided>> /\ \A kind \in ItemScopes : made'[kind] = made[kind]
<1> USE DEF storeVars, accessVars, scriptVars
<1>1. CASE WriteRole(r)
  BY <1>1 DEF WriteRole, SaveRole, ItemScopes, AccessInv, IdsInv
<1>2. CASE HandleSaveGrant(r) \/ FindConflicts(r) \/ DeleteConflictingGrant(r) \/ WriteGrant(r)
  BY <1>2 DEF HandleSaveGrant, FindConflicts, DeleteConflictingGrant, WriteGrant
<1>3. CASE HandleRole(r) \/ WriteRoleGrants(r) \/ WriteRoleMembers(r) \/ RoleResponse(r) \/ ListRoles(r)
  BY <1>3 DEF HandleRole, WriteRoleGrants, WriteRoleMembers, RoleResponse, ListRoles
<1>. QED  BY <1>1, <1>2, <1>3 DEF AccessSteps

LEMMA CliSyncAside ==
  ASSUME PlaceInv, NEW r \in due, CliSyncSteps(r)
  PROVE  UNCHANGED codeVars /\ ~Changing(r) /\ ~Changing(r)'
<1>0. Progressing
  BY DEF PlaceInv
<1>1. CASE EditFile(r) \/ ListRemote(r) \/ ListScripts(r) \/ WriteFiles(r) \/ RunStatus(r)
  <2>1. r.op \in {"edit", "pull", "status"} /\ UNCHANGED codeVars
    BY <1>1 DEF EditFile, ListRemote, ListScripts, WriteFiles, RunStatus, At
  <2>. QED  BY <2>1 DEF Changing, ChangeOps, SaveOps
<1>2. CASE ~(EditFile(r) \/ ListRemote(r) \/ ListScripts(r) \/ WriteFiles(r) \/ RunStatus(r))
  <2>1. UNCHANGED codeVars /\ pc[r] \in {"start", "next", "reply", "record"}
    <3>1. CASE StartPush(r) \/ EndPush(r) \/ RecordState(r)
      BY <3>1 DEF StartPush, EndPush, RecordState, At
    <3>2. CASE PushChange(r) \/ PushReply(r)
      BY <3>2 DEF PushChange, PushReply, At
    <3>3. CASE RunWorkflowSet(r) \/ WorkflowSetReply(r)
      BY <3>3 DEF RunWorkflowSet, WorkflowSetReply, At
    <3>. QED  BY <1>2, <3>1, <3>2, <3>3 DEF CliSyncSteps
  <2>2. pc'[r] \in {"done", "next", "post", "record"}
    <3>1. CASE StartPush(r) \/ EndPush(r) \/ RecordState(r)
      BY <1>0, <3>1, GotoMoves DEF StartPush, EndPush, RecordState
    <3>2. CASE PushChange(r) \/ PushReply(r)
      <4>1. \E value : Goto(r, "next", value) \/ Goto(r, "post", value)
        BY <3>2, Zenon DEF PushChange, PushReply
      <4>. QED  BY <1>0, <4>1, GotoMoves
    <3>3. CASE RunWorkflowSet(r) \/ WorkflowSetReply(r)
      BY <1>0, <3>3, GotoMoves DEF RunWorkflowSet, WorkflowSetReply
    <3>. QED  BY <1>2, <3>1, <3>2, <3>3 DEF CliSyncSteps
  <2>. QED  BY <2>1, <2>2 DEF Changing, ChangeLabels
<1>. QED  BY <1>1, <1>2

\* A step that has nothing to do with files.
LEMMA AsideKeepsFiles ==
  ASSUME PlaceInv, AccessInv, FilesInv, NEW r \in due, Moves(r), UNCHANGED <<scripts, codeVars>>,
         \A kind \in ItemScopes : made'[kind] = made[kind],
         ~Changing(r) /\ ~Changing(r)'
  PROVE  FilesInv'
<1>1. Grows
  BY MadeGrows DEF codeVars, fileVars
<1>2. Aware(r)'
  BY DEF Aware
<1>. QED  BY <1>1, <1>2, QuietKeepsFiles DEF codeVars

LEMMA NextFiles ==
  ASSUME PlaceInv, AccessInv, KindsInv, FilesInv, [Next]_vars, faults \in Nat, faults' = faults
  PROVE  FilesInv'
<1>0. Progressing /\ Placed
  BY DEF PlaceInv
<1>1. ASSUME NEW r \in due, NEW ops, Steps(r, ops), UNCHANGED <<scripts, codeVars>>,
             ops \in {SignInOps, AccessOps, CatalogOps}, \A kind \in ItemScopes : made'[kind] = made[kind]
      PROVE  FilesInv'
  <2>1. Moves(r) /\ r.op \notin ChangeOps
    BY <1>1 DEF Steps, SignInOps, AccessOps, CatalogOps, ChangeOps, SaveOps
  <2>2. ~Changing(r) /\ ~Changing(r)'
    BY <2>1 DEF Changing
  <2>. QED  BY <1>1, <2>1, <2>2, AsideKeepsFiles
<1>2. ASSUME NEW r \in due, AccessSteps(r), Steps(r, AccessOps), UNCHANGED codeVars
      PROVE  FilesInv'
  BY <1>1, <1>2, AccessLeavesScripts
<1>3. ASSUME NEW r \in due, CatalogSteps(r), Steps(r, CatalogOps), UNCHANGED codeVars
      PROVE  FilesInv'
  BY <1>1, <1>3, CatalogRests DEF Rests
<1>4. ASSUME NEW r \in due, ScriptsSteps(r), Steps(r, ScriptsOps) PROVE FilesInv'
  BY <1>4, ScriptsKeepFiles DEF Steps
<1>5. ASSUME NEW r \in due, CliSyncSteps(r), Steps(r, CliSyncOps) PROVE FilesInv'
  BY <1>5, CliSyncRests, CliSyncAside, AsideKeepsFiles DEF Rests, Steps
<1>6. ~Restart /\ \A r \in due : ~Fail(r)
  BY DEF Restart, Fail, StatementFails
<1>7. CASE UNCHANGED <<requestVars, scripts, made, codeVars>>
  BY <1>7 DEF requestVars, codeVars, fileVars, FilesInv, HandedOut, Tracked, FileOf, Exists, AtPath,
     Owes, Renamed, Changing, Aware, Knows, SameFile
<1>8. UNCHANGED vars => UNCHANGED <<requestVars, scripts, made, codeVars>>
  BY DEF vars, storeVars, scriptVars
<1>9. (/\ \/ Tick \/ (\E r \in due, b \in Browsers : AuthorizePage(r, b))
          \/ \E page \in shown : Authorize(page)
       /\ UNCHANGED <<doubled, codeVars>>) => UNCHANGED <<requestVars, scripts, made, codeVars>>
  BY SignInRests DEF scriptVars, requestVars, Tick, AuthorizePage, Authorize
<1>10. (\/ \E r \in due : SignInSteps(r) /\ Steps(r, SignInOps)
        \/ \E c \in callbacks : \E r \in due : Callback(c) /\ TakesCallback(r, c) /\ Steps(r, SignInOps))
       /\ UNCHANGED <<doubled, codeVars>> => FilesInv'
  BY <1>1, SignInRests DEF scriptVars
<1>. QED  BY <1>0, <1>2, <1>3, <1>4, <1>5, <1>6, <1>7, <1>8, <1>9, <1>10, WhoseStep

\* Unless something failed.
SoundInv == faults \in Nat /\ (faults = 0 => KindsInv /\ FilesInv)

LEMMA InitSound == Init => SoundInv
<1> SUFFICES ASSUME Init PROVE SoundInv
  OBVIOUS
<1>0. /\ faults = 0 /\ \A r \in due : pc[r] = "start"
      /\ codeFiles = <<>> /\ dir = [files |-> <<>>, state |-> <<>>, known |-> FALSE]
  BY DEF Init, RequestsInit, CliSyncInit
<1>1. \A r \in due : Kinds(r) /\ Aware(r)
  BY <1>0 DEF Kinds, PullKinds, PushKinds, SaveKinds, Aware, Changing, ChangeLabels
<1>2. StateKinds(dir.state) /\ {"files", "state", "known"} \subseteq DOMAIN dir
  BY <1>0 DEF StateKinds
<1>3. DOMAIN codeFiles = {}
  BY <1>0
<1>. QED  BY <1>0, <1>1, <1>2, <1>3 DEF SoundInv, KindsInv, FilesInv

LEMMA FaultsCount ==
  ASSUME PlaceInv, faults \in Nat, [Next]_vars
  PROVE  faults' = faults \/ (faults' = faults + 1 /\ (Restart \/ \E r \in due : Fail(r)))
<1>1. ASSUME NEW r \in due, NEW ops, Steps(r, ops) PROVE faults' = faults
  BY <1>1 DEF Steps
<1>2. (Restart \/ \E r \in due : Fail(r)) => faults' = faults + 1
  BY DEF Restart, Fail, StatementFails
<1>3. (Tick \/ (\E r \in due, b \in Browsers : AuthorizePage(r, b)) \/ (\E page \in shown : Authorize(page)))
      => faults' = faults
  BY DEF Tick, AuthorizePage, Authorize, requestVars
<1>4. UNCHANGED vars => faults' = faults
  BY DEF vars, requestVars
<1>. QED  BY <1>1, <1>2, <1>3, <1>4, WhoseStep DEF PlaceInv

LEMMA NextSound == PlaceInv /\ AccessInv /\ SoundInv /\ [Next]_vars => SoundInv'
<1> SUFFICES ASSUME PlaceInv, AccessInv, SoundInv, [Next]_vars PROVE SoundInv'
  OBVIOUS
<1>1. faults \in Nat /\ faults' \in {faults, faults + 1}
  BY FaultsCount DEF SoundInv
<1>2. CASE faults' # 0
  BY <1>1, <1>2 DEF SoundInv
<1>3. CASE faults' = 0
  <2>1. faults = 0 /\ faults' = faults
    BY <1>1, <1>3
  <2>. QED  BY <1>1, <1>3, <2>1, NextKinds, NextFiles DEF SoundInv
<1>. QED  BY <1>2, <1>3

\* When no handler is at it, every file holds the script of the row that it was
\* written for, which is there and has that path: saveWorkflow, saveForm and their
\* deletion and publication in src/internal/api/server.go, and push and workflow set
\* of src/internal/ctl, however the requests interleave.  The exceptions are those of
\* ScriptsAgree.
THEOREM FilesHoldTheirScripts == Spec => []ScriptsAgree
<1>1. Spec => [](PlaceInv /\ AccessInv /\ SoundInv)
  BY InitPlaced, NextPlaced, InitAccess, NextAccess, InitSound, NextSound, PTL DEF Spec
<1>2. SoundInv => ScriptsAgree
  BY DEF SoundInv, FilesInv, Tracked, FileOf, AtPath, ScriptsAgree
<1>. QED  BY <1>1, <1>2, PTL

-----------------------------------------------------------------------------
(* Pull keeps edits.                                                       *)

\* A command of the directory goes on when those that it comes after are done.
TurnsInv ==
  /\ {"files", "state", "known"} \subseteq DOMAIN dir
  /\ \A q, r \in due :
       (/\ q.op \in DirectoryOps /\ r.op \in DirectoryOps
        /\ q.id \in r.after /\ pc[r] # "start") => pc[q] = "done"

\* A command takes no step when it is done, and its first one in its turn.
LEMMA CommandSteps ==
  ASSUME NEW r \in due, r.op \in DirectoryOps, CliSyncSteps(r) \/ ScriptsSteps(r)
  PROVE  pc[r] # "done" /\ (pc[r] = "start" => Sent(r))
<1> USE DEF At
<1>1. CASE EditFile(r) \/ ListRemote(r) \/ ListScripts(r) \/ WriteFiles(r) \/ RecordState(r)
  BY <1>1 DEF EditFile, ListRemote, ListScripts, WriteFiles, RecordState
<1>2. CASE RunStatus(r) \/ StartPush(r) \/ PushChange(r) \/ PushReply(r) \/ EndPush(r)
  BY <1>2 DEF RunStatus, StartPush, PushChange, PushReply, EndPush
<1>3. CASE RunWorkflowSet(r) \/ WorkflowSetReply(r)
  BY <1>3 DEF RunWorkflowSet, WorkflowSetReply
<1>4. CASE HandleSaveScript(r) \/ FindPrevious(r) \/ CreateScript(r) \/ MergeScript(r)
  BY <1>4 DEF HandleSaveScript, FindPrevious, CreateScript, MergeScript
<1>5. CASE WriteScriptRow(r) \/ WriteScriptFile(r) \/ RemoveOldFile(r) \/ GrantResourceOwner(r)
  BY <1>5 DEF WriteScriptRow, WriteScriptFile, RemoveOldFile, GrantResourceOwner
<1>6. CASE HandleDeleteScript(r) \/ FindDeleted(r) \/ DeleteRowOfScript(r) \/ RemoveScriptFile(r)
  BY <1>6 DEF HandleDeleteScript, FindDeleted, DeleteRowOfScript, RemoveScriptFile
<1>7. CASE HandlePublish(r) \/ ReadForm(r) \/ WriteToken(r)
  BY <1>7 DEF HandlePublish, ReadForm, WriteToken, PublishOps, DirectoryOps
<1>8. CASE GetScript(r) \/ GetPublishedForm(r) \/ HandleWorkflowWebhook(r)
  BY <1>8 DEF GetScript, GetPublishedForm, HandleWorkflowWebhook
<1>. QED  BY <1>1, <1>2, <1>3, <1>4, <1>5, <1>6, <1>7, <1>8 DEF CliSyncSteps, ScriptsSteps

\* Most steps of commands leave the directory alone.
LEMMA CommandsRead ==
  ASSUME NEW r \in due, CliSyncSteps(r)
  PROVE  EditFile(r) \/ WriteFiles(r) \/ RecordState(r) \/ dir' = dir
<1> USE DEF dirVars
<1>1. ListRemote(r) \/ RunStatus(r) \/ StartPush(r) \/ EndPush(r) => dir' = dir
  BY DEF ListRemote, RunStatus, StartPush, EndPush
<1>2. ListScripts(r) => dir' = dir
  BY Zenon DEF ListScripts
<1>3. PushChange(r) => dir' = dir
  BY Zenon DEF PushChange
<1>4. PushReply(r) => dir' = dir
  BY Zenon DEF PushReply
<1>5. RunWorkflowSet(r) \/ WorkflowSetReply(r) => dir' = dir
  BY Zenon DEF RunWorkflowSet, WorkflowSetReply
<1>. QED  BY <1>1, <1>2, <1>3, <1>4, <1>5 DEF CliSyncSteps

LEMMA DirKeepsParts == [Next]_vars => DOMAIN dir' = DOMAIN dir
<1> SUFFICES ASSUME [Next]_vars PROVE DOMAIN dir' = DOMAIN dir
  OBVIOUS
<1>1. ASSUME NEW r \in due, CliSyncSteps(r) PROVE DOMAIN dir' = DOMAIN dir
  <2>1. CASE EditFile(r) \/ WriteFiles(r) \/ RecordState(r)
    BY <2>1 DEF EditFile, WriteFiles, RecordState
  <2>2. \/ EditFile(r) \/ WriteFiles(r) \/ RecordState(r) \/ dir' = dir
    BY <1>1, CommandsRead
  <2>. QED  BY <2>1, <2>2
<1>. QED  BY <1>1, DirStays DEF dirVars

LEMMA InitTurns == Init => TurnsInv
  BY DEF Init, RequestsInit, CliSyncInit, TurnsInv

LEMMA NextTurns == PlaceInv /\ TurnsInv /\ [Next]_vars => TurnsInv'
<1> SUFFICES ASSUME PlaceInv, TurnsInv, [Next]_vars PROVE TurnsInv'
  OBVIOUS
<1>0. Progressing /\ Placed
  BY DEF PlaceInv
<1>1. {"files", "state", "known"} \subseteq DOMAIN dir'
  BY DirKeepsParts DEF TurnsInv
<1>2. SUFFICES /\ due' = due
               /\ \A r \in due :
                    r.op \in DirectoryOps =>
                      /\ pc[r] = "done" => pc'[r] = "done"
                      /\ (pc[r] = "start" /\ pc'[r] # "start") => Sent(r)
  BY <1>1, <1>2 DEF TurnsInv, Sent
<1>3. ASSUME NEW r \in due, NEW ops, Steps(r, ops), r.op \in DirectoryOps => CliSyncSteps(r) \/ ScriptsSteps(r)
      PROVE  <1>2!1
  BY <1>3, CommandSteps DEF Steps, Moves
<1>4. DirectoryOps \cap (SignInOps \cup AccessOps \cup CatalogOps) = {}
  BY DEF DirectoryOps, SignInOps, AccessOps, CatalogOps
<1>5. ASSUME NEW r \in due, Fail(r) PROVE <1>2!1
  BY <1>0, <1>5 DEF Fail, StatementFails, GoesOn, Handled, UnderWay, Progressing
<1>6. CASE Restart
  BY <1>0, <1>6, RestartSteps DEF GoesOn, Handled, UnderWay
<1>7. CASE UNCHANGED requestVars
  BY <1>7 DEF requestVars
<1>8. (Tick \/ (\E r \in due, b \in Browsers : AuthorizePage(r, b)) \/ (\E page \in shown : Authorize(page)))
      => UNCHANGED requestVars
  BY DEF Tick, AuthorizePage, Authorize, requestVars
<1>9. UNCHANGED vars => UNCHANGED requestVars
  BY DEF vars
<1>10. ASSUME NEW r \in due, NEW ops \in {SignInOps, AccessOps, CatalogOps}, Steps(r, ops)
       PROVE  <1>2!1
  BY <1>3, <1>4, <1>10 DEF Steps
<1>. QED  BY <1>0, <1>3, <1>5, <1>6, <1>7, <1>8, <1>9, <1>10, WhoseStep

\* Between what a pull reads and what it writes, no other command changes the
\* directory.
LEMMA OneCommand ==
  ASSUME PlaceInv, TurnsInv, NEW r \in due, r.op \in DirectoryOps, pc[r] \notin {"start", "done"},
         NEW q \in due, q.op \in DirectoryOps, CliSyncSteps(q)
  PROVE  q = r
<1>1. q = r \/ q.id \in r.after \/ r.id \in q.after
  BY DirectoryAssumption DEF PlaceInv, Progressing
<1>2. pc[q] # "done" /\ (pc[q] = "start" => Sent(q))
  BY CommandSteps
<1>. QED  BY <1>1, <1>2 DEF TurnsInv, Sent

\* The files that pull writes or removes are as they were recorded.
LEMMA WriteFilesKeepsEdits ==
  ASSUME "files" \in DOMAIN dir, NEW r \in due, WriteFiles(r), ~r.force, NEW p \in DOMAIN dir.files
  PROVE  \/ p \in DOMAIN dir'.files /\ dir'.files[p] = dir.files[p]
         \/ p \in DOMAIN dir.state /\ dir.files[p] = dir.state[p].script
<1>1. PICK remote, kept, gone :
        /\ kept = KeptFiles(remote, r.force)
        /\ gone = GoneFiles(remote, held[r].databases, r.force)
        /\ dir' = [dir EXCEPT !.files = Over([x \in DOMAIN Without(remote, kept) |->
                                                Without(remote, kept)[x].script],
                                             Without(dir.files, gone))]
  BY DEF WriteFiles
<1>2. PICK pulled : pulled = [x \in DOMAIN Without(remote, kept) |-> Without(remote, kept)[x].script]
  OBVIOUS
<1>3. /\ DOMAIN pulled = DOMAIN remote \ kept
      /\ \A x \in DOMAIN remote \ kept : pulled[x] = remote[x].script
  BY <1>2 DEF Without, Restrict
<1>4. dir'.files = Over(pulled, Without(dir.files, gone))
  BY <1>1, <1>2
<1>5. SUFFICES ASSUME EditedFile(p)
               PROVE  p \in DOMAIN dir'.files /\ dir'.files[p] = dir.files[p]
  BY DEF EditedFile
<1>6. p \in DOMAIN remote \ kept => remote[p].script = dir.files[p]
  BY <1>1, <1>5 DEF KeptFiles
<1>7. p \notin gone
  BY <1>1, <1>5 DEF GoneFiles
<1>8. /\ p \in DOMAIN Without(dir.files, gone) /\ Without(dir.files, gone)[p] = dir.files[p]
  BY <1>7 DEF Without, Restrict
<1>. QED  BY <1>3, <1>4, <1>6, <1>8 DEF Over

-----------------------------------------------------------------------------
(* The state is as pull and push put the files.                            *)

\* The entries of a state are of scripts that were put into the files.
PutAs(state, put) == \A p \in DOMAIN state : p \in DOMAIN put /\ put[p] = state[p].script

ChangePut(c, put) == c.status = "modified" => c.path \in DOMAIN put /\ put[c.path] = c.entry.script

\* Files were written, and the state was not yet.
Midway(r) == (r.op = "pull" /\ pc[r] = "record") \/ (r.op = "push" /\ UnderWay(r) /\ ~r.dry)

PullPut(r) == (r.op = "pull" /\ pc[r] = "record") => PutAs(held[r].state, base)

\* What a push has to do is about files of different paths.
PushPut(r) ==
  (r.op = "push" /\ UnderWay(r)) =>
    /\ PutAs(held[r].state, base)
    /\ r.dry => pc[r] = "next"
    /\ pc[r] # "record" =>
         /\ \A c \in held[r].todo : ChangePut(c, base)
         /\ \A c, d \in held[r].todo : c.path = d.path => c = d
    /\ pc[r] \notin {"record", "next"} =>
         ChangePut(held[r].change, base) /\ \A c \in held[r].todo : c.path # held[r].change.path

PutInv ==
  /\ \A r \in due : PullPut(r) /\ PushPut(r)
  /\ (\A r \in due : ~Midway(r)) => PutAs(dir.state, base)

\* While no command was killed.
BaseInv == faults = 0 => PutInv

LEMMA PutOver ==
  ASSUME NEW next, NEW state, NEW put, NEW gone, PutAs(state, put)
  PROVE  PutAs(Over(next, Without(state, gone)),
               Over([p \in DOMAIN next |-> next[p].script], Without(put, gone)))
<1>1. PICK pulled : pulled = [p \in DOMAIN next |-> next[p].script]
  OBVIOUS
<1>2. DOMAIN pulled = DOMAIN next /\ \A p \in DOMAIN next : pulled[p] = next[p].script
  BY <1>1
<1>3. PutAs(Over(next, Without(state, gone)), Over(pulled, Without(put, gone)))
  BY <1>2 DEF PutAs, Over, Without, Restrict
<1>. QED  BY <1>1, <1>3

\* A request that leaves the directory alone.
LEMMA QuietKeepsPut ==
  ASSUME PutInv, NEW r \in due, Moves(r), UNCHANGED <<dir, base>>, PullPut(r)', PushPut(r)',
         Midway(r) => Midway(r)'
  PROVE  PutInv'
<1>0. due' = due /\ \A q \in due \ {r} : pc'[q] = pc[q] /\ held'[q] = held[q]
  BY DEF Moves
<1>1. ASSUME NEW q \in due \ {r} PROVE PullPut(q)' /\ PushPut(q)' /\ (Midway(q) => Midway(q)')
  <2>1. pc'[q] = pc[q] /\ held'[q] = held[q] /\ PullPut(q) /\ PushPut(q)
    BY <1>0 DEF PutInv
  <2>. QED  BY <2>1 DEF PullPut, PushPut, Midway, UnderWay
<1>. QED  BY <1>0, <1>1 DEF PutInv

\* A command in the directory: no other one is under way.
LEMMA CommandKeepsPut ==
  ASSUME PlaceInv, TurnsInv, NEW r \in due, r.op \in DirectoryOps, CliSyncSteps(r), Moves(r),
         PullPut(r)', PushPut(r)', Midway(r)' \/ PutAs(dir'.state, base')
  PROVE  PutInv'
<1>0. due' = due /\ \A q \in due \ {r} : pc'[q] = pc[q]
  BY DEF Moves
<1>1. ASSUME NEW q \in due \ {r}, q.op \in {"pull", "push"} PROVE pc'[q] \in {"start", "done"}
  BY <1>0, <1>1, OneCommand DEF DirectoryOps
<1>. QED  BY <1>0, <1>1 DEF PutInv, PullPut, PushPut, UnderWay

LEMMA StatePut ==
  ASSUME PlaceInv, TurnsInv, PutInv, NEW r \in due, r.op \in DirectoryOps, CliSyncSteps(r), ~Midway(r)
  PROVE  PutAs(dir.state, base)
<1>1. ASSUME NEW q \in due \ {r}, q.op \in {"pull", "push"} PROVE pc[q] \in {"start", "done"}
  BY <1>1, OneCommand DEF DirectoryOps
<1>. QED  BY <1>1 DEF PutInv, Midway, UnderWay

LEMMA PullKeepsPut ==
  ASSUME PlaceInv, TurnsInv, PutInv, NEW r \in due, r.op = "pull", CliSyncSteps(r), Moves(r)
  PROVE  PutInv'
<1>0. Progressing /\ PullPut(r) /\ r.op \in DirectoryOps
  BY DEF PlaceInv, PutInv, DirectoryOps
<1>1. ListRemote(r) \/ ListScripts(r) \/ WriteFiles(r) \/ RecordState(r)
  BY DEF CliSyncSteps, EditFile, RunStatus, StartPush, PushChange, PushReply, EndPush, RunWorkflowSet,
     WorkflowSetReply, At
<1>2. PushPut(r)'
  BY DEF PushPut
<1>3. CASE ListRemote(r) \/ ListScripts(r)
  <2>1. \E value : Goto(r, "scripts", value) \/ Goto(r, "local", value)
    BY <1>3, SMT DEF ListRemote, ListScripts
  <2>2. pc'[r] \in {"scripts", "local"} /\ pc[r] # "record" /\ UNCHANGED <<dir, base>>
    BY <1>0, <1>3, <2>1, GotoMoves DEF ListRemote, ListScripts, At, dirVars
  <2>. QED  BY <1>2, <2>2, QuietKeepsPut DEF PullPut, Midway
<1>4. CASE WriteFiles(r)
  <2>1. PICK next, gone :
          /\ base' = Over([p \in DOMAIN next |-> next[p].script], Without(base, gone))
          /\ Goto(r, "record", [state |-> Over(next, Without(dir.state, gone)), failed |-> FALSE])
    BY <1>4 DEF WriteFiles
  <2>2. PutAs(dir.state, base)
    <3>1. ~Midway(r)
      BY <1>4 DEF WriteFiles, At, Midway
    <3>. QED  BY <1>0, <3>1, StatePut
  <2>3. PICK state : state = Over(next, Without(dir.state, gone))
    OBVIOUS
  <2>4. PutAs(state, base')
    BY <2>1, <2>2, <2>3, PutOver
  <2>5. pc'[r] = "record" /\ held'[r].state = state
    BY <1>0, <2>1, <2>3, GotoMoves
  <2>. QED  BY <1>0, <1>2, <2>4, <2>5, CommandKeepsPut DEF PullPut, Midway
<1>5. CASE RecordState(r)
  <2>1. /\ pc'[r] = "done" /\ pc[r] = "record" /\ base' = base
        /\ dir' = [dir EXCEPT !.state = held[r].state, !.known = TRUE]
    BY <1>0, <1>5, GotoMoves DEF RecordState
  <2>2. dir'.state = held[r].state
    BY <2>1 DEF TurnsInv
  <2>3. PutAs(dir'.state, base')
    BY <1>0, <2>1, <2>2 DEF PullPut
  <2>. QED  BY <1>0, <1>2, <2>1, <2>3, CommandKeepsPut DEF PullPut
<1>. QED  BY <1>1, <1>3, <1>4, <1>5

\* What a push goes on with after it has looked at a change.
LEMMA PushChangeGoes ==
  ASSUME PlaceInv, NEW r \in due, PushChange(r)
  PROVE  \E change, todo :
           /\ change \in held[r].todo /\ todo = held[r].todo \ {change}
           /\ "outcome" \in DOMAIN held'[r] \/ pc'[r] = "next"
           /\ held'[r].state = held[r].state /\ held'[r].todo = todo
           /\ pc'[r] = "next" \/ (/\ pc'[r] = "post" /\ ~r.dry /\ held'[r].change = change
                                  /\ CheckChange(r.actor, change, r.force)
                                  /\ held'[r].item = IF change.status = "modified"
                                                     THEN change.entry.item ELSE Nothing
                                  /\ held'[r].checked = IF change.status = "modified"
                                                        THEN scripts[change.entry.item] ELSE NoScript)
<1>0. r.op = "push" /\ pc[r] = "next" /\ held[r].todo # {} /\ Progressing
  BY DEF PushChange, At, PlaceInv
<1>1. PICK change : change = (CHOOSE c \in held[r].todo : TRUE)
  OBVIOUS
<1>2. change \in held[r].todo
  BY <1>0, <1>1
<1>3. PICK todo : todo = held[r].todo \ {change}
  OBVIOUS
<1> DEFINE Goes ==
      /\ "outcome" \in DOMAIN held'[r] \/ pc'[r] = "next"
      /\ held'[r].state = held[r].state /\ held'[r].todo = todo
      /\ pc'[r] = "next" \/ (/\ pc'[r] = "post" /\ ~r.dry /\ held'[r].change = change
                             /\ CheckChange(r.actor, change, r.force)
                             /\ held'[r].item = IF change.status = "modified"
                                                THEN change.entry.item ELSE Nothing
                             /\ held'[r].checked = IF change.status = "modified"
                                                   THEN scripts[change.entry.item] ELSE NoScript)
<1> SUFFICES Goes
  BY <1>2, <1>3
<1>4. ASSUME NEW failed, Goto(r, "next", [state |-> held[r].state, todo |-> todo, failed |-> failed])
      PROVE  Goes
  BY <1>0, <1>4, GotoMoves
<1>5. ASSUME NEW failed, NEW row, NEW checked, NEW item, ~r.dry, CheckChange(r.actor, change, r.force),
             item = IF change.status = "modified" THEN change.entry.item ELSE Nothing,
             checked = IF change.status = "modified" THEN scripts[change.entry.item] ELSE NoScript,
             Goto(r, "post", [state |-> held[r].state, todo |-> todo,
                              failed |-> failed, kind |-> change.kind, item |-> item, row |-> row,
                              valid |-> TRUE, previous |-> NoScript, outcome |-> "none",
                              change |-> change, checked |-> checked])
      PROVE  Goes
  BY <1>0, <1>5, GotoMoves
<1> HIDE DEF Goes
<1>6. CASE CheckChange(r.actor, change, r.force) /\ ~r.dry
  <2>1. \E failed, row, checked, item :
          /\ item = IF change.status = "modified" THEN change.entry.item ELSE Nothing
          /\ checked = IF change.status = "modified" THEN scripts[change.entry.item] ELSE NoScript
          /\ Goto(r, "post", [state |-> held[r].state, todo |-> held[r].todo \ {change},
                              failed |-> failed, kind |-> change.kind, item |-> item, row |-> row,
                              valid |-> TRUE, previous |-> NoScript, outcome |-> "none",
                              change |-> change, checked |-> checked])
    BY <1>1, <1>6, Zenon DEF PushChange
  <2>. QED  BY <1>3, <1>5, <1>6, <2>1, Zenon
<1>7. CASE CheckChange(r.actor, change, r.force) /\ r.dry
  <2>1. \E failed : Goto(r, "next", [state |-> held[r].state, todo |-> held[r].todo \ {change},
                                     failed |-> failed])
    BY <1>1, <1>7, Zenon DEF PushChange
  <2>. QED  BY <1>3, <1>4, <2>1, Zenon
<1>8. CASE ~CheckChange(r.actor, change, r.force)
  <2>1. \A a, b, c, d : [[state |-> a, todo |-> b, failed |-> c] EXCEPT !.failed = d] =
                        [state |-> a, todo |-> b, failed |-> d]
    OBVIOUS
  <2>2. PICK rest : /\ Goto(r, "next", rest)
                    /\ rest = [[state |-> held[r].state, todo |-> held[r].todo \ {change},
                                failed |-> held[r].failed] EXCEPT !.failed = TRUE]
    BY <1>1, <1>8, Zenon DEF PushChange
  <2>3. rest = [state |-> held[r].state, todo |-> todo, failed |-> TRUE]
    BY <1>3, <2>1, <2>2, Zenon
  <2>. QED  BY <1>4, <2>2, <2>3, Zenon
<1>. QED  BY <1>6, <1>7, <1>8

\* The server's part of a push: it goes on with what it holds.
LEMMA PushGoes ==
  ASSUME PlaceInv, AccessInv, NEW r \in due, r.op = "push", ScriptsSteps(r)
  PROVE  SaveGoes(r, held[r]) /\ pc[r] \in ChangeLabels \cup {"post"}
<1>1. CASE HandleSaveScript(r)
  BY <1>1, SaveBegins
<1>2. CASE ~HandleSaveScript(r)
  <2>1. \/ FindPrevious(r) \/ CreateScript(r) \/ MergeScript(r) \/ WriteScriptRow(r)
        \/ WriteScriptFile(r) \/ RemoveOldFile(r) \/ GrantResourceOwner(r)
    BY <1>2 DEF ScriptsSteps, HandleDeleteScript, FindDeleted, DeleteRowOfScript, RemoveScriptFile,
       HandlePublish, ReadForm, WriteToken, GetScript, GetPublishedForm, HandleWorkflowWebhook, At, PublishOps
  <2>. QED  BY <2>1, SaveOn DEF SaveOps, Changing
<1>. QED  BY <1>1, <1>2

LEMMA ChangesPut ==
  ASSUME PutAs(dir.state, base), NEW actor, NEW changes, changes \subseteq LocalChanges(actor)
  PROVE  /\ \A c \in changes : ChangePut(c, base)
         /\ \A c, d \in changes : c.path = d.path => c = d
<1> DEFINE Modified(p) == [path |-> p, status |-> "modified", kind |-> p[1], script |-> dir.files[p],
                           entry |-> dir.state[p]]
           New(p) ==
             LET matching == {d \in VisibleNames(actor) : Segment(d) = p[2]}
                 valid    == matching # {} /\ Segment(p[3]) = p[3]
             IN  [path |-> p, status |-> IF valid THEN "new" ELSE "invalid", kind |-> p[1],
                  script |-> dir.files[p],
                  entry |-> IF valid THEN [db |-> CHOOSE d \in matching : TRUE, name |-> p[3]] ELSE Nothing]
           Change(p) == IF p \in DOMAIN dir.state THEN Modified(p) ELSE New(p)
<1>1. \A c \in changes : \E p : c = Change(p)
  BY DEF LocalChanges
<1>2. \A p : /\ Change(p).path = p
             /\ Change(p).status = "modified" => p \in DOMAIN dir.state /\ Change(p).entry = dir.state[p]
  OBVIOUS
<1> HIDE DEF Change
<1>. QED  BY <1>1, <1>2 DEF ChangePut, PutAs

LEMMA PushReplyKeepsPut ==
  ASSUME PlaceInv, TurnsInv, PutInv, NEW r \in due, PushReply(r), Moves(r)
  PROVE  PutInv'
<1>0. /\ Progressing /\ r.op = "push" /\ pc[r] = "reply" /\ PushPut(r) /\ r.op \in DirectoryOps
      /\ CliSyncSteps(r)
  BY DEF PlaceInv, PutInv, PushReply, At, DirectoryOps, CliSyncSteps
<1>1. PICK path, entry, script :
        path = held[r].change.path /\ entry = Entry(held[r].item, held[r].row) /\ script = held[r].row.script
  OBVIOUS
<1>2. PICK state, failed :
        /\ Goto(r, "next", [state |-> state, todo |-> held[r].todo, failed |-> failed])
        /\ state = IF held[r].outcome = "ok" THEN Put(held[r].state, path, entry) ELSE held[r].state
        /\ base' = IF held[r].outcome = "ok" THEN Put(base, path, script) ELSE base
  BY <1>1 DEF PushReply
<1>3. PICK todo : todo = held[r].todo
  OBVIOUS
<1>4. pc'[r] = "next" /\ held'[r].state = state /\ held'[r].todo = todo
  BY <1>0, <1>2, <1>3, GotoMoves
<1>5. /\ ~r.dry /\ PutAs(held[r].state, base)
      /\ \A c \in todo : ChangePut(c, base) /\ c.path # path
      /\ \A c, d \in todo : c.path = d.path => c = d
  BY <1>0, <1>1, <1>3 DEF PushPut, UnderWay
<1>6. PutAs(state, base') /\ \A c \in todo : ChangePut(c, base')
  <2>1. entry.script = script
    BY <1>1 DEF Entry
  <2>. QED  BY <1>2, <1>5, <2>1 DEF PutAs, ChangePut, Put
<1>7. PushPut(r)'
  BY <1>4, <1>5, <1>6 DEF PushPut
<1>. QED  BY <1>0, <1>4, <1>5, <1>7, CommandKeepsPut DEF PullPut, Midway, UnderWay

LEMMA PushKeepsPut ==
  ASSUME PlaceInv, TurnsInv, PutInv, NEW r \in due, r.op = "push", CliSyncSteps(r), Moves(r)
  PROVE  PutInv'
<1>0. Progressing /\ PushPut(r) /\ r.op \in DirectoryOps
  BY DEF PlaceInv, PutInv, DirectoryOps
<1>1. StartPush(r) \/ PushChange(r) \/ PushReply(r) \/ EndPush(r) \/ RecordState(r)
  BY DEF CliSyncSteps, EditFile, ListRemote, ListScripts, WriteFiles, RunStatus, RunWorkflowSet,
     WorkflowSetReply, At
<1>2. PullPut(r)'
  BY DEF PullPut
<1>3. CASE StartPush(r)
  <2>1. pc[r] = "start" /\ UNCHANGED <<dir, base>>
    BY <1>3 DEF StartPush, At, dirVars
  <2>2. ~Midway(r)
    BY <2>1 DEF Midway, UnderWay
  <2>3. CASE pc'[r] = "done"
    BY <1>2, <2>1, <2>2, <2>3, QuietKeepsPut DEF PushPut, UnderWay
  <2>4. CASE pc'[r] # "done"
    <3>1. PICK changes, failed :
            /\ changes \subseteq LocalChanges(r.actor)
            /\ Goto(r, "next", [state |-> dir.state, todo |-> changes, failed |-> failed])
      BY <1>0, <1>3, <2>4, GotoMoves DEF StartPush
    <3>2. pc'[r] = "next" /\ held'[r].state = dir.state /\ held'[r].todo = changes
      BY <1>0, <3>1, GotoMoves
    <3>3. PutAs(dir.state, base)
      BY <1>0, <2>2, StatePut
    <3>4. /\ \A c \in changes : ChangePut(c, base)
          /\ \A c, d \in changes : c.path = d.path => c = d
      BY <3>1, <3>3, ChangesPut
    <3>5. PushPut(r)'
      BY <2>1, <3>2, <3>3, <3>4 DEF PushPut
    <3>. QED  BY <1>2, <2>1, <2>2, <3>5, QuietKeepsPut
  <2>. QED  BY <2>3, <2>4
<1>4. CASE PushChange(r)
  <2>1. pc[r] = "next" /\ UNCHANGED <<dir, base>>
    BY <1>4 DEF PushChange, At, dirVars
  <2>2. PICK change, todo :
          /\ change \in held[r].todo /\ todo = held[r].todo \ {change}
          /\ held'[r].state = held[r].state /\ held'[r].todo = todo
          /\ pc'[r] = "next" \/ (pc'[r] = "post" /\ ~r.dry /\ held'[r].change = change)
    BY <1>4, PushChangeGoes
  <2>3. PushPut(r)'
    BY <1>0, <2>1, <2>2 DEF PushPut, UnderWay
  <2>4. Midway(r) => Midway(r)'
    BY <2>2 DEF Midway, UnderWay
  <2>. QED  BY <1>2, <2>1, <2>3, <2>4, QuietKeepsPut
<1>5. CASE EndPush(r)
  <2>1. pc[r] = "next" /\ UNCHANGED <<dir, base>>
    BY <1>5 DEF EndPush, At, dirVars
  <2>2. \/ pc'[r] = "done" /\ r.dry
        \/ pc'[r] = "record" /\ held'[r].state = held[r].state /\ ~r.dry
    BY <1>0, <1>5, GotoMoves DEF EndPush
  <2>. QED  BY <1>0, <1>2, <2>1, <2>2, QuietKeepsPut DEF PushPut, Midway, UnderWay
<1>6. CASE RecordState(r)
  <2>1. /\ pc'[r] = "done" /\ pc[r] = "record" /\ base' = base
        /\ dir' = [dir EXCEPT !.state = held[r].state, !.known = TRUE]
    BY <1>0, <1>6, GotoMoves DEF RecordState
  <2>2. dir'.state = held[r].state
    BY <2>1 DEF TurnsInv
  <2>3. PutAs(dir'.state, base')
    BY <1>0, <2>1, <2>2 DEF PushPut, UnderWay
  <2>. QED  BY <1>0, <1>2, <2>1, <2>3, CommandKeepsPut DEF PushPut, UnderWay
<1>. QED  BY <1>1, <1>3, <1>4, <1>5, <1>6, PushReplyKeepsPut

LEMMA CliSyncKeepsPut ==
  ASSUME PlaceInv, TurnsInv, PutInv, NEW r \in due, CliSyncSteps(r), Moves(r)
  PROVE  PutInv'
<1>1. CASE r.op \in {"pull", "push"}
  BY <1>1, PullKeepsPut, PushKeepsPut
<1>2. CASE r.op \notin {"pull", "push"}
  <2>0. PullPut(r)' /\ PushPut(r)' /\ ~Midway(r)
    BY <1>2 DEF PullPut, PushPut, Midway
  <2>1. EditFile(r) \/ dir' = dir
    <3>1. ~(WriteFiles(r) \/ RecordState(r))
      BY <1>2 DEF WriteFiles, RecordState, At
    <3>. QED  BY <3>1, CommandsRead
  <2>2. base' = base
    <3>1. ~(ListRemote(r) \/ ListScripts(r) \/ WriteFiles(r) \/ RecordState(r))
      BY <1>2 DEF ListRemote, ListScripts, WriteFiles, RecordState, At
    <3>2. ~(StartPush(r) \/ PushChange(r) \/ PushReply(r) \/ EndPush(r))
      BY <1>2 DEF StartPush, PushChange, PushReply, EndPush, At
    <3>3. EditFile(r) \/ RunStatus(r) \/ RunWorkflowSet(r) \/ WorkflowSetReply(r) => base' = base
      BY Zenon DEF EditFile, RunStatus, RunWorkflowSet, WorkflowSetReply, dirVars
    <3>. QED  BY <3>1, <3>2, <3>3 DEF CliSyncSteps
  <2>3. CASE EditFile(r)
    <3>1. r.op \in DirectoryOps /\ \E files : dir' = [dir EXCEPT !.files = files]
      BY <2>3 DEF EditFile, At, DirectoryOps
    <3>2. dir'.state = dir.state
      BY <3>1
    <3>3. PutAs(dir'.state, base')
      BY <2>0, <2>2, <3>1, <3>2, StatePut
    <3>. QED  BY <2>0, <3>1, <3>3, CommandKeepsPut
  <2>4. CASE dir' = dir
    BY <2>0, <2>2, <2>4, QuietKeepsPut
  <2>. QED  BY <2>1, <2>3, <2>4
<1>. QED  BY <1>1, <1>2

\* The server's part of a push leaves its changes as they are.
LEMMA ScriptsKeepPut ==
  ASSUME PlaceInv, AccessInv, PutInv, NEW r \in due, ScriptsSteps(r), Moves(r), UNCHANGED dirVars
  PROVE  PutInv'
<1>0. UNCHANGED <<dir, base>> /\ PushPut(r)
  BY DEF dirVars, PutInv
<1>1. CASE r.op # "push"
  <2>1. r.op # "pull"
    BY ScriptsMoves DEF Steps, ScriptsOps, ChangeOps, SaveOps, PlaceInv
  <2>. QED  BY <1>0, <1>1, <2>1, QuietKeepsPut DEF PullPut, PushPut, Midway
<1>2. CASE r.op = "push"
  <2>1. /\ SaveGoes(r, held[r]) /\ pc[r] \in ChangeLabels \cup {"post"}
    BY <1>2, PushGoes
  <2>2. /\ UnderWay(r) /\ pc[r] \notin {"next", "record"}
        /\ UnderWay(r)' /\ pc'[r] \notin {"next", "record"}
    BY <2>1 DEF UnderWay, ChangeLabels, SaveGoes
  <2>3. /\ held'[r].state = held[r].state /\ held'[r].todo = held[r].todo
        /\ held'[r].change = held[r].change
    BY <2>1 DEF SaveGoes, Carried
  <2>4. PushPut(r)'
    BY <1>0, <1>2, <2>2, <2>3 DEF PushPut
  <2>. QED  BY <1>0, <1>2, <2>2, <2>4, QuietKeepsPut DEF PullPut, Midway
<1>. QED  BY <1>1, <1>2

LEMMA InitBase == Init => BaseInv
<1> SUFFICES ASSUME Init PROVE PutInv
  BY DEF BaseInv
<1>1. (\A r \in due : pc[r] = "start") /\ dir = [files |-> <<>>, state |-> <<>>, known |-> FALSE]
  BY DEF Init, RequestsInit, CliSyncInit
<1>2. PutAs(dir.state, base)
  BY <1>1 DEF PutAs
<1>. QED  BY <1>1, <1>2 DEF PutInv, PullPut, PushPut, UnderWay

LEMMA NextPut ==
  ASSUME PlaceInv, AccessInv, TurnsInv, PutInv, [Next]_vars, faults \in Nat, faults' = faults
  PROVE  PutInv'
<1>0. Progressing /\ Placed
  BY DEF PlaceInv
<1>1. ASSUME NEW r \in due, CliSyncSteps(r) PROVE PutInv'
  BY <1>0, <1>1, CliSyncMoves, CliSyncKeepsPut DEF Steps
<1>2. CASE UNCHANGED dirVars
  <2>0. UNCHANGED <<dir, base>>
    BY <1>2 DEF dirVars
  <2>1. ASSUME NEW r \in due, NEW ops, Steps(r, ops), ops \cap {"pull", "push"} = {} PROVE PutInv'
    BY <2>0, <2>1, QuietKeepsPut DEF Steps, PullPut, PushPut, Midway
  <2>2. ASSUME NEW r \in due, Steps(r, ScriptsOps), ScriptsSteps(r) PROVE PutInv'
    BY <1>2, <2>2, ScriptsKeepPut DEF Steps
  <2>3. UNCHANGED requestVars => PutInv'
    BY <2>0 DEF requestVars, PutInv, PullPut, PushPut, Midway, UnderWay
  <2>4. ~Restart /\ \A r \in due : ~Fail(r)
    BY DEF Restart, Fail, StatementFails
  <2>5. /\ SignInOps \cap {"pull", "push"} = {} /\ AccessOps \cap {"pull", "push"} = {}
        /\ CatalogOps \cap {"pull", "push"} = {}
    BY DEF SignInOps, AccessOps, CatalogOps
  <2>6. (Tick \/ (\E r \in due, b \in Browsers : AuthorizePage(r, b)) \/ (\E page \in shown : Authorize(page)))
        => UNCHANGED requestVars
    BY DEF Tick, AuthorizePage, Authorize, requestVars
  <2>7. UNCHANGED vars => UNCHANGED requestVars
    BY DEF vars
  <2>. QED  BY <1>0, <1>1, <2>1, <2>2, <2>3, <2>4, <2>5, <2>6, <2>7, WhoseStep
<1>. QED  BY <1>1, <1>2, DirStays

LEMMA NextBase == PlaceInv /\ AccessInv /\ TurnsInv /\ SoundInv /\ BaseInv /\ [Next]_vars => BaseInv'
<1> SUFFICES ASSUME PlaceInv, AccessInv, TurnsInv, SoundInv, BaseInv, [Next]_vars, faults' = 0 PROVE PutInv'
  BY DEF BaseInv
<1>1. faults \in Nat /\ faults' \in {faults, faults + 1}
  BY FaultsCount DEF SoundInv
<1>2. faults = 0
  BY <1>1
<1>. QED  BY <1>1, <1>2, NextPut DEF BaseInv

\* pull without force leaves every file alone that is not as pull or push put it there
\* last, whatever the server sends: writeFiles and saveState of src/internal/ctl/sync.go.
\* After a command that was killed, a file goes as well that is as the state says.
THEOREM PullsKeepEdits == Spec => PullKeepsEdits
<1> DEFINE KeepsEdits == \A r \in due :
      (r.op = "pull" /\ pc[r] = "local" /\ ~r.force) =>
        \A p \in DOMAIN dir.files :
          \/ p \in DOMAIN dir'.files /\ dir'.files[p] = dir.files[p]
          \/ p \in DOMAIN base /\ dir.files[p] = base[p]
          \/ faults > 0 /\ p \in DOMAIN dir.state /\ dir.files[p] = dir.state[p].script
<1>1. ASSUME PlaceInv, TurnsInv, SoundInv, BaseInv, [Next]_vars PROVE KeepsEdits
  <2> SUFFICES ASSUME NEW r \in due, r.op = "pull", pc[r] = "local", ~r.force,
                      NEW p \in DOMAIN dir.files, dir' # dir
               PROVE  \/ p \in DOMAIN dir'.files /\ dir'.files[p] = dir.files[p]
                      \/ p \in DOMAIN base /\ dir.files[p] = base[p]
                      \/ faults > 0 /\ p \in DOMAIN dir.state /\ dir.files[p] = dir.state[p].script
    OBVIOUS
  <2>1. r.op \in DirectoryOps
    BY DEF DirectoryOps
  <2>2. ASSUME NEW q \in due, CliSyncSteps(q) PROVE q = r
    <3>1. q.op \in DirectoryOps
      BY <2>2, CommandsRead DEF EditFile, WriteFiles, RecordState, At, DirectoryOps
    <3>. QED  BY <1>1, <2>1, <2>2, <3>1, OneCommand
  <2>3. CliSyncSteps(r)
    BY <1>1, <2>2, DirStays DEF dirVars
  <2>4. WriteFiles(r)
    BY <2>3 DEF CliSyncSteps, EditFile, ListRemote, ListScripts, RecordState, RunStatus, StartPush, PushChange,
       PushReply, EndPush, RunWorkflowSet, WorkflowSetReply, At
  <2>5. \/ p \in DOMAIN dir'.files /\ dir'.files[p] = dir.files[p]
        \/ p \in DOMAIN dir.state /\ dir.files[p] = dir.state[p].script
    BY <1>1, <2>4, WriteFilesKeepsEdits DEF TurnsInv
  <2>6. CASE faults = 0
    <3>1. PutInv /\ ~Midway(r)
      BY <1>1, <2>6 DEF BaseInv, Midway
    <3>2. PutAs(dir.state, base)
      BY <1>1, <2>1, <2>3, <3>1, StatePut
    <3>. QED  BY <2>5, <3>2 DEF PutAs
  <2>7. CASE faults # 0
    <3>1. faults > 0
      BY <1>1, <2>7 DEF SoundInv
    <3>. QED  BY <2>5, <3>1
  <2>. QED  BY <2>6, <2>7
<1>2. PlaceInv /\ TurnsInv /\ SoundInv /\ BaseInv /\ [Next]_vars => [KeepsEdits]_vars
  BY <1>1
<1>3. Spec => [](PlaceInv /\ AccessInv /\ TurnsInv /\ SoundInv /\ BaseInv)
  BY InitPlaced, NextPlaced, InitAccess, NextAccess, InitTurns, NextTurns, InitSound, NextSound,
     InitBase, NextBase, PTL DEF Spec
<1>. QED  BY <1>2, <1>3, PTL DEF Spec, PullKeepsEdits

\* A row that a step writes has its columns.
LEMMA RowOfStep ==
  ASSUME PlaceInv, AccessInv, NEW r \in due, CreateScript(r) \/ WriteScriptRow(r) \/ WriteToken(r),
         ~UNCHANGED scriptVars
  PROVE  \E i \in ScriptIds : \E row : DOMAIN row = Columns /\ WriteRow(i, row)
<1>1. CASE CreateScript(r)
  <2>1. /\ r.op \in SaveOps /\ pc[r] = "row" /\ Changing(r)
        /\ made[held[r].kind] < Len(IdsOf(held[r].kind))
    BY <1>1 DEF CreateScript, Changing, ChangeOps, ChangeLabels
  <2>2. PICK kind \in ItemScopes : kind = held[r].kind
    BY <2>1 DEF AccessInv, Pending, SavePending
  <2>3. PICK row, id : row = held[r].row /\ id = NextScriptId(kind)
    OBVIOUS
  <2>4. DOMAIN row = Columns /\ id \in ScriptIds
    BY <2>1, <2>2, <2>3, NextIdIsNew DEF AccessInv, Pending, SavePending
  <2>5. IF kind = "workflow" THEN CreateWorkflow(row) ELSE Create(kind, row)
    BY <1>1, <2>2, <2>3 DEF CreateScript
  <2>6. DOMAIN [row EXCEPT !.enabled = TRUE] = Columns
    BY <2>4
  <2>. QED  BY <2>3, <2>4, <2>5, <2>6 DEF CreateWorkflow, Create
<1>2. CASE WriteScriptRow(r)
  <2>1. r.op \in SaveOps /\ pc[r] = "write" /\ Changing(r)
    BY <1>2 DEF WriteScriptRow, Changing, ChangeOps, ChangeLabels
  <2>2. HandedOut(held[r].item) /\ DOMAIN held[r].row = Columns
    BY <2>1 DEF AccessInv, Pending, SavePending
  <2>3. WriteRow(held[r].item, held[r].row)
    BY <1>2 DEF WriteScriptRow, SaveScript
  <2>. QED  BY <2>2, <2>3, HandedOutIds
<1>3. CASE WriteToken(r)
  <2>1. r.op \in PublishOps /\ pc[r] = "token" /\ held[r].row # NoScript /\ Changing(r)
    BY <1>3 DEF WriteToken, Changing, ChangeOps, ChangeLabels, PublishOps
  <2>2. PICK i, row : i = r.item /\ row = held[r].row
    OBVIOUS
  <2>3. HandedOut(i) /\ DOMAIN row = Columns
    BY <2>1, <2>2 DEF AccessInv, Pending, ItemPending
  <2>4. PICK v : WriteRow(i, v) /\ v \in {row, MergedForm(scripts[i], row)}
    BY <1>3, <2>2 DEF WriteToken, SaveScript
  <2>5. DOMAIN v = Columns
    BY <2>3, <2>4 DEF MergedForm
  <2>. QED  BY <2>3, <2>4, <2>5, HandedOutIds
<1>. QED  BY <1>1, <1>2, <1>3

-----------------------------------------------------------------------------
(* Push keeps the scripts of others.                                       *)

\* A script that the row had at that time, and has when it was not written since; but
\* for a row that was written twice at one time.
Faithful(i, at, script) ==
  \/ i \in coincided
  \/ /\ at \in Nat /\ at <= stamp
     /\ (Exists(i) /\ scripts[i].at = at) => scripts[i].script = script

Recorded(e) == e.item \in torn \/ Faithful(e.item, e.at, e.script)
AllRecorded(state) == \A p \in DOMAIN state : Recorded(state[p])

\* A pull holds what it was sent.
PullSeen(r) ==
  r.op = "pull" =>
    /\ pc[r] = "scripts" =>
         \A i \in DOMAIN held[r].rows : Faithful(i, held[r].rows[i].at, held[r].rows[i].script)
    /\ pc[r] = "local" => AllRecorded(held[r].remote)
    /\ pc[r] = "record" => AllRecorded(held[r].state)

ChangeSeen(c) == c.status = "modified" => Recorded(c.entry)

\* push has looked at what it is to replace, and holds what it has written.
Looked(h, force) ==
  /\ h.change.status = "modified" /\ h.item = h.change.entry.item
  /\ h.checked # NoScript /\ (force \/ h.checked.at = h.change.entry.at)

PushSeen(r) ==
  (r.op = "push" /\ pc[r] \notin {"start", "done"}) =>
    /\ AllRecorded(held[r].state)
    /\ pc[r] # "record" => \A c \in held[r].todo : ChangeSeen(c)
    /\ pc[r] \notin {"record", "next"} => "outcome" \in DOMAIN held[r] /\ ChangeSeen(held[r].change)
    /\ (pc[r] \in {"post", "previous", "row", "write"} /\ held[r].item # Nothing) => Looked(held[r], r.force)
    /\ (pc[r] \in {"file", "oldFile", "owner"} \/ (pc[r] = "reply" /\ held[r].outcome = "ok")) =>
         Faithful(held[r].item, held[r].row.at, held[r].row.script)

\* No row has a time to come.
StampsInv ==
  stamp \in Nat /\ \A i \in ScriptIds : Exists(i) => scripts[i].at \in Nat /\ scripts[i].at <= stamp

SeenInv ==
  StampsInv /\ AllRecorded(dir.state) /\ \A r \in due : PullSeen(r) /\ PushSeen(r)

\* What is seen stays true: rows that are written get a later time, or are known to
\* have got the same.
Later ==
  /\ stamp \in Nat /\ stamp' \in Nat /\ stamp <= stamp'
  /\ torn \subseteq torn' /\ coincided \subseteq coincided'
  /\ \A i : Exists(i)' =>
       \/ scripts'[i] = scripts[i] \/ i \in coincided'
       \/ scripts'[i].at \in Nat /\ scripts'[i].at > stamp

LEMMA SeenStays ==
  ASSUME Later
  PROVE  /\ \A i, at, script : Faithful(i, at, script) => Faithful(i, at, script)'
         /\ \A e : Recorded(e) => Recorded(e)'
         /\ \A state : AllRecorded(state) => AllRecorded(state)'
         /\ \A c : ChangeSeen(c) => ChangeSeen(c)'
<1>1. \A i, at, script : Faithful(i, at, script) => Faithful(i, at, script)'
  <2> SUFFICES ASSUME NEW i, NEW at, NEW script, Faithful(i, at, script) PROVE Faithful(i, at, script)'
    OBVIOUS
  <2>1. CASE i \in coincided'
    BY <2>1 DEF Faithful
  <2>2. CASE i \notin coincided'
    <3>1. /\ at \in Nat /\ at <= stamp /\ at <= stamp'
          /\ (Exists(i) /\ scripts[i].at = at) => scripts[i].script = script
      BY <2>2 DEF Faithful, Later
    <3>2. ASSUME Exists(i)', scripts'[i].at = at PROVE scripts'[i].script = script
      <4>1. scripts'[i] = scripts[i]
        BY <2>2, <3>1, <3>2 DEF Later
      <4>. QED  BY <3>1, <3>2, <4>1 DEF Exists
    <3>. QED  BY <3>1, <3>2 DEF Faithful
  <2>. QED  BY <2>1, <2>2
<1>2. \A e : Recorded(e) => Recorded(e)'
  BY <1>1 DEF Recorded, Later
<1>. QED  BY <1>1, <1>2 DEF AllRecorded, ChangeSeen

\* A row is written, or rows stay as they are or go.
LEMMA WrittenLater ==
  ASSUME AccessInv, StampsInv, NEW i \in ScriptIds, NEW row, DOMAIN row = Columns, WriteRow(i, row),
         torn \subseteq torn'
  PROVE  Later /\ StampsInv'
<1>1. /\ \A j \in ScriptIds : j # i => scripts'[j] = scripts[j]
      /\ scripts'[i].at = stamp' /\ coincided \subseteq coincided'
      /\ stamp' = stamp + 1 \/ (stamp' = stamp /\ i \in coincided')
  BY RowIsWritten
<1>2. stamp \in Nat /\ stamp' \in Nat /\ stamp <= stamp' /\ (stamp' > stamp \/ i \in coincided')
  BY <1>1 DEF StampsInv
<1>3. Later
  BY <1>1, <1>2 DEF Later, Exists
<1>4. ASSUME NEW j \in ScriptIds, Exists(j)' PROVE scripts'[j].at \in Nat /\ scripts'[j].at <= stamp'
  BY <1>1, <1>2, <1>4 DEF StampsInv, Exists
<1>. QED  BY <1>2, <1>3, <1>4 DEF StampsInv

LEMMA KeptLater ==
  ASSUME StampsInv, UNCHANGED <<stamp, coincided>>, torn \subseteq torn',
         \A i \in ScriptIds : scripts'[i] = scripts[i] \/ scripts'[i] = NoScript
  PROVE  Later /\ StampsInv'
<1>1. \A i : Exists(i)' => Exists(i) /\ scripts'[i] = scripts[i]
  BY DEF Exists
<1>. QED  BY <1>1 DEF Later, StampsInv

LEMMA CliSyncLater ==
  ASSUME StampsInv, NEW r \in due, CliSyncSteps(r)
  PROVE  Later /\ StampsInv'
<1>1. UNCHANGED scriptVars
  BY CliSyncLeavesServer DEF storeVars
<1>2. torn \subseteq torn'
  <2> USE DEF dirVars
  <2>1. CASE EditFile(r) \/ ListRemote(r) \/ WriteFiles(r) \/ RecordState(r) \/ RunStatus(r)
    BY <2>1 DEF EditFile, ListRemote, WriteFiles, RecordState, RunStatus
  <2>2. CASE StartPush(r) \/ PushChange(r) \/ PushReply(r) \/ EndPush(r) \/ RunWorkflowSet(r) \/ WorkflowSetReply(r)
    BY <2>2, Zenon DEF StartPush, PushChange, PushReply, EndPush, RunWorkflowSet, WorkflowSetReply
  <2>3. CASE ListScripts(r)
    <3>1. \E more : torn' = torn \cup more
      BY <2>3, Zenon DEF ListScripts
    <3>. QED  BY <3>1
  <2>. QED  BY <2>1, <2>2, <2>3 DEF CliSyncSteps
<1>. QED  BY <1>1, <1>2, KeptLater DEF scriptVars

LEMMA ScriptsLater ==
  ASSUME PlaceInv, AccessInv, StampsInv, NEW r \in due, ScriptsSteps(r), torn' = torn
  PROVE  Later /\ StampsInv'
<1> USE DEF scriptVars, storeVars
<1>0. UNCHANGED scriptVars => Later /\ StampsInv'
  BY KeptLater
<1>1. CASE HandleSaveScript(r) \/ FindPrevious(r) \/ MergeScript(r) \/ WriteScriptFile(r) \/ RemoveOldFile(r)
           \/ GrantResourceOwner(r)
  <2>1. UNCHANGED scriptVars
    BY <1>1 DEF HandleSaveScript, FindPrevious, MergeScript, WriteScriptFile, RemoveOldFile, GrantResourceOwner
  <2>. QED  BY <1>0, <2>1
<1>2. CASE HandleDeleteScript(r) \/ FindDeleted(r) \/ RemoveScriptFile(r) \/ HandlePublish(r) \/ ReadForm(r)
           \/ GetScript(r) \/ GetPublishedForm(r) \/ HandleWorkflowWebhook(r)
  <2>1. UNCHANGED scriptVars
    BY <1>2 DEF HandleDeleteScript, FindDeleted, RemoveScriptFile, HandlePublish, ReadForm, GetScript,
       GetPublishedForm, HandleWorkflowWebhook
  <2>. QED  BY <1>0, <2>1
<1>3. CASE DeleteRowOfScript(r)
  <2>1. scripts' = [scripts EXCEPT ![r.item] = NoScript] /\ UNCHANGED <<stamp, coincided>>
    BY <1>3 DEF DeleteRowOfScript, DeleteScriptRow
  <2>. QED  BY <2>1, KeptLater DEF AccessInv, IdsInv
<1>4. CASE CreateScript(r) \/ WriteScriptRow(r) \/ WriteToken(r)
  <2>1. CASE UNCHANGED scriptVars
    BY <1>0, <2>1
  <2>2. CASE ~UNCHANGED scriptVars
    <3>1. \E i \in ScriptIds : \E row : DOMAIN row = Columns /\ WriteRow(i, row)
      BY <1>4, <2>2, RowOfStep
    <3>. QED  BY <3>1, WrittenLater
  <2>. QED  BY <2>1, <2>2
<1>. QED  BY <1>1, <1>2, <1>3, <1>4 DEF ScriptsSteps

LEMMA CatalogLeavesScripts ==
  ASSUME NEW r \in due, CatalogSteps(r)
  PROVE  UNCHANGED scriptVars
<1> USE DEF storeVars
<1>1. CASE CreateDatabase(r) \/ OwnDatabase(r) \/ AuthorizeTable(r) \/ ChangeTables(r)
           \/ AuthorizePatch(r) \/ ChangeTable(r) \/ ReadRows(r) \/ SyncRow(r)
  BY <1>1 DEF CreateDatabase, OwnDatabase, AuthorizeTable, ChangeTables, AuthorizePatch, ChangeTable,
     ReadRows, SyncRow
<1>2. CASE SaveCatalog(r) \/ AuthorizeFields(r) \/ MoveField(r) \/ CreateFields(r) \/ EnsureFields(r)
  BY <1>2 DEF SaveCatalog, AuthorizeFields, MoveField, CreateFields, EnsureFields
<1>3. CASE QueryRows(r) \/ AuthorizeRow(r) \/ ReadRow(r) \/ AddRow(r) \/ WriteTableRow(r)
           \/ AuthorizeDelete(r) \/ DeleteTableRow(r)
  BY <1>3 DEF QueryRows, AuthorizeRow, ReadRow, AddRow, WriteTableRow, AuthorizeDelete, DeleteTableRow
<1>. QED  BY <1>1, <1>2, <1>3 DEF CatalogSteps

LEMMA NextLater ==
  ASSUME PlaceInv, AccessInv, StampsInv, [Next]_vars
  PROVE  Later /\ StampsInv'
<1>0. Progressing /\ Placed
  BY DEF PlaceInv
<1>1. ASSUME NEW r \in due, CliSyncSteps(r) PROVE Later /\ StampsInv'
  BY <1>1, CliSyncLater
<1>2. CASE UNCHANGED dirVars
  <2>0. torn' = torn
    BY <1>2 DEF dirVars
  <2>1. UNCHANGED <<scripts, stamp, coincided>> => Later /\ StampsInv'
    BY <2>0, KeptLater
  <2>2. ASSUME NEW r \in due, ScriptsSteps(r) PROVE Later /\ StampsInv'
    BY <2>0, <2>2, ScriptsLater
  <2>3. ASSUME NEW r \in due, AccessSteps(r) \/ CatalogSteps(r) PROVE UNCHANGED <<scripts, stamp, coincided>>
    BY <2>3, AccessLeavesScripts, CatalogLeavesScripts DEF scriptVars
  <2>4. Restart \/ (\E r \in due : Fail(r)) \/ UNCHANGED vars => UNCHANGED <<scripts, stamp, coincided>>
    BY DEF Restart, Fail, vars, storeVars, scriptVars
  <2>5. (\/ \E r \in due : SignInSteps(r)
         \/ \E c \in callbacks : \E r \in due : Callback(c)
         \/ Tick \/ (\E r \in due, b \in Browsers : AuthorizePage(r, b))
         \/ \E page \in shown : Authorize(page)) => UNCHANGED <<scripts, stamp, coincided>>
    BY SignInRests DEF scriptVars
  <2>. QED  BY <1>0, <1>1, <2>1, <2>2, <2>3, <2>4, <2>5, WhoseStep
<1>. QED  BY <1>1, <1>2, DirStays

LEMMA HeldSeen ==
  ASSUME Later, NEW r, pc'[r] = pc[r], held'[r] = held[r], PullSeen(r), PushSeen(r)
  PROVE  PullSeen(r)' /\ PushSeen(r)'
<1>1. PICK h : h = held[r]
  OBVIOUS
<1>2. PullSeen(r)'
  BY <1>1, SeenStays DEF PullSeen
<1>3. PushSeen(r)'
  BY <1>1, SeenStays DEF PushSeen, Looked
<1>. QED  BY <1>2, <1>3

LEMMA DoneSeen ==
  ASSUME NEW r, pc'[r] = "done" \/ r.op \notin {"pull", "push"}
  PROVE  PullSeen(r)' /\ PushSeen(r)'
  BY DEF PullSeen, PushSeen

\* A save that fails.
LEMMA FailedSeen ==
  ASSUME Later, NEW r, GoesOn(r), pc'[r] = "reply", held'[r] = [held[r] EXCEPT !.outcome = "failed"],
         PushSeen(r)
  PROVE  PullSeen(r)' /\ PushSeen(r)'
<1>1. r.op # "pull" /\ pc[r] \notin {"start", "done", "record", "next"}
  BY DEF GoesOn, Handled, ClientLabels, UnderWay
<1>2. PICK h : h = held[r]
  OBVIOUS
<1>3. CASE r.op = "push"
  <2>1. AllRecorded(h.state) /\ (\A c \in h.todo : ChangeSeen(c)) /\ "outcome" \in DOMAIN h /\ ChangeSeen(h.change)
    BY <1>1, <1>2, <1>3 DEF PushSeen
  <2>2. /\ held'[r].state = h.state /\ held'[r].todo = h.todo /\ held'[r].change = h.change
        /\ "outcome" \in DOMAIN held'[r] /\ held'[r].outcome = "failed"
    BY <1>2, <2>1
  <2>3. AllRecorded(h.state)' /\ (\A c \in h.todo : ChangeSeen(c)') /\ ChangeSeen(h.change)'
    BY <2>1, SeenStays
  <2>. QED  BY <1>1, <1>3, <2>2, <2>3 DEF PullSeen, PushSeen
<1>. QED  BY <1>1, <1>3 DEF PullSeen, PushSeen

LEMMA StepKeepsSeen ==
  ASSUME SeenInv, Later, StampsInv', NEW r \in due, Moves(r), PullSeen(r)', PushSeen(r)',
         AllRecorded(dir.state)' \/ dir' = dir
  PROVE  SeenInv'
<1>1. ASSUME NEW q \in due \ {r} PROVE PullSeen(q)' /\ PushSeen(q)'
  BY <1>1, HeldSeen DEF Moves, SeenInv
<1>2. dir' = dir => AllRecorded(dir.state)'
  <2>1. PICK state : state = dir.state
    OBVIOUS
  <2>2. AllRecorded(state)'
    BY <2>1, SeenStays DEF SeenInv
  <2>. QED  BY <2>1, <2>2
<1>. QED  BY <1>1, <1>2 DEF SeenInv, Moves

\* A save has written its row.
Wrote(r) ==
  /\ pc[r] \in {"row", "write"} /\ pc'[r] = "file"
  /\ \E i \in ScriptIds : \E row :
       /\ DOMAIN row = Columns /\ WriteRow(i, row)
       /\ held'[r].item = i /\ held'[r].row.at = stamp' /\ held'[r].row.script = row.script

LEMMA CreateWrites ==
  ASSUME PlaceInv, AccessInv, NEW r \in due, CreateScript(r)
  PROVE  Wrote(r) \/ Reply(r, "failed")
<1>0. /\ Progressing /\ r.op \in SaveOps /\ pc[r] = "row" /\ Changing(r)
      /\ made[held[r].kind] < Len(IdsOf(held[r].kind))
  BY DEF PlaceInv, CreateScript, Changing, ChangeOps, ChangeLabels
<1>1. {"item", "row"} \subseteq DOMAIN held[r] /\ DOMAIN held[r].row = Columns
  BY <1>0 DEF AccessInv, Pending, SavePending
<1>2. PICK kind \in ItemScopes : kind = held[r].kind
  BY <1>0 DEF AccessInv, Pending, SavePending
<1>3. PICK id, row : id = NextScriptId(kind) /\ row = held[r].row
  OBVIOUS
<1>4. CASE Reply(r, "failed")
  BY <1>4
<1>5. CASE ~Reply(r, "failed")
  <2>1. /\ IF kind = "workflow" THEN CreateWorkflow(row) ELSE Create(kind, row)
        /\ Goto(r, "file", [held[r] EXCEPT !.item = id, !.row.at = stamp'])
    BY <1>0, <1>2, <1>3, <1>5 DEF CreateScript
  <2>2. id \in ScriptIds
    BY <1>0, <1>2, <1>3, NextIdIsNew DEF AccessInv
  <2>3. PICK w : DOMAIN w = Columns /\ WriteRow(id, w) /\ w.script = row.script
    <3>1. CASE kind = "workflow"
      <4>1. PICK w : w = [row EXCEPT !.enabled = TRUE]
        OBVIOUS
      <4>2. DOMAIN w = Columns /\ w.script = row.script
        BY <1>1, <1>3, <4>1 DEF Columns
      <4>. QED  BY <1>3, <2>1, <3>1, <4>1, <4>2 DEF CreateWorkflow, Create
    <3>2. CASE kind # "workflow"
      BY <1>1, <1>3, <2>1, <3>2 DEF Create
    <3>. QED  BY <3>1, <3>2
  <2>4. pc'[r] = "file" /\ held'[r] = [held[r] EXCEPT !.item = id, !.row.at = stamp']
    BY <1>0, <2>1, GotoMoves
  <2>5. PICK v : v = held'[r].row
    OBVIOUS
  <2>6. held'[r].item = id /\ v.at = stamp' /\ v.script = row.script
    BY <1>1, <1>3, <2>4, <2>5 DEF Columns
  <2>. QED  BY <1>0, <2>2, <2>3, <2>4, <2>5, <2>6 DEF Wrote
<1>. QED  BY <1>4, <1>5

LEMMA RowWrites ==
  ASSUME PlaceInv, AccessInv, NEW r \in due, WriteScriptRow(r)
  PROVE  Wrote(r) \/ Reply(r, "failed")
<1>0. /\ Progressing /\ r.op \in SaveOps /\ pc[r] = "write" /\ Changing(r)
  BY DEF PlaceInv, WriteScriptRow, Changing, ChangeOps, ChangeLabels
<1>1. /\ {"item", "row"} \subseteq DOMAIN held[r] /\ DOMAIN held[r].row = Columns
      /\ HandedOut(held[r].item)
  BY <1>0 DEF AccessInv, Pending, SavePending
<1>2. PICK i, row : i = held[r].item /\ row = held[r].row
  OBVIOUS
<1>3. CASE ~Reply(r, "failed")
  <2>1. WriteRow(i, row) /\ Goto(r, "file", [held[r] EXCEPT !.row.at = stamp'])
    BY <1>2, <1>3 DEF WriteScriptRow, SaveScript
  <2>2. pc'[r] = "file" /\ held'[r] = [held[r] EXCEPT !.row.at = stamp']
    BY <1>0, <2>1, GotoMoves
  <2>3. PICK v : v = held'[r].row
    OBVIOUS
  <2>4. held'[r].item = i /\ v.at = stamp' /\ v.script = row.script
    BY <1>1, <1>2, <2>2, <2>3 DEF Columns
  <2>. QED  BY <1>0, <1>1, <1>2, <2>1, <2>2, <2>3, <2>4, HandedOutIds DEF Wrote
<1>. QED  BY <1>3

\* What the server does for a push: before it writes the row, then, and after.
LEMMA PushServed ==
  ASSUME PlaceInv, AccessInv, NEW r \in due, r.op = "push", ScriptsSteps(r), "outcome" \in DOMAIN held[r]
  PROVE  \/ /\ pc[r] \in {"post", "previous", "row", "write"}
            /\ \/ pc'[r] = "reply" /\ held'[r].outcome # "ok"
               \/ pc'[r] \in {"previous", "row", "write"}
         \/ Wrote(r)
         \/ /\ pc[r] \in {"file", "oldFile", "owner"} /\ pc'[r] \in {"oldFile", "owner", "reply"}
            /\ held'[r].item = held[r].item /\ held'[r].row = held[r].row
<1>0. Progressing /\ SaveGoes(r, held[r])
  BY PushGoes DEF PlaceInv
<1>1. ASSUME NEW outcome, Reply(r, outcome)
      PROVE  /\ pc'[r] = "reply" /\ held'[r].outcome = outcome
             /\ held'[r].item = held[r].item /\ held'[r].row = held[r].row
  <2>1. pc'[r] = "reply" /\ held'[r] = [held[r] EXCEPT !.outcome = outcome]
    BY <1>0, <1>1, GotoMoves DEF Reply
  <2>. QED  BY <2>1
<1>2. CASE HandleSaveScript(r)
  <2>1. pc[r] = "post"
    BY <1>2 DEF HandleSaveScript, At
  <2>2. CASE \E outcome : Reply(r, outcome) /\ outcome # "ok"
    BY <1>1, <2>1, <2>2
  <2>3. CASE ~ \E outcome : Reply(r, outcome) /\ outcome # "ok"
    <3>1. \E value : Goto(r, "row", value) \/ Goto(r, "previous", value)
      BY <1>2, <2>3, SMT DEF HandleSaveScript
    <3>. QED  BY <1>0, <2>1, <3>1, GotoMoves
  <2>. QED  BY <2>2, <2>3
<1>3. CASE FindPrevious(r) \/ MergeScript(r)
  <2>1. pc[r] \in {"previous", "row"}
    BY <1>3 DEF FindPrevious, MergeScript
  <2>2. Reply(r, "failed") \/ \E value : Goto(r, "row", value) \/ Goto(r, "write", value)
    BY <1>3, SMT DEF FindPrevious, MergeScript
  <2>. QED  BY <1>0, <1>1, <2>1, <2>2, GotoMoves
<1>4. CASE CreateScript(r) \/ WriteScriptRow(r)
  <2>1. pc[r] \in {"row", "write"}
    BY <1>4 DEF CreateScript, WriteScriptRow
  <2>. QED  BY <1>1, <1>4, <2>1, CreateWrites, RowWrites
<1>5. CASE WriteScriptFile(r) \/ RemoveOldFile(r) \/ GrantResourceOwner(r)
  <2>1. pc[r] \in {"file", "oldFile", "owner"}
    BY <1>5 DEF WriteScriptFile, RemoveOldFile, GrantResourceOwner
  <2>2. (\E outcome : Reply(r, outcome)) \/ Goto(r, "oldFile", held[r]) \/ Goto(r, "owner", held[r])
    BY <1>5 DEF WriteScriptFile, RemoveOldFile, GrantResourceOwner
  <2>3. Goto(r, "oldFile", held[r]) \/ Goto(r, "owner", held[r]) =>
          pc'[r] \in {"oldFile", "owner"} /\ held'[r] = held[r]
    BY <1>0, GotoMoves
  <2>. QED  BY <1>1, <2>1, <2>2, <2>3
<1>6. ~(\/ HandleDeleteScript(r) \/ FindDeleted(r) \/ DeleteRowOfScript(r) \/ RemoveScriptFile(r)
        \/ HandlePublish(r) \/ ReadForm(r) \/ WriteToken(r) \/ GetScript(r) \/ GetPublishedForm(r)
        \/ HandleWorkflowWebhook(r))
  BY DEF HandleDeleteScript, FindDeleted, DeleteRowOfScript, RemoveScriptFile,
     HandlePublish, ReadForm, WriteToken, GetScript, GetPublishedForm, HandleWorkflowWebhook, At, PublishOps
<1>. QED  BY <1>2, <1>3, <1>4, <1>5, <1>6 DEF ScriptsSteps

LEMMA ScriptsKeepSeen ==
  ASSUME PlaceInv, AccessInv, SeenInv, Later, StampsInv', NEW r \in due, ScriptsSteps(r), Moves(r), dir' = dir
  PROVE  SeenInv'
<1>1. CASE r.op # "push"
  <2>1. r.op # "pull"
    BY ScriptsMoves DEF Steps, ScriptsOps, ChangeOps, SaveOps, PlaceInv
  <2>. QED  BY <1>1, <2>1, DoneSeen, StepKeepsSeen
<1>2. CASE r.op = "push"
  <2>1. SaveGoes(r, held[r]) /\ pc[r] \in ChangeLabels \cup {"post"}
    BY <1>2, PushGoes
  <2>2. /\ pc[r] \notin {"start", "done", "next", "record"}
        /\ pc'[r] \notin {"start", "done", "next", "record"}
    BY <2>1 DEF ChangeLabels, SaveGoes
  <2>3. PICK h : h = held[r]
    OBVIOUS
  <2>4. /\ AllRecorded(h.state) /\ (\A c \in h.todo : ChangeSeen(c)) /\ "outcome" \in DOMAIN h
        /\ ChangeSeen(h.change)
    BY <1>2, <2>2, <2>3 DEF SeenInv, PushSeen
  <2>5. AllRecorded(h.state)' /\ (\A c \in h.todo : ChangeSeen(c)') /\ ChangeSeen(h.change)'
    BY <2>4, SeenStays
  <2>6. /\ held'[r].state = h.state /\ held'[r].todo = h.todo /\ held'[r].change = h.change
        /\ held'[r].checked = h.checked /\ "outcome" \in DOMAIN held'[r]
    BY <2>1, <2>3, <2>4 DEF SaveGoes, Carried
  <2>7. /\ AllRecorded(held[r].state)' /\ \A c \in held'[r].todo : ChangeSeen(c)'
        /\ "outcome" \in DOMAIN held'[r] /\ ChangeSeen(held[r].change)'
    BY <2>5, <2>6
  <2>8. \/ /\ pc[r] \in {"post", "previous", "row", "write"}
           /\ \/ pc'[r] = "reply" /\ held'[r].outcome # "ok"
              \/ pc'[r] \in {"previous", "row", "write"}
        \/ Wrote(r)
        \/ /\ pc[r] \in {"file", "oldFile", "owner"} /\ pc'[r] \in {"oldFile", "owner", "reply"}
           /\ held'[r].item = h.item /\ held'[r].row = h.row
    BY <1>2, <2>3, <2>4, PushServed
  <2>9. (pc'[r] \in {"post", "previous", "row", "write"} /\ held'[r].item # Nothing) => Looked(held'[r], r.force)
    <3> SUFFICES ASSUME pc'[r] \in {"post", "previous", "row", "write"}, held'[r].item # Nothing
                 PROVE  Looked(held'[r], r.force)
      OBVIOUS
    <3>1. pc[r] \in {"post", "previous", "row", "write"}
      BY <2>8 DEF Wrote
    <3>2. held'[r].item = h.item
      BY <2>1, <2>3 DEF SaveGoes
    <3>3. Looked(h, r.force)
      BY <1>2, <2>3, <3>1, <3>2 DEF SeenInv, PushSeen
    <3>. QED  BY <2>6, <3>2, <3>3 DEF Looked
  <2>10. (pc'[r] \in {"file", "oldFile", "owner"} \/ (pc'[r] = "reply" /\ held'[r].outcome = "ok")) =>
           Faithful(held[r].item, held[r].row.at, held[r].row.script)'
    <3>1. CASE Wrote(r)
      <4>1. PICK i, row :
              /\ i \in ScriptIds
              /\ DOMAIN row = Columns /\ WriteRow(i, row)
              /\ held'[r].item = i /\ held'[r].row.at = stamp' /\ held'[r].row.script = row.script
        BY <3>1 DEF Wrote
      <4>2. scripts'[i].script = row.script
        BY <4>1, RowIsWritten
      <4>3. stamp' \in Nat /\ stamp' <= stamp'
        BY DEF Later
      <4>. QED  BY <4>1, <4>2, <4>3 DEF Faithful
    <3>2. CASE /\ pc[r] \in {"file", "oldFile", "owner"}
               /\ held'[r].item = h.item /\ held'[r].row = h.row
      <4>1. Faithful(h.item, h.row.at, h.row.script)
        BY <1>2, <2>3, <3>2 DEF SeenInv, PushSeen
      <4>2. Faithful(h.item, h.row.at, h.row.script)'
        BY <4>1, SeenStays
      <4>. QED  BY <3>2, <4>2
    <3>. QED  BY <2>8, <3>1, <3>2
  <2>11. PushSeen(r)'
    BY <2>7, <2>9, <2>10 DEF PushSeen
  <2>. QED  BY <1>2, <2>11, StepKeepsSeen DEF PullSeen
<1>. QED  BY <1>1, <1>2

LEMMA RecordKeepsSeen ==
  ASSUME PlaceInv, TurnsInv, SeenInv, Later, StampsInv', NEW r \in due, RecordState(r), Moves(r)
  PROVE  SeenInv'
<1>0. Progressing
  BY DEF PlaceInv
<1>1. /\ r.op \in {"pull", "push"} /\ pc[r] = "record" /\ pc'[r] = "done"
      /\ dir' = [dir EXCEPT !.state = held[r].state, !.known = TRUE]
  BY <1>0, GotoMoves DEF RecordState
<1>2. PICK state : state = held[r].state
  OBVIOUS
<1>3. AllRecorded(state)
  BY <1>1, <1>2 DEF SeenInv, PullSeen, PushSeen
<1>4. AllRecorded(state)'
  BY <1>3, SeenStays
<1>5. dir'.state = state
  BY <1>1, <1>2 DEF TurnsInv
<1>. QED  BY <1>1, <1>4, <1>5, DoneSeen, StepKeepsSeen

LEMMA OverRecorded ==
  ASSUME NEW f, NEW g, AllRecorded(f), AllRecorded(g)
  PROVE  /\ AllRecorded(Over(f, g))
         /\ \A paths : AllRecorded(Without(f, paths))
         /\ \A p, e : Recorded(e) => AllRecorded(Put(f, p, e))
  BY DEF AllRecorded, Over, Without, Restrict, Put

LEMMA PullKeepsSeen ==
  ASSUME PlaceInv, TurnsInv, SeenInv, Later, StampsInv', NEW r \in due, r.op = "pull", CliSyncSteps(r), Moves(r)
  PROVE  SeenInv'
<1>0. Progressing /\ PullSeen(r)
  BY DEF PlaceInv, SeenInv
<1>1. ListRemote(r) \/ ListScripts(r) \/ WriteFiles(r) \/ RecordState(r)
  BY DEF CliSyncSteps, EditFile, RunStatus, StartPush, PushChange, PushReply, EndPush, RunWorkflowSet,
     WorkflowSetReply, At
<1>2. PushSeen(r)'
  BY DEF PushSeen
<1>3. CASE ListRemote(r)
  <2> DEFINE databases == IF r.databases = Missing THEN VisibleNames(r.actor) ELSE r.databases
             listed == UNION {ScriptsOf(kind, d) : kind \in ItemScopes, d \in databases}
  <2>0. Goto(r, "scripts", [databases |-> databases, rows |-> [i \in listed |-> scripts[i]]])
    BY <1>3 DEF ListRemote
  <2>2. \A i \in listed : Exists(i)
    BY DEF ScriptsOf
  <2> HIDE DEF listed
  <2>1. PICK rows : rows = [i \in listed |-> scripts[i]]
    OBVIOUS
  <2>3. \A i \in DOMAIN rows : Exists(i) /\ rows[i] = scripts[i]
    BY <2>1, <2>2
  <2>4. \A i \in DOMAIN rows : Faithful(i, rows[i].at, rows[i].script)
    BY <2>3 DEF SeenInv, StampsInv, Faithful, Exists
  <2>5. \A i \in DOMAIN rows : Faithful(i, rows[i].at, rows[i].script)'
    BY <2>4, SeenStays
  <2>6. pc'[r] = "scripts" /\ held'[r].rows = rows
    BY <1>0, <2>0, <2>1, GotoMoves
  <2>7. dir' = dir
    BY <1>3 DEF ListRemote, dirVars
  <2>. QED  BY <1>2, <2>5, <2>6, <2>7, StepKeepsSeen DEF PullSeen
<1>4. CASE ListScripts(r)
  <2> DEFINE rows == held[r].rows
             readable == {i \in DOMAIN rows : MayReadScript(r.actor, i)}
             full == [i \in readable |-> [rows[i] EXCEPT !.script = Served(Kind(i), rows[i])]]
             at(p) == {i \in readable : ScriptPath(Kind(i), rows[i]) = p}
             paths == {ScriptPath(Kind(i), rows[i]) : i \in readable}
  <2>1. /\ Goto(r, "local", [databases |-> held[r].databases,
                             remote |-> [p \in paths |-> Entry(FirstOf(at(p)), full[FirstOf(at(p))])]])
        /\ torn' = torn \cup {i \in readable : full[i].script # rows[i].script}
    BY <1>4 DEF ListScripts
  <2>2. PICK remote : remote = [p \in paths |-> Entry(FirstOf(at(p)), full[FirstOf(at(p))])]
    OBVIOUS
  <2>3. \A i \in readable : i \in ScriptIds
    BY DEF MayReadScript, CanAccessScript, Exists
  <2>4. ASSUME NEW p \in paths PROVE \E i \in readable : remote[p] = Entry(i, full[i])
    <3>1. PICK ids : ids = at(p)
      OBVIOUS
    <3>2. ids \subseteq readable /\ ids # {} /\ ids \subseteq ScriptIds
      BY <2>3, <2>4, <3>1
    <3>3. FirstOf(ids) \in ids
      BY <3>2, FirstIsOne
    <3>. QED  BY <2>2, <2>4, <3>1, <3>2, <3>3
  <2>5. ASSUME NEW i \in readable, NEW e, e = Entry(i, full[i]) PROVE Recorded(e)'
    <3>1. PICK row, new : row = rows[i] /\ new = full[i]
      OBVIOUS
    <3>2. \E script : new = [row EXCEPT !.script = script]
      BY <3>1
    <3>3. new.at = row.at
      BY <3>2
    <3>4. e = Entry(i, new)
      BY <2>5, <3>1
    <3>5. e.item = i /\ e.at = row.at /\ e.script = new.script
      BY <3>3, <3>4 DEF Entry
    <3>6. Faithful(i, row.at, row.script)
      BY <1>0, <1>4, <3>1 DEF PullSeen, ListScripts, At
    <3>7. Faithful(i, row.at, row.script)'
      BY <3>6, SeenStays
    <3>8. new.script = row.script \/ i \in torn'
      BY <2>1, <3>1
    <3>. QED  BY <3>5, <3>7, <3>8 DEF Recorded
  <2>6. AllRecorded(remote)'
    <3>1. DOMAIN remote = paths
      BY <2>2
    <3>2. ASSUME NEW p \in DOMAIN remote PROVE Recorded(remote[p])'
      <4>1. PICK e : e = remote[p]
        OBVIOUS
      <4>2. Recorded(e)'
        BY <2>4, <2>5, <3>1, <3>2, <4>1
      <4>. QED  BY <4>1, <4>2
    <3>. QED  BY <3>2 DEF AllRecorded
  <2>7. pc'[r] = "local" /\ held'[r].remote = remote
    <3> HIDE DEF paths, at, full
    <3>. QED  BY <1>0, <2>1, <2>2, GotoMoves
  <2>8. dir' = dir
    BY <1>4 DEF ListScripts
  <2>. QED  BY <1>2, <2>6, <2>7, <2>8, StepKeepsSeen DEF PullSeen
<1>5. CASE WriteFiles(r)
  <2>1. PICK paths, gone, files, state :
          /\ Goto(r, "record", [state |-> state, failed |-> FALSE])
          /\ state = Over(Without(held[r].remote, paths), Without(dir.state, gone))
          /\ dir' = [dir EXCEPT !.files = files]
    BY <1>5 DEF WriteFiles
  <2>2. AllRecorded(held[r].remote) /\ AllRecorded(dir.state)
    BY <1>0, <1>5 DEF WriteFiles, At, PullSeen, SeenInv
  <2>3. AllRecorded(state)'
    BY <2>1, <2>2, OverRecorded, SeenStays
  <2>4. pc'[r] = "record" /\ held'[r].state = state
    BY <1>0, <2>1, GotoMoves
  <2>5. PICK before : before = dir.state
    OBVIOUS
  <2>6. AllRecorded(before)' /\ dir'.state = before
    BY <2>1, <2>2, <2>5, SeenStays
  <2>. QED  BY <1>2, <2>3, <2>4, <2>6, StepKeepsSeen DEF PullSeen
<1>6. CASE RecordState(r)
  <2>. QED  BY <1>6, RecordKeepsSeen
<1>. QED  BY <1>1, <1>3, <1>4, <1>5, <1>6

LEMMA ChangesSeen ==
  ASSUME AllRecorded(dir.state), NEW actor
  PROVE  \A c \in LocalChanges(actor) : ChangeSeen(c)
<1> SUFFICES ASSUME NEW c \in LocalChanges(actor) PROVE ChangeSeen(c)
  OBVIOUS
<1>1. \E p : \/ /\ p \in DOMAIN dir.state
                /\ c = [path |-> p, status |-> "modified", kind |-> p[1], script |-> dir.files[p],
                        entry |-> dir.state[p]]
             \/ \E status \in {"new", "invalid"} : \E entry :
                  c = [path |-> p, status |-> status, kind |-> p[1], script |-> dir.files[p], entry |-> entry]
  BY DEF LocalChanges
<1>. QED  BY <1>1 DEF ChangeSeen, AllRecorded

LEMMA StartPushKeepsSeen ==
  ASSUME PlaceInv, SeenInv, Later, StampsInv', NEW r \in due, StartPush(r), Moves(r)
  PROVE  SeenInv'
<1>0. Progressing /\ r.op = "push" /\ dir' = dir
  BY DEF PlaceInv, StartPush, At, dirVars
<1>1. CASE pc'[r] = "done"
  BY <1>0, <1>1, DoneSeen, StepKeepsSeen
<1>2. CASE pc'[r] # "done"
  <2>1. PICK changes, failed, state :
          /\ changes \subseteq LocalChanges(r.actor) /\ state = dir.state
          /\ Goto(r, "next", [state |-> state, todo |-> changes, failed |-> failed])
    BY <1>0, <1>2, GotoMoves DEF StartPush
  <2>2. pc'[r] = "next" /\ held'[r].state = state /\ held'[r].todo = changes
    BY <1>0, <2>1, GotoMoves
  <2>3. AllRecorded(state) /\ \A c \in changes : ChangeSeen(c)
    BY <2>1, ChangesSeen DEF SeenInv
  <2>4. AllRecorded(state)' /\ \A c \in changes : ChangeSeen(c)'
    BY <2>3, SeenStays
  <2>5. PullSeen(r)' /\ PushSeen(r)'
    BY <1>0, <2>2, <2>4 DEF PullSeen, PushSeen
  <2>. QED  BY <1>0, <2>5, StepKeepsSeen
<1>. QED  BY <1>1, <1>2

LEMMA PushChangeKeepsSeen ==
  ASSUME PlaceInv, SeenInv, Later, StampsInv', NEW r \in due, PushChange(r), Moves(r)
  PROVE  SeenInv'
<1>0. r.op = "push" /\ pc[r] = "next" /\ dir' = dir
  BY DEF PushChange, At, dirVars
<1>1. PICK change, todo :
        /\ change \in held[r].todo /\ todo = held[r].todo \ {change}
        /\ "outcome" \in DOMAIN held'[r] \/ pc'[r] = "next"
        /\ held'[r].state = held[r].state /\ held'[r].todo = todo
        /\ pc'[r] = "next" \/ (/\ pc'[r] = "post" /\ ~r.dry /\ held'[r].change = change
                               /\ CheckChange(r.actor, change, r.force)
                               /\ held'[r].item = IF change.status = "modified"
                                                  THEN change.entry.item ELSE Nothing
                               /\ held'[r].checked = IF change.status = "modified"
                                                     THEN scripts[change.entry.item] ELSE NoScript)
  BY PushChangeGoes
<1>2. PICK state : state = held[r].state
  OBVIOUS
<1>3. AllRecorded(state) /\ (\A c \in todo : ChangeSeen(c)) /\ ChangeSeen(change)
  BY <1>0, <1>1, <1>2 DEF SeenInv, PushSeen
<1>4. AllRecorded(state)' /\ (\A c \in todo : ChangeSeen(c)') /\ ChangeSeen(change)'
  BY <1>3, SeenStays
<1>5. (pc'[r] = "post" /\ held'[r].item # Nothing) => Looked(held'[r], r.force)
  <2> SUFFICES ASSUME pc'[r] = "post", held'[r].item # Nothing PROVE Looked(held'[r], r.force)
    OBVIOUS
  <2>1. change.status = "modified" /\ CheckChange(r.actor, change, r.force)
    BY <1>1
  <2>2. scripts[change.entry.item] # NoScript
    BY <2>1 DEF CheckChange, MayReadScript, CanAccessScript, Exists
  <2>. QED  BY <1>1, <2>1, <2>2 DEF Looked, CheckChange
<1>6. PushSeen(r)'
  BY <1>1, <1>2, <1>4, <1>5 DEF PushSeen
<1>. QED  BY <1>0, <1>6, StepKeepsSeen DEF PullSeen

LEMMA PushReplyKeepsSeen ==
  ASSUME PlaceInv, SeenInv, Later, StampsInv', NEW r \in due, PushReply(r), Moves(r)
  PROVE  SeenInv'
<1>0. Progressing /\ r.op = "push" /\ pc[r] = "reply" /\ dir' = dir
  BY DEF PlaceInv, PushReply, At
<1>1. PICK path, entry : path = held[r].change.path /\ entry = Entry(held[r].item, held[r].row)
  OBVIOUS
<1>2. PICK state, failed, todo :
        /\ Goto(r, "next", [state |-> state, todo |-> todo, failed |-> failed]) /\ todo = held[r].todo
        /\ state = IF held[r].outcome = "ok" THEN Put(held[r].state, path, entry) ELSE held[r].state
  BY <1>1 DEF PushReply
<1>3. AllRecorded(held[r].state) /\ \A c \in todo : ChangeSeen(c)
  BY <1>0, <1>2 DEF SeenInv, PushSeen
<1>4. held[r].outcome = "ok" => Recorded(entry)
  <2>1. entry.item = held[r].item /\ entry.at = held[r].row.at /\ entry.script = held[r].row.script
    BY <1>1 DEF Entry
  <2>. QED  BY <1>0, <2>1 DEF SeenInv, PushSeen, Recorded
<1>5. AllRecorded(state)
  BY <1>2, <1>3, <1>4, OverRecorded
<1>6. AllRecorded(state)' /\ \A c \in todo : ChangeSeen(c)'
  BY <1>3, <1>5, SeenStays
<1>7. pc'[r] = "next" /\ held'[r].state = state /\ held'[r].todo = todo
  BY <1>0, <1>2, GotoMoves
<1>8. PushSeen(r)'
  BY <1>6, <1>7 DEF PushSeen
<1>. QED  BY <1>0, <1>8, StepKeepsSeen DEF PullSeen

LEMMA EndPushKeepsSeen ==
  ASSUME PlaceInv, SeenInv, Later, StampsInv', NEW r \in due, EndPush(r), Moves(r)
  PROVE  SeenInv'
<1>0. Progressing /\ r.op = "push" /\ pc[r] = "next" /\ dir' = dir
  BY DEF PlaceInv, EndPush, At, dirVars
<1>1. PICK state : state = held[r].state
  OBVIOUS
<1>2. AllRecorded(state)
  BY <1>0, <1>1 DEF SeenInv, PushSeen
<1>3. AllRecorded(state)'
  BY <1>2, SeenStays
<1>4. pc'[r] = "done" \/ (pc'[r] = "record" /\ held'[r].state = state)
  BY <1>0, <1>1, GotoMoves DEF EndPush
<1>5. PullSeen(r)' /\ PushSeen(r)'
  BY <1>0, <1>3, <1>4 DEF PullSeen, PushSeen
<1>. QED  BY <1>0, <1>5, StepKeepsSeen

LEMMA CliSyncKeepsSeen ==
  ASSUME PlaceInv, TurnsInv, SeenInv, Later, StampsInv', NEW r \in due, CliSyncSteps(r), Moves(r)
  PROVE  SeenInv'
<1>1. CASE r.op = "pull"
  BY <1>1, PullKeepsSeen
<1>2. CASE r.op = "push"
  <2>1. StartPush(r) \/ PushChange(r) \/ PushReply(r) \/ EndPush(r) \/ RecordState(r)
    BY <1>2 DEF CliSyncSteps, EditFile, ListRemote, ListScripts, WriteFiles, RunStatus, RunWorkflowSet,
       WorkflowSetReply, At
  <2>. QED  BY <2>1, StartPushKeepsSeen, PushChangeKeepsSeen, PushReplyKeepsSeen, EndPushKeepsSeen, RecordKeepsSeen
<1>3. CASE r.op \notin {"pull", "push"}
  <2>1. EditFile(r) \/ dir' = dir
    <3>1. ~(WriteFiles(r) \/ RecordState(r))
      BY <1>3 DEF WriteFiles, RecordState, At
    <3>. QED  BY <3>1, CommandsRead
  <2>2. EditFile(r) => dir'.state = dir.state
    BY DEF EditFile
  <2>3. AllRecorded(dir.state)'
    <3>1. PICK state : state = dir.state
      OBVIOUS
    <3>2. AllRecorded(state)'
      BY <3>1, SeenStays DEF SeenInv
    <3>. QED  BY <2>1, <2>2, <3>1, <3>2
  <2>. QED  BY <1>3, <2>3, DoneSeen, StepKeepsSeen
<1>. QED  BY <1>1, <1>2, <1>3

LEMMA InitSeen == Init => SeenInv
<1> SUFFICES ASSUME Init PROVE SeenInv
  OBVIOUS
<1>1. /\ \A r \in due : pc[r] = "start"
      /\ dir = [files |-> <<>>, state |-> <<>>, known |-> FALSE]
      /\ stamp = 0 /\ \A i \in ScriptIds : scripts[i] = NoScript
  BY DEF Init, RequestsInit, CliSyncInit, StoreInit
<1>2. StampsInv
  BY <1>1 DEF StampsInv, Exists
<1>3. AllRecorded(dir.state)
  BY <1>1 DEF AllRecorded
<1>. QED  BY <1>1, <1>2, <1>3 DEF SeenInv, PullSeen, PushSeen

LEMMA NextSeen == PlaceInv /\ AccessInv /\ TurnsInv /\ SeenInv /\ [Next]_vars => SeenInv'
<1> SUFFICES ASSUME PlaceInv, AccessInv, TurnsInv, SeenInv, [Next]_vars PROVE SeenInv'
  OBVIOUS
<1>0. Progressing /\ Placed /\ Later /\ StampsInv'
  BY NextLater DEF PlaceInv, SeenInv
<1>1. ASSUME NEW r \in due, CliSyncSteps(r) PROVE SeenInv'
  BY <1>0, <1>1, CliSyncMoves, CliSyncKeepsSeen DEF Steps
<1>2. CASE UNCHANGED dirVars
  <2>0. dir' = dir
    BY <1>2 DEF dirVars
  <2>1. ASSUME NEW r \in due, NEW ops, Steps(r, ops), ops \cap {"pull", "push"} = {} PROVE SeenInv'
    BY <1>0, <2>0, <2>1, DoneSeen, StepKeepsSeen DEF Steps
  <2>2. ASSUME NEW r \in due, Steps(r, ScriptsOps), ScriptsSteps(r) PROVE SeenInv'
    BY <1>0, <2>0, <2>2, ScriptsKeepSeen DEF Steps
  <2>3. AllRecorded(dir.state)'
    <3>1. PICK state : state = dir.state
      OBVIOUS
    <3>2. AllRecorded(state)'
      BY <1>0, <3>1, SeenStays DEF SeenInv
    <3>. QED  BY <2>0, <3>1, <3>2
  <2>4. UNCHANGED requestVars => SeenInv'
    <3> SUFFICES ASSUME UNCHANGED requestVars PROVE SeenInv'
      OBVIOUS
    <3>1. \A r \in due : PullSeen(r)' /\ PushSeen(r)'
      BY <1>0, HeldSeen DEF requestVars, SeenInv
    <3>. QED  BY <1>0, <2>3, <3>1 DEF requestVars, SeenInv
  <2>5. ASSUME NEW r \in due, Fail(r) PROVE SeenInv'
    <3>1. Moves(r) /\ PushSeen(r)
      BY <1>0, <2>5, FailSteps DEF SeenInv
    <3>2. CASE pc'[r] = "done"
      BY <1>0, <2>0, <3>1, <3>2, DoneSeen, StepKeepsSeen
    <3>3. CASE pc'[r] # "done"
      <4>1. GoesOn(r) /\ pc'[r] = "reply" /\ held'[r] = [held[r] EXCEPT !.outcome = "failed"]
        BY <1>0, <2>5, <3>3 DEF Fail, StatementFails, Progressing
      <4>. QED  BY <1>0, <2>0, <3>1, <4>1, FailedSeen, StepKeepsSeen
    <3>. QED  BY <3>2, <3>3
  <2>6. CASE Restart
    <3>1. due' = due
      BY <2>6 DEF Restart
    <3>2. ASSUME NEW r \in due PROVE PullSeen(r)' /\ PushSeen(r)'
      <4>1. /\ pc'[r] = IF GoesOn(r) THEN "reply" ELSE IF Handled(r) THEN "done" ELSE pc[r]
            /\ held'[r] = IF GoesOn(r) THEN [held[r] EXCEPT !.outcome = "failed"]
                          ELSE IF Handled(r) THEN Nothing ELSE held[r]
        BY <2>6 DEF Restart
      <4>2. PullSeen(r) /\ PushSeen(r)
        BY DEF SeenInv
      <4>3. CASE GoesOn(r)
        BY <1>0, <4>1, <4>2, <4>3, FailedSeen
      <4>4. CASE ~GoesOn(r) /\ Handled(r)
        BY <4>1, <4>4, DoneSeen
      <4>5. CASE ~GoesOn(r) /\ ~Handled(r)
        BY <1>0, <4>1, <4>2, <4>5, HeldSeen
      <4>. QED  BY <4>3, <4>4, <4>5
    <3>. QED  BY <1>0, <2>3, <3>1, <3>2 DEF SeenInv
  <2>7. /\ SignInOps \cap {"pull", "push"} = {} /\ AccessOps \cap {"pull", "push"} = {}
        /\ CatalogOps \cap {"pull", "push"} = {}
    BY DEF SignInOps, AccessOps, CatalogOps
  <2>8. (Tick \/ (\E r \in due, b \in Browsers : AuthorizePage(r, b)) \/ (\E page \in shown : Authorize(page)))
        => UNCHANGED requestVars
    BY DEF Tick, AuthorizePage, Authorize, requestVars
  <2>9. UNCHANGED vars => UNCHANGED requestVars
    BY DEF vars
  <2>. QED  BY <1>0, <1>1, <2>1, <2>2, <2>4, <2>5, <2>6, <2>7, <2>8, <2>9, WhoseStep
<1>. QED  BY <1>1, <1>2, DirStays

\* push without force, whatever the server does meanwhile, replaces the script that the
\* file was made from, unless it changed after push looked, was pulled while its row and
\* its file differed, or was written twice in a millisecond: checkRemote and pushCode of src/internal/ctl/sync.go.  After a
\* command that was killed it is the script that the state has.
THEOREM PushesKeepOthers == Spec => PushKeepsOthers
<1> DEFINE KeepsOthers == \A r \in due :
      (r.op = "push" /\ pc[r] = "write" /\ pc'[r] = "file" /\ ~r.force) =>
        LET now    == scripts[held[r].item]
            change == held[r].change
        IN  \/ held[r].item \in torn \cup coincided
            \/ now # held[r].checked
            \/ change.path \in DOMAIN base /\ now.script = base[change.path]
            \/ faults > 0 /\ now.script = change.entry.script
<1>1. ASSUME AccessInv, SoundInv, BaseInv, SeenInv PROVE KeepsOthers
  <2> SUFFICES ASSUME NEW r \in due, r.op = "push", pc[r] = "write", ~r.force,
                      held[r].item \notin torn \cup coincided, scripts[held[r].item] = held[r].checked
               PROVE  \/ /\ held[r].change.path \in DOMAIN base
                         /\ scripts[held[r].item].script = base[held[r].change.path]
                      \/ faults > 0 /\ scripts[held[r].item].script = held[r].change.entry.script
    OBVIOUS
  <2>1. PICK h, i, change : h = held[r] /\ i = h.item /\ change = h.change
    OBVIOUS
  <2>2. i # Nothing /\ HandedOut(i)
    BY <1>1, <2>1 DEF AccessInv, Pending, SavePending, SaveOps, Changing, ChangeOps, ChangeLabels
  <2>3. Looked(h, r.force) /\ ChangeSeen(change)
    BY <1>1, <2>1, <2>2 DEF SeenInv, PushSeen
  <2>4. /\ change.status = "modified" /\ i = change.entry.item
        /\ Exists(i) /\ scripts[i].at = change.entry.at
    BY <2>1, <2>2, <2>3, HandedOutIds DEF Looked, Exists
  <2>5. scripts[i].script = change.entry.script
    BY <2>1, <2>3, <2>4 DEF ChangeSeen, Recorded, Faithful
  <2>6. CASE faults = 0
    <3>1. ChangePut(change, base)
      BY <1>1, <2>1, <2>6 DEF BaseInv, PutInv, PushPut, UnderWay
    <3>. QED  BY <2>1, <2>4, <2>5, <3>1 DEF ChangePut
  <2>7. CASE faults # 0
    <3>1. faults > 0
      BY <1>1, <2>7 DEF SoundInv
    <3>. QED  BY <2>1, <2>5, <3>1
  <2>. QED  BY <2>6, <2>7
<1>2. AccessInv /\ SoundInv /\ BaseInv /\ SeenInv /\ [Next]_vars => [KeepsOthers]_vars
  BY <1>1
<1>3. Spec => [](PlaceInv /\ AccessInv /\ TurnsInv /\ SoundInv /\ BaseInv /\ SeenInv)
  BY InitPlaced, NextPlaced, InitAccess, NextAccess, InitTurns, NextTurns, InitSound, NextSound,
     InitBase, NextBase, InitSeen, NextSeen, PTL DEF Spec
<1>. QED  BY <1>2, <1>3, PTL DEF Spec, PushKeepsOthers

-----------------------------------------------------------------------------
(* Types: requests are at statements, and are answered.                    *)

\* The command that is to be answered with the response of its save has one.
SetPending(r) ==
  (r.op = "workflowSet" /\ UnderWay(r)) =>
    "outcome" \in DOMAIN held[r] /\ (pc[r] = "reply" => held[r].outcome \in Outcomes)

RequestsInv ==
  /\ RequestsTypeOK
  /\ \A r \in due : SetPending(r)

\* A save of workflow set keeps its place for the response, and fills it.
LEMMA SaveSets ==
  ASSUME PlaceInv, AccessInv, RequestsInv, NEW r \in due, ScriptsSteps(r), r.op = "workflowSet"
  PROVE  SetPending(r)'
<1>1. SaveGoes(r, held[r]) /\ UnderWay(r)
  <2>1. CASE HandleSaveScript(r)
    BY <2>1, SaveBegins DEF UnderWay
  <2>2. CASE ~HandleSaveScript(r)
    <3>1. \/ FindPrevious(r) \/ CreateScript(r) \/ MergeScript(r) \/ WriteScriptRow(r)
          \/ WriteScriptFile(r) \/ RemoveOldFile(r) \/ GrantResourceOwner(r)
      BY <2>2 DEF ScriptsSteps, HandleDeleteScript, FindDeleted, DeleteRowOfScript, RemoveScriptFile,
         HandlePublish, ReadForm, WriteToken, GetScript, GetPublishedForm, HandleWorkflowWebhook, At,
         PublishOps
    <3>. QED  BY <3>1, SaveOn DEF SaveOps, Changing, ChangeLabels, UnderWay
  <2>. QED  BY <2>1, <2>2
<1>2. "outcome" \in DOMAIN held[r] /\ DOMAIN held'[r] = DOMAIN held[r]
  BY <1>1 DEF RequestsInv, SetPending, SaveGoes, Carried
<1>3. ASSUME pc'[r] = "reply" PROVE held'[r].outcome \in Outcomes
  <2>1. PICK outcome \in Outcomes : held'[r] = [held[r] EXCEPT !.outcome = outcome]
    BY <1>1, <1>3 DEF SaveGoes
  <2>. QED  BY <1>2, <2>1
<1>. QED  BY <1>2, <1>3 DEF SetPending

LEMMA CommandSets ==
  ASSUME PlaceInv, RequestsInv, NEW r \in due, CliSyncSteps(r)
  PROVE  /\ SetPending(r)'
         /\ WorkflowSetReply(r) => held[r].outcome \in Outcomes
<1>0. Progressing
  BY DEF PlaceInv
<1>1. CASE r.op # "workflowSet"
  BY <1>1 DEF SetPending, WorkflowSetReply, At
<1>2. CASE WorkflowSetReply(r)
  BY <1>0, <1>2, GotoMoves DEF WorkflowSetReply, At, RequestsInv, SetPending, UnderWay
<1>3. CASE RunWorkflowSet(r)
  <2>1. \/ Answer(r, "failed")
        \/ \E item, row : Goto(r, "post", [kind |-> "workflow", item |-> item, row |-> row, valid |-> TRUE,
                                           previous |-> NoScript, outcome |-> "none"])
    BY <1>3 DEF RunWorkflowSet
  <2>2. ASSUME NEW item, NEW row,
               Goto(r, "post", [kind |-> "workflow", item |-> item, row |-> row, valid |-> TRUE,
                                previous |-> NoScript, outcome |-> "none"])
        PROVE  pc'[r] = "post" /\ "outcome" \in DOMAIN held'[r]
    <3>1. PICK asked : asked = [kind |-> "workflow", item |-> item, row |-> row, valid |-> TRUE,
                                previous |-> NoScript, outcome |-> "none"]
      OBVIOUS
    <3>2. "outcome" \in DOMAIN asked
      BY <3>1
    <3>3. Goto(r, "post", asked)
      BY <2>2, <3>1
    <3>. QED  BY <1>0, <3>2, <3>3, GotoMoves
  <2>3. pc'[r] = "done" \/ (pc'[r] = "post" /\ "outcome" \in DOMAIN held'[r])
    BY <1>0, <2>1, <2>2, GotoMoves
  <2>. QED  BY <2>3, <1>3 DEF SetPending, UnderWay, RunWorkflowSet, WorkflowSetReply, At
<1>4. r.op # "workflowSet" \/ RunWorkflowSet(r) \/ WorkflowSetReply(r)
  <2>1. EditFile(r) => r.op = "edit"
    BY DEF EditFile, At
  <2>2. ListRemote(r) \/ ListScripts(r) => r.op # "workflowSet"
    BY DEF ListRemote, ListScripts, At
  <2>5. WriteFiles(r) => r.op # "workflowSet"
    BY DEF WriteFiles, At
  <2>3. RecordState(r) \/ RunStatus(r) \/ StartPush(r) => r.op # "workflowSet"
    BY DEF RecordState, RunStatus, StartPush, At
  <2>4. PushChange(r) \/ PushReply(r) \/ EndPush(r) => r.op # "workflowSet"
    BY Zenon DEF PushChange, PushReply, EndPush, At
  <2>. QED  BY <2>1, <2>2, <2>3, <2>4, <2>5 DEF CliSyncSteps
<1>. QED  BY <1>1, <1>2, <1>3, <1>4

\* One request takes a step.
LEMMA StepKeepsRequests ==
  ASSUME RequestsInv, NEW r \in due, Moves(r), pc[r] # "done", Ends(r), SetPending(r)',
         faults' \in 0 .. MaxFaults
  PROVE  RequestsInv'
<1>1. /\ due' = due /\ due \in Scenarios
      /\ \A q \in due \ {r} : pc'[q] = pc[q] /\ held'[q] = held[q] /\ result'[q] = result[q]
      /\ pc'[r] # "done" => result'[r] = result[r]
  BY DEF Moves, RequestsInv, RequestsTypeOK
<1>2. pc' \in [due -> Labels]
  BY DEF Ends, RequestsInv, RequestsTypeOK
<1>3. result[r] = "none"
  BY DEF RequestsInv, RequestsTypeOK
<1>4. result' \in [due -> {"none", "ok", "unauthorized", "forbidden", "invalid", "notFound", "conflict", "failed"}]
  BY <1>1, <1>3 DEF Ends, Outcomes, RequestsInv, RequestsTypeOK
<1>5. \A q \in due : result'[q] # "none" <=> pc'[q] = "done"
  BY <1>1, <1>3 DEF Ends, Outcomes, RequestsInv, RequestsTypeOK
<1>6. DOMAIN held' = due
  BY <1>1 DEF Moves, Progressing
<1>7. \A q \in due : SetPending(q)'
  BY <1>1 DEF RequestsInv, SetPending, UnderWay
<1>. QED  BY <1>1, <1>2, <1>4, <1>5, <1>6, <1>7 DEF RequestsInv, RequestsTypeOK

LEMMA InitRequests == Init => RequestsInv
<1> SUFFICES ASSUME Init PROVE RequestsInv
  OBVIOUS
<1>1. /\ due \in Scenarios /\ pc = [r \in due |-> "start"] /\ result = [r \in due |-> "none"]
      /\ DOMAIN held = due /\ faults = 0
  BY DEF Init, RequestsInit
<1>2. RequestsTypeOK
  <2>1. pc \in [due -> Labels]
    BY <1>1 DEF Labels
  <2>2. faults \in 0 .. MaxFaults
    BY <1>1, RequestAssumption
  <2>. QED  BY <1>1, <2>1, <2>2 DEF RequestsTypeOK
<1>. QED  BY <1>1, <1>2 DEF RequestsInv, SetPending, UnderWay

LEMMA FaultsKeepRequests ==
  ASSUME PlaceInv, RequestsInv, (\E r \in due : Fail(r)) \/ Restart
  PROVE  RequestsInv'
<1>0. Progressing /\ faults \in Nat /\ MaxFaults \in Nat
  BY RequestAssumption DEF PlaceInv, RequestsInv, RequestsTypeOK
<1>1. ASSUME NEW r \in due, Fail(r) PROVE RequestsInv'
  <2>1. Moves(r) /\ faults' = faults + 1 /\ faults < MaxFaults /\ pc[r] # "done"
    BY <1>0, <1>1, FailSteps DEF Fail, StatementFails, GoesOn, Handled, UnderWay
  <2>2. Ends(r)
    BY <1>0, <1>1 DEF Fail, StatementFails, Ends, Labels, Outcomes, Progressing
  <2>3. SetPending(r)'
    <3>1. CASE r.op = "workflowSet" /\ pc'[r] # "done"
      <4>1. held' = [held EXCEPT ![r].outcome = "failed"] /\ "outcome" \in DOMAIN held[r]
        BY <1>0, <1>1, <3>1 DEF Fail, StatementFails, Progressing, GoesOn, Handled, RequestsInv, SetPending
      <4>2. held'[r] = [held[r] EXCEPT !.outcome = "failed"]
        BY <1>0, <4>1 DEF Progressing
      <4>. QED  BY <4>1, <4>2 DEF SetPending, Outcomes
    <3>. QED  BY <3>1 DEF SetPending, UnderWay
  <2>. QED  BY <1>0, <2>1, <2>2, <2>3, StepKeepsRequests
<1>2. CASE Restart
  <2>1. /\ due' = due /\ faults' = faults + 1 /\ faults < MaxFaults
        /\ pc' = [r \in due |-> IF GoesOn(r) THEN "reply" ELSE IF Handled(r) THEN "done" ELSE pc[r]]
        /\ result' = [r \in due |-> IF Handled(r) /\ ~GoesOn(r) THEN "failed" ELSE result[r]]
        /\ held' = [r \in due |-> IF GoesOn(r) THEN [held[r] EXCEPT !.outcome = "failed"]
                                  ELSE IF Handled(r) THEN Nothing ELSE held[r]]
    BY <1>2 DEF Restart
  <2>2. \A r \in due : GoesOn(r) => Handled(r) /\ r.op \in {"push", "workflowSet"} /\ UnderWay(r)
    BY DEF GoesOn, Handled
  <2>3. \A r \in due : Handled(r) => result[r] = "none"
    BY DEF Handled, UnderWay, RequestsInv, RequestsTypeOK
  <2>4. RequestsTypeOK'
    <3>1. \A r \in due : pc[r] \in Labels /\ (result[r] # "none" <=> pc[r] = "done")
      BY DEF RequestsInv, RequestsTypeOK
    <3>2. pc' \in [due -> Labels]
      BY <2>1, <3>1 DEF Labels
    <3>3. result' \in [due -> {"none", "ok", "unauthorized", "forbidden", "invalid", "notFound", "conflict",
                              "failed"}]
      BY <2>1 DEF RequestsInv, RequestsTypeOK
    <3>4. \A r \in due : result'[r] # "none" <=> pc'[r] = "done"
      BY <2>1, <2>2, <2>3, <3>1
    <3>. QED  BY <1>0, <2>1, <3>2, <3>3, <3>4 DEF RequestsInv, RequestsTypeOK
  <2>5. ASSUME NEW r \in due PROVE SetPending(r)'
    <3>1. SetPending(r)
      BY DEF RequestsInv
    <3>2. CASE GoesOn(r)
      <4>1. pc'[r] = "reply" /\ held'[r] = [held[r] EXCEPT !.outcome = "failed"]
        BY <2>1, <3>2
      <4>2. r.op = "workflowSet" => "outcome" \in DOMAIN held[r]
        BY <2>2, <3>1, <3>2 DEF SetPending
      <4>. QED  BY <4>1, <4>2 DEF SetPending, Outcomes
    <3>3. CASE ~GoesOn(r)
      BY <2>1, <3>1, <3>3 DEF SetPending, UnderWay
    <3>. QED  BY <3>2, <3>3
  <2>. QED  BY <2>1, <2>4, <2>5 DEF RequestsInv
<1>. QED  BY <1>1, <1>2

LEMMA NextRequests == PlaceInv /\ AccessInv /\ RequestsInv /\ [Next]_vars => RequestsInv'
<1> SUFFICES ASSUME PlaceInv, AccessInv, RequestsInv, [Next]_vars PROVE RequestsInv'
  OBVIOUS
<1>0. Progressing /\ Placed /\ faults \in 0 .. MaxFaults
  BY DEF PlaceInv, RequestsInv, RequestsTypeOK
<1>1. ASSUME NEW r \in due, NEW ops, Steps(r, ops), pc[r] # "done", Ends(r), SetPending(r)'
      PROVE  RequestsInv'
  BY <1>0, <1>1, StepKeepsRequests DEF Steps
<1>2. ASSUME NEW r \in due, r.op # "workflowSet" PROVE SetPending(r)'
  BY <1>2 DEF SetPending
<1>4. ASSUME NEW r \in due, NEW c, TakesCallback(r, c), Steps(r, SignInOps) PROVE RequestsInv'
  <2>1. pc[r] # "done" /\ Ends(r)
    BY <1>0, <1>4, GotoEnds DEF TakesCallback, Labels
  <2>. QED  BY <1>1, <1>2, <1>4, <2>1 DEF TakesCallback
<1>5. UNCHANGED requestVars => RequestsInv'
  BY DEF requestVars, RequestsInv, RequestsTypeOK, SetPending, UnderWay
<1>6. (Tick \/ (\E r \in due, b \in Browsers : AuthorizePage(r, b)) \/ (\E page \in shown : Authorize(page))
       \/ UNCHANGED vars) => UNCHANGED requestVars
  BY DEF Tick, AuthorizePage, Authorize, vars
<1>7. ASSUME NEW r \in due
      PROVE  /\ SignInSteps(r) /\ Steps(r, SignInOps) => RequestsInv'
             /\ AccessSteps(r) /\ Steps(r, AccessOps) => RequestsInv'
             /\ CatalogSteps(r) /\ Steps(r, CatalogOps) => RequestsInv'
             /\ ScriptsSteps(r) /\ Steps(r, ScriptsOps) => RequestsInv'
             /\ CliSyncSteps(r) /\ Steps(r, CliSyncOps) => RequestsInv'
  <2>1. /\ Steps(r, SignInOps) => r.op \in SignInOps
        /\ Steps(r, AccessOps) => r.op \in AccessOps
        /\ Steps(r, CatalogOps) => r.op \in CatalogOps
    BY DEF Steps
  <2>2. "workflowSet" \notin SignInOps \cup AccessOps \cup CatalogOps
    BY DEF SignInOps, AccessOps, CatalogOps
  <2>3. /\ SignInSteps(r) /\ Steps(r, SignInOps) => RequestsInv'
        /\ AccessSteps(r) /\ Steps(r, AccessOps) => RequestsInv'
        /\ CatalogSteps(r) /\ Steps(r, CatalogOps) => RequestsInv'
    BY <1>0, <1>1, <1>2, <2>1, <2>2, SignInEnds, AccessEnds, CatalogEnds
  <2>4. ScriptsSteps(r) /\ Steps(r, ScriptsOps) => RequestsInv'
    BY <1>0, <1>1, <1>2, ScriptsEnds, SaveSets
  <2>5. CliSyncSteps(r) /\ Steps(r, CliSyncOps) => RequestsInv'
    BY <1>0, <1>1, CliSyncEnds, CommandSets
  <2>. QED  BY <2>3, <2>4, <2>5
<1>. QED  BY <1>0, <1>4, <1>5, <1>6, <1>7, FaultsKeepRequests, WhoseStep

-----------------------------------------------------------------------------
(* Types: the directory of autablectl.                                     *)

\* A handler whose command goes on without its answer is at a change.
LEMMA GoneOnAtChange ==
  ASSUME PlaceInv, RequestsInv, NEW r \in due, GoesOn(r)
  PROVE  r.op \in {"push", "workflowSet"} /\ (pc[r] = "post" \/ Changing(r))
<1>1. PlacedAt(r.op, pc[r]) /\ pc[r] \in Labels /\ r.op \in {"push", "workflowSet"}
      /\ pc[r] \notin ClientLabels /\ pc[r] \notin {"start", "done"}
  BY DEF PlaceInv, Placed, RequestsInv, RequestsTypeOK, GoesOn, Handled, UnderWay
<1>2. pc[r] \in ChangeLabels
  BY <1>1 DEF PlacedAt, Labels, ClientLabels, ChangeLabels, RoleOps, PublishOps
<1>. QED  BY <1>1, <1>2 DEF Changing, ChangeOps, SaveOps

LEMMA FailedKinds ==
  ASSUME PlaceInv, RequestsInv, KindsInv, NEW r \in due, GoesOn(r), pc'[r] = "reply",
         held'[r] = [held[r] EXCEPT !.outcome = "failed"]
  PROVE  Kinds(r)'
<1>1. r.op \in {"push", "workflowSet"} /\ (pc[r] = "post" \/ Changing(r)) /\ Kinds(r)
  BY GoneOnAtChange DEF KindsInv
<1>2. Carried(held[r], held'[r]) /\ held'[r].item = held[r].item
  BY Carrying
<1>3. r.op = "push" => "outcome" \in DOMAIN held[r]
  BY <1>1 DEF Kinds, PushKinds, Changing, ChangeLabels
<1>4. r.op = "push" => held'[r].outcome = "failed"
  BY <1>3
<1>5. SaveKinds(r)'
  BY <1>1, <1>2, <1>4 DEF Kinds, SaveKinds, SaveOps, Carried
<1>6. PushKinds(r)'
  BY <1>1, <1>2 DEF Kinds, PushKinds, Changing, ChangeLabels, Carried
<1>. QED  BY <1>1, <1>5, <1>6 DEF Kinds, PullKinds

LEMMA FaultsKeepKinds ==
  ASSUME PlaceInv, RequestsInv, KindsInv, (\E r \in due : Fail(r)) \/ Restart
  PROVE  KindsInv'
<1>0. Progressing /\ due' = due /\ dir' = dir
  BY FailSteps, RestartSteps DEF PlaceInv, Fail, Restart, dirVars, Moves
<1>1. ASSUME NEW r \in due, Fail(r) PROVE KindsInv'
  <2>1. Moves(r)
    BY <1>0, <1>1, FailSteps
  <2>2. CASE pc'[r] = "done"
    BY <1>0, <2>1, <2>2, NoKinds, StepKeepsKinds DEF KindsInv
  <2>3. CASE pc'[r] # "done"
    <3>1. GoesOn(r) /\ pc'[r] = "reply" /\ held'[r] = [held[r] EXCEPT !.outcome = "failed"]
      BY <1>0, <1>1, <2>3 DEF Fail, StatementFails, Progressing
    <3>. QED  BY <1>0, <2>1, <3>1, FailedKinds, StepKeepsKinds DEF KindsInv
  <2>. QED  BY <2>2, <2>3
<1>2. CASE Restart
  <2>1. ASSUME NEW r \in due PROVE Kinds(r)'
    <3>1. \/ pc'[r] = pc[r] /\ held'[r] = held[r]
          \/ pc'[r] = "done"
          \/ GoesOn(r)
      BY <1>0, <1>2, RestartSteps
    <3>2. CASE pc'[r] = pc[r] /\ held'[r] = held[r]
      BY <3>2 DEF KindsInv, Kinds, PullKinds, PushKinds, SaveKinds, Changing
    <3>3. CASE GoesOn(r)
      <4>1. pc'[r] = "reply" /\ held'[r] = [held[r] EXCEPT !.outcome = "failed"]
        BY <1>2, <3>3 DEF Restart
      <4>. QED  BY <3>3, <4>1, FailedKinds
    <3>. QED  BY <3>1, <3>2, <3>3, NoKinds
  <2>. QED  BY <1>0, <2>1 DEF KindsInv
<1>. QED  BY <1>1, <1>2

LEMMA KindsStay == PlaceInv /\ AccessInv /\ RequestsInv /\ KindsInv /\ [Next]_vars => KindsInv'
<1>1. RequestsInv => faults \in Nat
  BY RequestAssumption DEF RequestsInv, RequestsTypeOK
<1>. QED  BY <1>1, FaultsCount, NextKinds, FaultsKeepKinds

\* There is a state when it has entries.
DirInv == dir.state # <<>> => dir.known

LEMMA NextDir == KindsInv /\ DirInv /\ [Next]_vars => DirInv'
<1> SUFFICES ASSUME KindsInv, DirInv, [Next]_vars PROVE DirInv'
  OBVIOUS
<1>1. {"files", "state", "known"} \subseteq DOMAIN dir
  BY DEF KindsInv
<1>2. ASSUME NEW r \in due, CliSyncSteps(r) PROVE DirInv'
  <2>1. CASE RecordState(r)
    <3>1. dir' = [dir EXCEPT !.state = held[r].state, !.known = TRUE]
      BY <2>1 DEF RecordState
    <3>. QED  BY <1>1, <3>1 DEF DirInv
  <2>2. CASE EditFile(r) \/ WriteFiles(r)
    <3>1. \E files : dir' = [dir EXCEPT !.files = files]
      BY <2>2 DEF EditFile, WriteFiles
    <3>. QED  BY <1>1, <3>1 DEF DirInv
  <2>3. CASE ~(RecordState(r) \/ EditFile(r) \/ WriteFiles(r))
    <3>1. ListRemote(r) \/ ListScripts(r) \/ RunStatus(r) \/ StartPush(r) => dir' = dir
      BY DEF ListRemote, ListScripts, RunStatus, StartPush, dirVars
    <3>2. PushChange(r) \/ PushReply(r) => dir' = dir
      BY DEF PushChange, PushReply, dirVars
    <3>3. EndPush(r) \/ RunWorkflowSet(r) \/ WorkflowSetReply(r) => dir' = dir
      BY DEF EndPush, RunWorkflowSet, WorkflowSetReply, dirVars
    <3>4. dir' = dir
      BY <1>2, <2>3, <3>1, <3>2, <3>3 DEF CliSyncSteps
    <3>. QED  BY <3>4 DEF DirInv
  <2>. QED  BY <2>1, <2>2, <2>3
<1>. QED  BY <1>2, DirStays DEF dirVars, DirInv

LEMMA InitDir == Init => KindsInv /\ DirInv
<1> SUFFICES ASSUME Init PROVE KindsInv /\ DirInv
  OBVIOUS
<1>1. dir = [files |-> <<>>, state |-> <<>>, known |-> FALSE] /\ \A r \in due : pc[r] = "start"
  BY DEF Init, CliSyncInit, RequestsInit
<1>2. DOMAIN dir.state = {} /\ "known" \in DOMAIN dir /\ {"files", "state", "known"} \subseteq DOMAIN dir
  BY <1>1
<1>3. ASSUME NEW r \in due PROVE Kinds(r)
  BY <1>1 DEF Kinds, PullKinds, PushKinds, SaveKinds, Changing, ChangeLabels
<1>. QED  BY <1>1, <1>2, <1>3 DEF KindsInv, StateKinds, DirInv

LEMMA CliSyncTypes == KindsInv /\ DirInv => CliSyncTypeOK
  BY DEF KindsInv, StateKinds, OfItsKind, DirInv, CliSyncTypeOK

-----------------------------------------------------------------------------
(* Types: grants, roles, workflows and forms.                              *)

TargetsInv == \A g, h \in grants : Target(g) = Target(h) => g = h

RolesInv ==
  \A r, s \in roles : r.id # Nothing /\ ((r.id = s.id \/ (r.db = s.db /\ r.name = s.name)) => r = s)

NamesInv ==
  \A i, j \in ScriptIds :
    (/\ Exists(i) /\ Exists(j) /\ Kind(i) = Kind(j)
     /\ scripts[i].db = scripts[j].db /\ scripts[i].name = scripts[j].name) => i = j

CountsInv ==
  made \in [{"workflow", "form", "role"} -> Nat] /\ stamp \in Nat /\ coincided \subseteq ScriptIds

StoreInv == TargetsInv /\ RolesInv /\ NamesInv /\ CountsInv

\* The statements that write grants, roles, workflows or forms.
Stores(r) ==
  \/ DeleteConflictingGrant(r) \/ WriteGrant(r) \/ WriteRole(r) \/ WriteRoleGrants(r)
  \/ CreateScript(r) \/ WriteScriptRow(r) \/ GrantResourceOwner(r) \/ DeleteRowOfScript(r) \/ WriteToken(r)

LEMMA OthersLeaveStore ==
  ASSUME NEW r \in due, AccessSteps(r) \/ CatalogSteps(r) \/ ScriptsSteps(r) \/ CliSyncSteps(r), ~Stores(r)
  PROVE  UNCHANGED <<grants, roles, scripts, made, stamp, coincided>>
<1> USE DEF storeVars, accessVars, scriptVars, Stores
<1>1. CASE AccessSteps(r)
  BY <1>1 DEF AccessSteps, HandleSaveGrant, FindConflicts, HandleRole, WriteRoleMembers, RoleResponse, ListRoles
<1>2. CASE CatalogSteps(r)
  <2>1. CASE CreateDatabase(r) \/ OwnDatabase(r) \/ AuthorizeTable(r) \/ ChangeTables(r)
             \/ AuthorizePatch(r) \/ ChangeTable(r) \/ ReadRows(r) \/ SyncRow(r)
    BY <2>1 DEF CreateDatabase, OwnDatabase, AuthorizeTable, ChangeTables, AuthorizePatch, ChangeTable,
       ReadRows, SyncRow
  <2>2. CASE SaveCatalog(r) \/ AuthorizeFields(r) \/ MoveField(r) \/ CreateFields(r) \/ EnsureFields(r)
    BY <2>2 DEF SaveCatalog, AuthorizeFields, MoveField, CreateFields, EnsureFields
  <2>3. CASE QueryRows(r) \/ AuthorizeRow(r) \/ ReadRow(r) \/ AddRow(r) \/ WriteTableRow(r)
             \/ AuthorizeDelete(r) \/ DeleteTableRow(r)
    BY <2>3 DEF QueryRows, AuthorizeRow, ReadRow, AddRow, WriteTableRow, AuthorizeDelete, DeleteTableRow
  <2>. QED  BY <1>2, <2>1, <2>2, <2>3 DEF CatalogSteps
<1>3. CASE ScriptsSteps(r)
  <2>1. CASE HandleSaveScript(r) \/ FindPrevious(r) \/ MergeScript(r) \/ WriteScriptFile(r) \/ RemoveOldFile(r)
    BY <2>1 DEF HandleSaveScript, FindPrevious, MergeScript, WriteScriptFile, RemoveOldFile
  <2>2. CASE HandleDeleteScript(r) \/ FindDeleted(r) \/ RemoveScriptFile(r) \/ HandlePublish(r) \/ ReadForm(r)
             \/ GetScript(r) \/ GetPublishedForm(r) \/ HandleWorkflowWebhook(r)
    BY <2>2 DEF HandleDeleteScript, FindDeleted, RemoveScriptFile, HandlePublish, ReadForm, GetScript,
       GetPublishedForm, HandleWorkflowWebhook
  <2>. QED  BY <1>3, <2>1, <2>2 DEF ScriptsSteps
<1>4. CASE CliSyncSteps(r)
  BY <1>4, CliSyncLeavesServer
<1>. QED  BY <1>1, <1>2, <1>3, <1>4

LEMMA StoreIsWritten ==
  ASSUME PlaceInv, [Next]_vars
  PROVE  UNCHANGED <<grants, roles, scripts, made, stamp, coincided>> \/ \E r \in due : Stores(r)
<1>1. (\/ \E r \in due : SignInSteps(r)
       \/ \E c \in callbacks : Callback(c)
       \/ Tick \/ (\E r \in due, b \in Browsers : AuthorizePage(r, b))
       \/ \E page \in shown : Authorize(page)) => UNCHANGED <<grants, roles, scripts, made, stamp, coincided>>
  BY SignInRests DEF accessVars, scriptVars
<1>2. Restart \/ (\E r \in due : Fail(r)) \/ UNCHANGED vars => UNCHANGED <<grants, roles, scripts, made, stamp, coincided>>
  BY DEF Restart, Fail, vars, storeVars, accessVars, scriptVars
<1>. QED  BY <1>1, <1>2, OthersLeaveStore, WhoseStep DEF PlaceInv

\* Grants: one for each target.
LEMMA SaveGrantKeepsTargets ==
  ASSUME TargetsInv, NEW g, SaveGrant(g)
  PROVE  TargetsInv'
  BY DEF TargetsInv, SaveGrant

LEMMA RoleGrantsKeepTargets ==
  ASSUME PlaceInv, AccessInv, TargetsInv, NEW r \in due, WriteRoleGrants(r)
  PROVE  TargetsInv'
<1>1. CASE grants' = grants
  BY <1>1 DEF TargetsInv
<1>2. CASE grants' # grants
  <2> DEFINE sub == RoleSubject(r.db, r.role)
             As(g) == [g EXCEPT !.sub = sub]
  <2>1. /\ \A g \in grants' : \/ g \in grants /\ g.sub # sub
                              \/ \E k \in GivesLevel(r.grants) : g = As(k)
        /\ CanReplaceRoleGrants(r.grants) /\ r.op = "roleGrants" /\ pc[r] = "role"
    BY <1>2 DEF WriteRoleGrants, ReplaceRoleGrants, GrantListForSubject, GivesLevel, At
  <2>2. \A k \in GivesLevel(r.grants) :
          /\ DOMAIN k = {"sub", "scope", "res", "item", "level"}
          /\ As(k).sub = sub /\ As(k).scope = k.scope /\ As(k).res = k.res /\ As(k).item = k.item
    <3>1. \A k \in GivesLevel(r.grants) : Grounded(k)
      BY <2>1 DEF AccessInv, Pending, RolePending
    <3>. QED  BY <3>1 DEF Grounded, HasResource
  <2>3. \A k, l \in GivesLevel(r.grants) : <<k.scope, k.res, k.item>> = <<l.scope, l.res, l.item>> => k = l
    BY <2>1 DEF CanReplaceRoleGrants, GivesLevel
  <2> SUFFICES ASSUME NEW g \in grants', NEW h \in grants', Target(g) = Target(h) PROVE g = h
    BY DEF TargetsInv
  <2>4. /\ g.sub = h.sub /\ g.scope = h.scope /\ g.res = h.res /\ g.item = h.item
    BY DEF Target
  <2>5. CASE g \in grants /\ h \in grants
    BY <2>5 DEF TargetsInv
  <2>6. CASE g \notin grants \/ h \notin grants
    <3>1. PICK k, l \in GivesLevel(r.grants) : g = As(k) /\ h = As(l)
      BY <2>1, <2>2, <2>4, <2>6
    <3>2. k = l
      BY <2>2, <2>3, <2>4, <3>1
    <3>. QED  BY <3>1, <3>2
  <2>. QED  BY <2>5, <2>6
<1>. QED  BY <1>1, <1>2

LEMMA NextTargets ==
  ASSUME PlaceInv, AccessInv, TargetsInv, [Next]_vars
  PROVE  TargetsInv'
<1>1. CASE grants' = grants
  BY <1>1 DEF TargetsInv
<1>2. CASE grants' # grants
  <2>1. PICK r \in due : Stores(r)
    BY <1>2, StoreIsWritten
  <2>2. CASE DeleteConflictingGrant(r)
    <3>1. grants' \subseteq grants
      BY <2>2 DEF DeleteConflictingGrant, DeleteGrant
    <3>. QED  BY <3>1 DEF TargetsInv
  <2>3. CASE WriteGrant(r) \/ GrantResourceOwner(r)
    <3>1. \E g : SaveGrant(g)
      BY <2>3, Zenon DEF WriteGrant, GrantResourceOwner
    <3>. QED  BY <3>1, SaveGrantKeepsTargets
  <2>4. CASE WriteRoleGrants(r)
    BY <2>4, RoleGrantsKeepTargets
  <2>. QED  BY <1>2, <2>1, <2>2, <2>3, <2>4 DEF Stores, WriteRole, CreateScript, WriteScriptRow,
       DeleteRowOfScript, WriteToken, accessVars
<1>. QED  BY <1>1, <1>2

\* Roles: one for each id, and for each name in a database.
LEMMA WriteRoleKeepsRoles ==
  ASSUME PlaceInv, RolesInv, CountsInv, NEW r \in due, WriteRole(r)
  PROVE  RolesInv' /\ CountsInv'
<1>1. r.op = "saveRole" /\ due \in Scenarios
  BY DEF WriteRole, At, PlaceInv, Progressing
<1>2. DOMAIN r.as = {"id", "db", "name"} /\ UNCHANGED <<stamp, coincided>>
  BY <1>1, StoreAssumption DEF WriteRole
<1>3. CASE UNCHANGED <<roles, made>>
  BY <1>2, <1>3 DEF RolesInv, CountsInv
<1>4. CASE ~UNCHANGED <<roles, made>>
  <2>1. CanSaveRole(r.as) /\ SaveRole(r.as) /\ (r.as.id = Nothing => made["role"] < Len(RoleIds))
    BY <1>4 DEF WriteRole
  <2>2. PICK id : id = IF r.as.id = Nothing THEN RoleIds[made["role"] + 1] ELSE r.as.id
    OBVIOUS
  <2>3. PICK row : row = [r.as EXCEPT !.id = id]
    OBVIOUS
  <2>4. row.id = id /\ row.db = r.as.db /\ row.name = r.as.name
    BY <1>2, <2>3
  <2>5. /\ roles' = {s \in roles : s.id # id} \cup {row}
        /\ made' = [made EXCEPT !["role"] = @ + (IF r.as.id = Nothing THEN 1 ELSE 0)]
    BY <2>1, <2>2, <2>3, <2>4 DEF SaveRole
  <2>6. id # Nothing
    <3>1. CASE r.as.id = Nothing
      <4>1. RoleIds \in Seq(Range(RoleIds)) /\ made["role"] \in Nat
        BY StoreAssumption DEF CountsInv
      <4>2. made["role"] + 1 \in DOMAIN RoleIds
        BY <2>1, <3>1, <4>1
      <4>3. id \in Range(RoleIds)
        BY <2>2, <3>1, <4>2 DEF Range
      <4>. QED  BY <4>3, StoreAssumption
    <3>. QED  BY <2>2, <3>1
  <2>7. ASSUME NEW s \in roles, s.id # id PROVE ~(s.db = row.db /\ s.name = row.name)
    <3>1. s.db = row.db /\ s.name = row.name => s.id = r.as.id
      BY <2>1, <2>4 DEF CanSaveRole, RoleNamed
    <3>2. s.id # Nothing
      BY DEF RolesInv
    <3>. QED  BY <2>2, <2>7, <3>1, <3>2
  <2>8. RolesInv'
    BY <2>4, <2>5, <2>6, <2>7 DEF RolesInv
  <2>9. CountsInv'
    <3>1. made' = [made EXCEPT !["role"] = @ + 1] \/ made' = [made EXCEPT !["role"] = @ + 0]
      BY <2>5
    <3>. QED  BY <1>2, <3>1 DEF CountsInv
  <2>. QED  BY <2>8, <2>9
<1>. QED  BY <1>3, <1>4

LEMMA NextRoles ==
  ASSUME PlaceInv, RolesInv, CountsInv, [Next]_vars
  PROVE  RolesInv'
<1>1. CASE roles' = roles
  BY <1>1 DEF RolesInv
<1>2. CASE roles' # roles
  <2>1. PICK r \in due : Stores(r)
    BY <1>2, StoreIsWritten
  <2>2. WriteRole(r)
    BY <1>2, <2>1 DEF Stores, DeleteConflictingGrant, WriteGrant, WriteRoleGrants, CreateScript, WriteScriptRow,
       GrantResourceOwner, DeleteRowOfScript, WriteToken, accessVars
  <2>. QED  BY <2>2, WriteRoleKeepsRoles
<1>. QED  BY <1>1, <1>2

\* A row is written under a name that no other one of its kind and database has.
LEMMA NameOfStep ==
  ASSUME PlaceInv, AccessInv, KindsInv, NEW r \in due, CreateScript(r) \/ WriteScriptRow(r) \/ WriteToken(r),
         ~UNCHANGED scriptVars
  PROVE  \E i \in ScriptIds : \E row :
           /\ DOMAIN row = Columns /\ WriteRow(i, row) /\ ~NameTaken(Kind(i), row, i)
           /\ \/ made' = made
              \/ \E kind \in ItemScopes : made' = [made EXCEPT ![kind] = @ + 1]
<1>0. \A kind, i, row, w : w.db = row.db /\ w.name = row.name /\ ~NameTaken(kind, row, i) => ~NameTaken(kind, w, i)
  BY DEF NameTaken
<1>1. CASE CreateScript(r)
  <2>1. /\ r.op \in SaveOps /\ pc[r] = "row" /\ Changing(r)
        /\ made[held[r].kind] < Len(IdsOf(held[r].kind))
    BY <1>1 DEF CreateScript, Changing, ChangeOps, ChangeLabels
  <2>2. PICK kind \in ItemScopes : kind = held[r].kind
    BY <2>1 DEF AccessInv, Pending, SavePending
  <2>3. PICK row, id : row = held[r].row /\ id = NextScriptId(kind)
    OBVIOUS
  <2>4. DOMAIN row = Columns /\ id \in ScriptIds /\ Kind(id) = kind
    BY <2>1, <2>2, <2>3, NextIdIsNew, NextIdKind DEF AccessInv, Pending, SavePending, OfItsKind
  <2>5. /\ IF kind = "workflow" THEN CreateWorkflow(row) ELSE Create(kind, row)
        /\ ~NameTaken(kind, row, id)
    BY <1>1, <2>2, <2>3 DEF CreateScript
  <2>6. PICK w : Create(kind, w) /\ w \in {row, [row EXCEPT !.enabled = TRUE]}
    BY <2>5 DEF CreateWorkflow
  <2>7. DOMAIN w = Columns /\ w.db = row.db /\ w.name = row.name
    BY <2>4, <2>6 DEF Columns
  <2>8. ~NameTaken(Kind(id), w, id)
    BY <1>0, <2>4, <2>5, <2>7
  <2>. QED  BY <2>2, <2>3, <2>4, <2>6, <2>7, <2>8 DEF Create
<1>2. CASE WriteScriptRow(r)
  <2>1. r.op \in SaveOps /\ pc[r] = "write" /\ Changing(r)
    BY <1>2 DEF WriteScriptRow, Changing, ChangeOps, ChangeLabels
  <2>2. PICK i, row, kind : i = held[r].item /\ row = held[r].row /\ kind = held[r].kind
    OBVIOUS
  <2>3. i # Nothing /\ DOMAIN row = Columns
    BY <2>1, <2>2 DEF AccessInv, Pending, SavePending
  <2>4. i \in ScriptIds /\ Kind(i) = kind
    BY <2>1, <2>2, <2>3 DEF KindsInv, Kinds, SaveKinds, OfItsKind
  <2>5. WriteRow(i, row) /\ ~NameTaken(kind, row, i) /\ made' = made
    BY <1>2, <2>2 DEF WriteScriptRow, SaveScript
  <2>. QED  BY <2>3, <2>4, <2>5
<1>3. CASE WriteToken(r)
  <2>1. r.op \in PublishOps /\ pc[r] = "token" /\ held[r].row # NoScript /\ Changing(r)
    BY <1>3 DEF WriteToken, Changing, ChangeOps, ChangeLabels, PublishOps
  <2>2. PICK i, row : i = r.item /\ row = held[r].row
    OBVIOUS
  <2>3. HandedOut(i) /\ DOMAIN row = Columns
    BY <2>1, <2>2 DEF AccessInv, Pending, ItemPending
  <2>4. i \in ScriptIds /\ Kind(i) = "form"
    BY <2>1, <2>2, <2>3, HandedOutIds, ScriptAssumption DEF PlaceInv, Progressing, PublishOps
  <2>5. PICK v : WriteRow(i, v) /\ v \in {row, MergedForm(scripts[i], row)} /\ ~NameTaken("form", row, i) /\ made' = made
    BY <1>3, <2>2 DEF WriteToken, SaveScript
  <2>6. DOMAIN v = Columns /\ v.db = row.db /\ v.name = row.name
    BY <2>3, <2>5 DEF MergedForm, Columns
  <2>7. ~NameTaken(Kind(i), v, i)
    BY <1>0, <2>4, <2>5, <2>6
  <2>. QED  BY <2>4, <2>5, <2>6, <2>7
<1>. QED  BY <1>1, <1>2, <1>3

LEMMA WrittenNames ==
  ASSUME AccessInv, NamesInv, NEW i \in ScriptIds, NEW row, DOMAIN row = Columns, WriteRow(i, row),
         ~NameTaken(Kind(i), row, i)
  PROVE  NamesInv'
<1>1. /\ \A j \in ScriptIds : j # i => scripts'[j] = scripts[j]
      /\ scripts'[i].db = row.db /\ scripts'[i].name = row.name
  BY RowIsWritten
<1>2. ASSUME NEW j \in ScriptIds, j # i, Exists(j), Kind(j) = Kind(i)
      PROVE  ~(scripts[j].db = row.db /\ scripts[j].name = row.name)
  BY <1>2 DEF NameTaken, ScriptsOf
<1>3. \A j \in ScriptIds : j # i => (Exists(j)' <=> Exists(j))
  BY <1>1 DEF Exists
<1> SUFFICES ASSUME NEW j \in ScriptIds, NEW k \in ScriptIds, Exists(j)', Exists(k)', Kind(j) = Kind(k),
                    scripts'[j].db = scripts'[k].db, scripts'[j].name = scripts'[k].name
             PROVE  j = k
  BY DEF NamesInv
<1>. QED  BY <1>1, <1>2, <1>3 DEF NamesInv

LEMMA NextNames ==
  ASSUME PlaceInv, AccessInv, KindsInv, StoreInv, [Next]_vars
  PROVE  NamesInv' /\ CountsInv'
<1>1. CASE UNCHANGED <<scripts, made, stamp, coincided>>
  BY <1>1 DEF StoreInv, NamesInv, CountsInv, Exists
<1>2. CASE ~UNCHANGED <<scripts, made, stamp, coincided>>
  <2>1. PICK r \in due : Stores(r)
    BY <1>2, StoreIsWritten
  <2>2. CASE WriteRole(r)
    <3>1. scripts' = scripts
      BY <2>2 DEF WriteRole
    <3>. QED  BY <2>2, <3>1, WriteRoleKeepsRoles DEF StoreInv, NamesInv, Exists
  <2>3. CASE DeleteRowOfScript(r)
    <3>1. scripts' = [scripts EXCEPT ![r.item] = NoScript] /\ UNCHANGED <<made, stamp, coincided>>
      BY <2>3 DEF DeleteRowOfScript, DeleteScriptRow
    <3>2. \A i \in ScriptIds : Exists(i)' => Exists(i) /\ scripts'[i] = scripts[i]
      BY <3>1 DEF AccessInv, IdsInv, Exists
    <3>. QED  BY <3>1, <3>2 DEF StoreInv, NamesInv, CountsInv
  <2>4. CASE CreateScript(r) \/ WriteScriptRow(r) \/ WriteToken(r)
    <3>0. PICK i \in ScriptIds : \E row :
            /\ DOMAIN row = Columns /\ WriteRow(i, row) /\ ~NameTaken(Kind(i), row, i)
            /\ \/ made' = made
               \/ \E kind \in ItemScopes : made' = [made EXCEPT ![kind] = @ + 1]
      BY <1>2, <2>4, NameOfStep DEF scriptVars
    <3>1. PICK row :
            /\ DOMAIN row = Columns /\ WriteRow(i, row) /\ ~NameTaken(Kind(i), row, i)
            /\ \/ made' = made
               \/ \E kind \in ItemScopes : made' = [made EXCEPT ![kind] = @ + 1]
      BY <3>0
    <3>2. CountsInv'
      BY <3>1 DEF StoreInv, CountsInv, WriteRow, ItemScopes
    <3>. QED  BY <3>1, <3>2, WrittenNames DEF StoreInv
  <2>. QED  BY <1>2, <2>1, <2>2, <2>3, <2>4 DEF Stores, DeleteConflictingGrant, WriteGrant, WriteRoleGrants,
       GrantResourceOwner, scriptVars
<1>. QED  BY <1>1, <1>2

LEMMA NextStore == PlaceInv /\ AccessInv /\ KindsInv /\ StoreInv /\ [Next]_vars => StoreInv'
  BY NextTargets, NextRoles, NextNames DEF StoreInv

LEMMA InitStore == Init => StoreInv
<1> SUFFICES ASSUME Init PROVE StoreInv
  OBVIOUS
<1>1. /\ grants = FirstGrants /\ roles = FirstRoles /\ scripts = [i \in ScriptIds |-> NoScript] /\ stamp = 0
      /\ coincided = {} /\ made = [workflow |-> 0, form |-> 0, role |-> Cardinality(FirstRoles)]
  BY DEF Init, StoreInit
<1>2. Cardinality(FirstRoles) \in Nat
  BY StoreAssumption, FS_CardinalityType
<1>3. TargetsInv
  BY <1>1, GrantAssumption DEF TargetsInv
<1>4. RolesInv
  BY <1>1, StoreAssumption DEF RolesInv
<1>5. NamesInv
  BY <1>1 DEF NamesInv, Exists
<1>6. CountsInv
  BY <1>1, <1>2 DEF CountsInv
<1>. QED  BY <1>3, <1>4, <1>5, <1>6 DEF StoreInv

-----------------------------------------------------------------------------
(* Types: users and sessions.                                              *)

\* A user is one of the first, or has the id of the request that wrote it; a
\* session has the id of the request that made it.
OriginsInv ==
  /\ \A u \in users : \/ \E v \in FirstUsers : v.id = u.id
                      \/ \E r \in due : r.id = u.id /\ pc[r] \in {"session", "done"}
  /\ \A s \in sessions : \E r \in due : r.id = s.token /\ pc[r] \in {"store", "done"}

UniqueInv ==
  /\ \A u, v \in users : u.id = v.id => u = v
  /\ \A s, t \in sessions : s.token = t.token => s = t

\* What a request is about to write is the user of the email, or has its own id.
UpsertsInv ==
  \A r \in due : pc[r] = "upsert" =>
    held[r].id = r.id \/ \E u \in UserByEmail(held[r].email) : u.id = held[r].id

IdentitiesInv == OriginsInv /\ UniqueInv /\ UpsertsInv

\* Requests do not come back to where they wrote.
Onward ==
  /\ due' = due
  /\ \A q \in due : /\ pc[q] \in {"session", "done"} => pc'[q] \in {"session", "done"}
                    /\ pc[q] \in {"store", "done"} => pc'[q] \in {"store", "done"}

LEMMA MovesOnward ==
  ASSUME NEW r \in due, Moves(r), pc[r] # "done",
         pc[r] \in {"session", "store"} => pc'[r] = "done"
  PROVE  Onward
  BY DEF Moves, Onward

LEMMA SignInOnward ==
  ASSUME PlaceInv, NEW r \in due, SignInSteps(r), pc[r] \in {"session", "store"}
  PROVE  pc'[r] = "done"
<1>0. Progressing /\ Placed
  BY DEF PlaceInv
<1>1. OpenSession(r) \/ SaveCredentials(r)
  BY DEF SignInSteps, Register, Upsert, Login, Me, Logout, OIDCStart, OIDCCallback, BrowserLogin,
     LoginTimesOut, ResendToken, Redeem, IssueToken, CliLogout, RemoveCredentials, At
<1>. QED  BY <1>0, <1>1 DEF OpenSession, SaveCredentials, Answer, Progressing

LEMMA NextOnward ==
  ASSUME PlaceInv, RequestsInv, [Next]_vars
  PROVE  Onward
<1>0. Progressing /\ Placed
  BY DEF PlaceInv
<1>1. ASSUME NEW r \in due, SignInSteps(r), Steps(r, SignInOps) PROVE Onward
  BY <1>0, <1>1, SignInOnward, SignInEnds, MovesOnward DEF Steps
<1>2. ASSUME NEW c \in callbacks, NEW r \in due, TakesCallback(r, c), Steps(r, SignInOps) PROVE Onward
  BY <1>2, MovesOnward DEF Steps, TakesCallback
<1>3. ASSUME NEW r \in due,
             \/ AccessSteps(r) /\ Steps(r, AccessOps)
             \/ CatalogSteps(r) /\ Steps(r, CatalogOps)
             \/ ScriptsSteps(r) /\ Steps(r, ScriptsOps)
             \/ CliSyncSteps(r) /\ Steps(r, CliSyncOps)
      PROVE  Onward
  <2>1. Moves(r) /\ r.op \notin SignInOps
    BY <1>3 DEF Steps, AccessOps, CatalogOps, ScriptsOps, CliSyncOps, ChangeOps, SaveOps, SignInOps
  <2>2. pc[r] \notin {"session", "store"}
    BY <1>0, <2>1 DEF Placed, PlacedAt, SignInOps
  <2>3. pc[r] # "done"
    BY <1>0, <1>3, AccessEnds, CatalogEnds, ScriptsEnds, CliSyncEnds, CommandSets
  <2>. QED  BY <2>1, <2>2, <2>3, MovesOnward
<1>4. ASSUME NEW r \in due, Fail(r) PROVE Onward
  <2>1. Moves(r) /\ (pc'[r] = "done" \/ r.op \in {"push", "workflowSet"})
    BY <1>0, <1>4, FailSteps
  <2>2. pc[r] # "done"
    BY <1>4 DEF Fail, StatementFails, GoesOn, Handled, UnderWay
  <2>3. r.op \in {"push", "workflowSet"} => pc[r] \notin {"session", "store"}
    BY <1>0 DEF Placed, PlacedAt
  <2>. QED  BY <2>1, <2>2, <2>3, MovesOnward
<1>5. CASE Restart
  <2>1. \A q \in due : GoesOn(q) => pc[q] \notin {"session", "store", "done"}
    BY <1>0 DEF GoesOn, Handled, UnderWay, Placed, PlacedAt
  <2>. QED  BY <1>0, <1>5, <2>1, RestartSteps DEF Onward
<1>6. CASE Tick \/ (\E r \in due, b \in Browsers : AuthorizePage(r, b))
           \/ (\E page \in shown : Authorize(page)) \/ UNCHANGED vars
  BY <1>6 DEF Tick, AuthorizePage, Authorize, vars, requestVars, Onward
<1>. QED  BY <1>0, <1>1, <1>2, <1>3, <1>4, <1>5, <1>6, WhoseStep

\* No user is written and no session made.
LEMMA QuietKeepsIdentities ==
  ASSUME IdentitiesInv, Onward, users' = users, sessions' \subseteq sessions,
         \A q \in due : pc'[q] = "upsert" => pc[q] = "upsert" /\ held'[q] = held[q]
  PROVE  IdentitiesInv'
<1>1. OriginsInv'
  BY DEF IdentitiesInv, OriginsInv, Onward
<1>2. UniqueInv'
  BY DEF IdentitiesInv, UniqueInv
<1>3. UpsertsInv'
  BY DEF IdentitiesInv, UpsertsInv, Onward, UserByEmail
<1>. QED  BY <1>1, <1>2, <1>3 DEF IdentitiesInv

LEMMA BeginUpsertKeepsIdentities ==
  ASSUME Progressing, IdentitiesInv, Onward, NEW r \in due, NEW email, NEW password,
         BeginUpsert(r, [id |-> r.id, email |-> email, password |-> password]),
         UNCHANGED <<users, sessions>>
  PROVE  IdentitiesInv'
<1>1. PICK user : user = [id |-> r.id, email |-> email, password |-> password]
  OBVIOUS
<1> DEFINE entry == IF UserByEmail(email) = {} THEN user
                    ELSE [user EXCEPT !.id = (CHOOSE u \in UserByEmail(email) : TRUE).id]
<1>2. pc'[r] = "upsert" /\ held'[r] = entry /\ \A q \in due \ {r} : pc'[q] = pc[q] /\ held'[q] = held[q]
  BY <1>1 DEF BeginUpsert, Goto, Progressing
<1>3. entry.id = r.id \/ \E u \in UserByEmail(entry.email) : u.id = entry.id
  <2>1. CASE UserByEmail(email) = {}
    BY <1>1, <2>1
  <2>2. CASE UserByEmail(email) # {}
    <3>1. PICK v \in UserByEmail(email) : v = CHOOSE u \in UserByEmail(email) : TRUE
      BY <2>2
    <3>2. entry = [user EXCEPT !.id = v.id]
      BY <2>2, <3>1
    <3>3. entry.id = v.id /\ entry.email = email
      BY <1>1, <3>2
    <3>. QED  BY <3>3
  <2>. QED  BY <2>1, <2>2
<1> HIDE DEF entry
<1>4. UpsertsInv'
  <2>1. \A email2 : UserByEmail(email2)' = UserByEmail(email2)
    BY DEF UserByEmail
  <2>2. (held[r].id = r.id \/ \E u \in UserByEmail(held[r].email) : u.id = held[r].id)'
    BY <1>2, <1>3, <2>1
  <2>. QED  BY <1>2, <2>1, <2>2 DEF IdentitiesInv, UpsertsInv, Onward
<1>5. OriginsInv' /\ UniqueInv'
  BY DEF IdentitiesInv, OriginsInv, UniqueInv, Onward
<1>. QED  BY <1>4, <1>5 DEF IdentitiesInv

\* A user that is written has the id of the one with its email, or a new one.
LEMMA UpsertKeepsIdentities ==
  ASSUME PlaceInv, SessionsInv, IdentitiesInv, Onward, NEW r \in due, Upsert(r)
  PROVE  IdentitiesInv'
<1>0. Progressing /\ Placed
  BY DEF PlaceInv
<1>1. /\ pc[r] = "upsert" /\ pc'[r] = "session" /\ sessions' = sessions
      /\ \A q \in due \ {r} : pc'[q] = pc[q] /\ held'[q] = held[q]
  BY <1>0 DEF Upsert, Goto, Progressing
<1> DEFINE own == held[r]
<1>2. {"id", "email", "password"} = DOMAIN own
  <2>1. own = [id |-> own.id, email |-> r.email, password |-> own.password]
    BY <1>0, <1>1 DEF SessionsInv, Entering, Placed, PlacedAt, UpsertOps
  <2>. QED  BY <2>1
<1>3. \A u : [own EXCEPT !.id = u.id].id = u.id /\ [own EXCEPT !.id = u.id].email = own.email
  BY <1>2
<1>4. CASE UserByEmail(own.email) = {}
  <2>1. users' = users \cup {own} /\ own.id = r.id
    BY <1>1, <1>4 DEF Upsert, UpsertUser, IdentitiesInv, UpsertsInv
  <2>2. \A u \in users : u.id # r.id
    <3>1. \A q \in due : q.id = r.id => q = r
      BY <1>0, RequestAssumption DEF Progressing
    <3>2. \A v \in FirstUsers : v.id # r.id
      BY <1>0, StoreAssumption DEF Progressing
    <3>. QED  BY <1>1, <3>1, <3>2 DEF IdentitiesInv, OriginsInv
  <2>3. OriginsInv'
    BY <1>1, <2>1 DEF IdentitiesInv, OriginsInv, Onward
  <2>4. UniqueInv'
    BY <1>1, <2>1, <2>2 DEF IdentitiesInv, UniqueInv
  <2>5. UpsertsInv'
    BY <1>1, <2>1 DEF IdentitiesInv, UpsertsInv, Onward, UserByEmail
  <2>. QED  BY <2>3, <2>4, <2>5 DEF IdentitiesInv
<1>5. CASE UserByEmail(own.email) # {}
  <2> DEFINE as(u) == IF u.email = own.email THEN [own EXCEPT !.id = u.id] ELSE u
  <2>1. users' = {as(u) : u \in users}
    BY <1>5 DEF Upsert, UpsertUser
  <2>2. \A u : as(u).id = u.id /\ as(u).email = u.email
    BY <1>3
  <2>6. /\ \A v \in users' : \E u \in users : v = as(u)
        /\ \A u \in users : as(u) \in users'
    BY <2>1
  <2> HIDE DEF as
  <2>3. OriginsInv'
    <3>1. \A v \in users' : \E u \in users : v.id = u.id
      BY <2>2, <2>6
    <3>. QED  BY <1>1, <3>1 DEF IdentitiesInv, OriginsInv, Onward
  <2>4. UniqueInv'
    <3>1. ASSUME NEW u \in users', NEW v \in users', u.id = v.id PROVE u = v
      <4>1. PICK x \in users : u = as(x)
        BY <2>6
      <4>2. PICK y \in users : v = as(y)
        BY <2>6
      <4>3. x.id = y.id
        BY <2>2, <3>1, <4>1, <4>2
      <4>4. x = y
        BY <4>3 DEF IdentitiesInv, UniqueInv
      <4>. QED  BY <4>1, <4>2, <4>4
    <3>. QED  BY <1>1, <3>1 DEF IdentitiesInv, UniqueInv
  <2>5. UpsertsInv'
    <3>1. \A u \in users : \E v \in users' : v.id = u.id /\ v.email = u.email
      BY <2>2, <2>6
    <3>. QED  BY <1>1, <3>1 DEF IdentitiesInv, UpsertsInv, Onward, UserByEmail
  <2>. QED  BY <2>3, <2>4, <2>5 DEF IdentitiesInv
<1>. QED  BY <1>4, <1>5

\* A session is made by a request that made none before.
LEMMA CreateKeepsIdentities ==
  ASSUME Progressing, IdentitiesInv, Onward, NEW r \in due, NEW id, NEW expires,
         CreateSession(r.id, id, expires), pc[r] \notin {"store", "done"}, pc'[r] \in {"store", "done"},
         users' = users, \A q \in due : pc'[q] = "upsert" => pc[q] = "upsert" /\ held'[q] = held[q]
  PROVE  IdentitiesInv'
<1>1. PICK new : new = [token |-> r.id, user |-> id, expires |-> expires]
  OBVIOUS
<1>2. sessions' = sessions \cup {new} /\ new.token = r.id
  BY <1>1 DEF CreateSession
<1>3. \A s \in sessions : s.token # r.id
  BY RequestAssumption DEF IdentitiesInv, OriginsInv, Progressing
<1>4. OriginsInv'
  BY <1>2 DEF IdentitiesInv, OriginsInv, Onward
<1>5. UniqueInv'
  BY <1>2, <1>3 DEF IdentitiesInv, UniqueInv
<1>6. UpsertsInv'
  BY DEF IdentitiesInv, UpsertsInv, Onward, UserByEmail
<1>. QED  BY <1>4, <1>5, <1>6 DEF IdentitiesInv

LEMMA SignInKeepsIdentities ==
  ASSUME PlaceInv, SessionsInv, IdentitiesInv, Onward, NEW r \in due, SignInSteps(r)
  PROVE  IdentitiesInv'
<1>0. /\ due' = due /\ Progressing
      /\ \A q \in due \ {r} : pc'[q] = pc[q] /\ held'[q] = held[q]
  BY SignInMoves DEF PlaceInv, Steps, Moves
<1> USE DEF signInVars, storeVars, accountVars, Goto, Answer, Progressing
<1>1. CASE Register(r)
  <2>1. CASE r.valid
    BY <1>0, <1>1, <2>1, BeginUpsertKeepsIdentities DEF Register
  <2>2. CASE ~r.valid
    <3>1. pc'[r] = "done" /\ UNCHANGED <<users, sessions>>
      BY <1>0, <1>1, <2>2 DEF Register
    <3>. QED  BY <1>0, <3>1, QuietKeepsIdentities
  <2>. QED  BY <2>1, <2>2
<1>2. CASE OIDCCallback(r)
  <2>1. CASE BeginUpsert(r, [id |-> r.id, email |-> r.email, password |-> Nothing])
    BY <1>0, <1>2, <2>1, BeginUpsertKeepsIdentities DEF OIDCCallback
  <2>2. CASE ~BeginUpsert(r, [id |-> r.id, email |-> r.email, password |-> Nothing])
    <3>1. pc'[r] = "done" /\ UNCHANGED <<users, sessions>>
      BY <1>0, <1>2, <2>2 DEF OIDCCallback
    <3>. QED  BY <1>0, <3>1, QuietKeepsIdentities
  <2>. QED  BY <2>1, <2>2
<1>3. CASE Upsert(r)
  BY <1>3, UpsertKeepsIdentities
<1>4. CASE OpenSession(r)
  <2>1. pc[r] = "session" /\ pc'[r] = "done" /\ users' = users
    BY <1>0, <1>4 DEF OpenSession
  <2>. QED  BY <1>0, <1>4, <2>1, CreateKeepsIdentities DEF OpenSession
<1>5. CASE IssueToken(r)
  <2>1. pc[r] = "issue" /\ pc'[r] \in {"store", "done"} /\ users' = users
    BY <1>0, <1>5 DEF IssueToken
  <2>2. CASE sessions' = sessions
    BY <1>0, <2>1, <2>2, QuietKeepsIdentities
  <2>3. CASE sessions' # sessions
    <3>1. CreateSession(r.id, held[r].user, clock + CliSessionTTL)
      BY <1>5, <2>3 DEF IssueToken
    <3>. QED  BY <1>0, <2>1, <3>1, CreateKeepsIdentities
  <2>. QED  BY <2>2, <2>3
<1>6. CASE Login(r) \/ Me(r) \/ Logout(r) \/ OIDCStart(r) \/ BrowserLogin(r) \/ LoginTimesOut(r)
           \/ ResendToken(r) \/ Redeem(r) \/ SaveCredentials(r) \/ CliLogout(r) \/ RemoveCredentials(r)
  <2>1. pc'[r] # "upsert" /\ users' = users /\ sessions' \subseteq sessions
    BY <1>0, <1>6 DEF Login, Me, Logout, OIDCStart, BrowserLogin, LoginTimesOut, ResendToken, Redeem,
       SaveCredentials, CliLogout, RemoveCredentials, DropExpired, DeleteSession
  <2>. QED  BY <1>0, <2>1, QuietKeepsIdentities
<1>. QED  BY <1>1, <1>2, <1>3, <1>4, <1>5, <1>6 DEF SignInSteps

LEMMA InitIdentities == Init => IdentitiesInv
  BY StoreAssumption
  DEF Init, RequestsInit, StoreInit, IdentitiesInv, OriginsInv, UniqueInv, UpsertsInv

LEMMA NextIdentities ==
  PlaceInv /\ RequestsInv /\ SessionsInv /\ IdentitiesInv /\ [Next]_vars => IdentitiesInv'
<1> SUFFICES ASSUME PlaceInv, RequestsInv, SessionsInv, IdentitiesInv, [Next]_vars PROVE IdentitiesInv'
  OBVIOUS
<1>0. Progressing /\ Placed /\ Onward
  BY NextOnward DEF PlaceInv
<1> USE DEF accountVars, signInVars, storeVars
<1>1. ASSUME NEW r \in due, SignInSteps(r) PROVE IdentitiesInv'
  BY <1>0, <1>1, SignInKeepsIdentities
<1>2. ASSUME NEW c \in callbacks, NEW r \in due, Callback(c), TakesCallback(r, c),
             Steps(r, SignInOps)
      PROVE  IdentitiesInv'
  <2>1. pc'[r] = "redeem"
    BY <1>0, <1>2 DEF TakesCallback, Goto, Progressing
  <2>. QED  BY <1>0, <1>2, <2>1, QuietKeepsIdentities DEF Callback, Steps, Moves
<1>3. ASSUME NEW r \in due,
             Steps(r, AccessOps) \/ Steps(r, CatalogOps) \/ Steps(r, ScriptsOps) \/ Steps(r, CliSyncOps),
             UNCHANGED <<signInVars, accountVars>>
      PROVE  IdentitiesInv'
  <2>1. Moves(r) /\ r.op \notin UpsertOps /\ PlacedAt(r.op, pc'[r])
    BY <1>3 DEF Steps, AccessOps, CatalogOps, ScriptsOps, CliSyncOps, ChangeOps, SaveOps, UpsertOps
  <2>2. pc'[r] # "upsert"
    BY <2>1 DEF PlacedAt, UpsertOps
  <2>. QED  BY <1>0, <1>3, <2>1, <2>2, QuietKeepsIdentities DEF Moves
<1>4. ASSUME NEW r \in due, Fail(r) PROVE IdentitiesInv'
  <2>1. Moves(r) /\ pc'[r] # "upsert"
    BY <1>0, <1>4, FailSteps
  <2>. QED  BY <1>0, <1>4, <2>1, QuietKeepsIdentities DEF Moves, Fail
<1>5. CASE Restart
  <2>1. \A q \in due : pc'[q] = "upsert" => pc'[q] = pc[q] /\ held'[q] = held[q]
    BY <1>0, <1>5, RestartSteps
  <2>. QED  BY <1>0, <1>5, <2>1, QuietKeepsIdentities DEF Restart
<1>6. CASE Tick \/ (\E r \in due, b \in Browsers : AuthorizePage(r, b)) \/ UNCHANGED vars
  BY <1>0, <1>6, QuietKeepsIdentities DEF Tick, AuthorizePage, vars, requestVars, DropExpired
<1>7. ASSUME NEW page \in shown, Authorize(page) PROVE IdentitiesInv'
  BY <1>0, <1>7, QuietKeepsIdentities DEF Authorize, requestVars, DropExpired
<1>. QED  BY <1>0, <1>1, <1>2, <1>3, <1>4, <1>5, <1>6, <1>7, WhoseStep

LEMMA StoreTypes == AccessInv /\ StoreInv /\ SessionsInv /\ IdentitiesInv => StoreTypeOK
<1> SUFFICES ASSUME AccessInv, StoreInv, SessionsInv, IdentitiesInv PROVE StoreTypeOK
  OBVIOUS
<1>1. DOMAIN scripts = ScriptIds
  BY DEF AccessInv, IdsInv
<1>2. (\A g, h \in grants : Target(g) = Target(h) => g = h) /\ CountsInv
  BY DEF StoreInv, TargetsInv
<1>3. \A r, s \in roles : (r.id = s.id \/ (r.db = s.db /\ r.name = s.name)) => r = s
  BY DEF StoreInv, RolesInv
<1>4. \A u, v \in users : (u.id = v.id \/ u.email = v.email) => u = v
  BY DEF SessionsInv, IdentitiesInv, UniqueInv
<1>5. \A s, t \in sessions : s.token = t.token => s = t
  BY DEF IdentitiesInv, UniqueInv
<1>6. \A i, j \in ScriptIds :
        (/\ scripts[i] # NoScript /\ scripts[j] # NoScript /\ Kind(i) = Kind(j)
         /\ scripts[i].db = scripts[j].db /\ scripts[i].name = scripts[j].name) => i = j
  BY DEF StoreInv, NamesInv, Exists
<1>. QED  BY <1>1, <1>2, <1>3, <1>4, <1>5, <1>6 DEF StoreTypeOK, CountsInv

-----------------------------------------------------------------------------
(* Types.                                                                  *)

\* Where requests are, what they hold and what that says of the directory.
Grounds == PlaceInv /\ AccessInv /\ RequestsInv /\ KindsInv /\ DirInv

\* Who signs in, and with what.
Accounts == CodesInv /\ SessionsInv /\ LoginsInv /\ IdentitiesInv /\ BrowsersInv /\ UniqueCodes

\* The catalog and its tables.
Rows == ChangesInv /\ TablesInv /\ RowsInv

TypesInv == Grounds /\ StoreInv /\ Accounts /\ Rows

LEMMA InitTypes == Init => TypesInv
  BY InitPlaced, InitAccess, InitRequests, InitDir, InitStore, InitCodes, InitSessions, InitLogins,
     InitIdentities, InitBrowsers, InitChanges, InitTables, InitRows
  DEF TypesInv, Grounds, Accounts, Rows

LEMMA NextTypes == TypesInv /\ [Next]_vars => TypesInv'
<1> SUFFICES ASSUME TypesInv, [Next]_vars PROVE TypesInv'
  OBVIOUS
<1>0. Grounds /\ StoreInv /\ Accounts /\ Rows
  BY DEF TypesInv
<1>1. Grounds'
  BY <1>0, NextPlaced, NextAccess, NextRequests, KindsStay, NextDir DEF Grounds
<1>2. StoreInv'
  BY <1>0, NextStore DEF Grounds
<1>3. Accounts'
  BY <1>0, NextCodes, NextSessions, NextLogins, NextIdentities, NextBrowsers, NextUniqueCodes
  DEF Grounds, Accounts
<1>4. Rows'
  BY <1>0, NextChanges, NextTables, NextRows DEF Grounds, Rows
<1>. QED  BY <1>1, <1>2, <1>3, <1>4 DEF TypesInv

\* Requests are at their statements and answered once, the columns of unique
\* indices of src/internal/systemdb/db.go are unique, the metadata file holds a
\* catalog that Validate of src/internal/metadata/metadata.go accepts, and no
\* two rows of a table share an id; whatever statements fail, and through
\* restarts.
THEOREM TypesAreCorrect == Spec => []TypeOK
<1>1. Spec => []TypesInv
  BY InitTypes, NextTypes, PTL DEF Spec
<1>2. TypesInv => TypeOK
  <2>1. TypesInv => StoreTypeOK
    BY StoreTypes DEF TypesInv, Grounds, Accounts
  <2>2. TypesInv => AccountsTypeOK
    BY AccountsTypes DEF TypesInv, Accounts
  <2>3. TypesInv => RequestsTypeOK /\ CliSyncTypeOK /\ CatalogTypeOK
    BY CliSyncTypes, CatalogTypes DEF TypesInv, Grounds, Rows, RequestsInv
  <2>. QED  BY <2>1, <2>2, <2>3 DEF TypeOK
<1>. QED  BY <1>1, <1>2, PTL
=============================================================================
