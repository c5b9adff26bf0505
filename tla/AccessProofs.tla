---------------------------- MODULE AccessProofs ----------------------------
(***************************************************************************)
(* Two theorems about the permissions of ApiServer. No subject has both a  *)
(* grant on all items of a resource and one on a single item, but by the   *)
(* exceptions that GrantsExclusive names. And what a reader is shown is    *)
(* what the reader may use.                                                *)
(*                                                                         *)
(* Whether a grant on all workflows of a database covers one on a single   *)
(* workflow depends on the database of the workflow now. So the invariant  *)
(* is as much about the handlers that save and delete workflows and forms: *)
(* one that nobody else changes finds the row as it was when the handler   *)
(* was allowed to change it, and no id is handed out twice.                *)
(*                                                                         *)
(* What is shown is computed from the bits and levels of the grants, what  *)
(* may be used from the grants themselves and from the views of the table. *)
(* So the second theorem rests on the levels that grants have, and on      *)
(* views that every change of the schema leaves valid: their bases exist   *)
(* and form no cycle.                                                      *)
(***************************************************************************)
EXTENDS CatalogProofs, WellFoundedInduction

\* The id of a workflow or form that was created at some time.
HandedOut(i) ==
  \E kind \in ItemScopes : \E n \in DOMAIN IdsOf(kind) : n <= made[kind] /\ i = IdsOf(kind)[n]

\* The next ids are new, and what exists was created.
IdsInv ==
  /\ DOMAIN made = {"workflow", "form", "role"} /\ DOMAIN scripts = ScriptIds
  /\ \A kind \in ItemScopes : made[kind] \in Nat
  /\ \A i \in ScriptIds : Exists(i) => HandedOut(i) /\ DOMAIN scripts[i] = Columns

\* A level of a grant.
Ranged(level) == level \in None .. FieldAll

\* A grant on something: a set of a database, or an item that was created.
Grounded(g) ==
  /\ HasResource(g) /\ Ranged(g.level)
  /\ g.scope \in SetScopes => g.res[1] # NoName
  /\ (g.scope \in ItemScopes /\ g.res[1] \in ScriptIds) => HandedOut(g.res[1])

\* Workflows and forms that two handlers changed are exempt.
Exempt(g) == g.scope \in ItemScopes /\ g.res[1] \in contended

Clash(h, g) == g.level # None /\ h.level # None /\ Covers(h, g)

\* saveGrant has yet to delete what stands against its grant.
GrantPending(r) ==
  (r.op = "saveGrant" /\ pc[r] \in {"conflicts", "grant"}) =>
    /\ Grounded(r.grant)
    /\ pc[r] = "grant" => \A h \in grants : h.sub = r.grant.sub =>
         \/ h.sub \in doubled \/ <<h.scope, h.res>> \in held[r]
         \/ (Clash(h, r.grant) => Exempt(r.grant)) /\ (Clash(r.grant, h) => Exempt(h))

\* The grants that a role is to have do not cover one another.
RolePending(r) ==
  (r.op = "roleGrants" /\ pc[r] = "role") =>
    /\ \A g \in GivesLevel(r.grants) : Grounded(g)
    /\ \A g, h \in GivesLevel(r.grants) : Covers(h, g) => Exempt(g)

\* The row that a handler is to write is that of the same database, unless
\* another handler changes it as well.
SameDatabase(i, row) == i \in contended \/ (Exists(i) /\ scripts[i].db = row.db)

\* What is saved has its columns, and is a new one or one that was created.
SavePending(r) ==
  (r.op \in SaveOps /\ (pc[r] = "post" \/ Changing(r))) =>
    /\ {"kind", "item", "row", "previous"} \subseteq DOMAIN held[r]
    /\ held[r].kind \in ItemScopes /\ DOMAIN held[r].row = Columns
    /\ pc[r] \notin {"post", "row"} => held[r].item # Nothing
    /\ (pc[r] # "post" /\ held[r].item # Nothing) => HandedOut(held[r].item)
    /\ (pc[r] \in {"previous", "row", "write"} /\ held[r].item # Nothing) =>
         SameDatabase(held[r].item, held[r].row)

\* push changes workflows and forms.
PushPending(r) ==
  (r.op = "push" /\ pc[r] \notin {"start", "done", "record"}) =>
    "todo" \in DOMAIN held[r] /\ \A c \in held[r].todo : c.kind \in ItemScopes

\* Deletion and publication change what they were asked to.
ItemPending(r) ==
  (r.op \in {"deleteScript"} \cup PublishOps /\ Changing(r)) =>
    /\ held[r].item = r.item /\ HandedOut(r.item)
    /\ (r.op \in PublishOps /\ held[r].row # NoScript) =>
         DOMAIN held[r].row = Columns /\ SameDatabase(r.item, held[r].row)

Pending(r) ==
  GrantPending(r) /\ RolePending(r) /\ SavePending(r) /\ PushPending(r) /\ ItemPending(r)

\* Two handlers that change the same workflow or form are known to.
Contending ==
  \A q, r \in due :
    (q # r /\ Changing(q) /\ Changing(r) /\ held[q].item = held[r].item /\ held[r].item # Nothing)
    => held[r].item \in contended

AccessInv ==
  /\ IdsInv
  /\ \A g \in grants : Grounded(g)
  /\ GrantsExclusive
  /\ \A r \in due : Pending(r)
  /\ Contending

-----------------------------------------------------------------------------
(* Ids and coverage.                                                       *)

LEMMA HandedOutIds == \A i : HandedOut(i) => i \in ScriptIds /\ i # Nothing
<1> SUFFICES ASSUME NEW i, HandedOut(i) PROVE i \in ScriptIds /\ i # Nothing
  OBVIOUS
<1>1. PICK kind \in ItemScopes : \E n \in DOMAIN IdsOf(kind) : i = IdsOf(kind)[n]
  BY DEF HandedOut
<1>2. i \in Range(WorkflowIds) \/ i \in Range(FormIds)
  BY <1>1 DEF IdsOf, ItemScopes, Range
<1>. QED  BY <1>2, StoreAssumption DEF ScriptIds

\* The next id was not handed out yet, and is from then on.
LEMMA NextIdIsNew ==
  ASSUME IdsInv, NEW kind \in ItemScopes, made[kind] < Len(IdsOf(kind)),
         NEW id, id = NextScriptId(kind)
  PROVE  /\ id \in ScriptIds /\ ~HandedOut(id) /\ id # Nothing
         /\ made' = [made EXCEPT ![kind] = @ + 1] =>
              /\ \A k \in ItemScopes : made'[k] \in Nat
              /\ HandedOut(id)'
              /\ \A i : HandedOut(i) => HandedOut(i)'
<1> DEFINE n == made[kind] + 1
<1>1. \A k \in ItemScopes : /\ IdsOf(k) \in Seq(Range(IdsOf(k))) /\ DOMAIN IdsOf(k) = 1 .. Len(IdsOf(k))
                            /\ Len(IdsOf(k)) \in Nat /\ IsInjective(IdsOf(k))
                            /\ made[k] \in Nat
  BY StoreAssumption DEF IdsOf, ItemScopes, IdsInv
<1>2. n \in DOMAIN IdsOf(kind) /\ id = IdsOf(kind)[n]
  BY <1>1 DEF NextScriptId
<1>3. id \in Range(IdsOf(kind))
  BY <1>2 DEF Range
<1>4. \A k \in ItemScopes : k # kind => Range(IdsOf(k)) \cap Range(IdsOf(kind)) = {}
  BY StoreAssumption DEF IdsOf, ItemScopes
<1>5. ~HandedOut(id)
  <2> SUFFICES ASSUME NEW k \in ItemScopes, NEW m \in DOMAIN IdsOf(k), m <= made[k],
                      id = IdsOf(k)[m]
               PROVE  FALSE
    BY DEF HandedOut
  <2>1. k = kind
    BY <1>3, <1>4 DEF Range
  <2>2. m = n
    BY <1>1, <1>2, <2>1 DEF IsInjective
  <2>. QED  BY <1>1, <2>1, <2>2
<1>6. ASSUME made' = [made EXCEPT ![kind] = @ + 1]
      PROVE  /\ \A k \in ItemScopes : made'[k] \in Nat
             /\ HandedOut(id)'
             /\ \A i : HandedOut(i) => HandedOut(i)'
  <2>1. \A k \in ItemScopes : made'[k] = IF k = kind THEN n ELSE made[k]
    BY <1>6 DEF IdsInv, ItemScopes
  <2>2. HandedOut(id)'
    BY <1>1, <1>2, <2>1 DEF HandedOut
  <2>3. \A k \in ItemScopes : \A m \in DOMAIN IdsOf(k) : m <= made[k] => m <= made'[k]
    BY <1>1, <2>1
  <2>. QED  BY <1>1, <2>1, <2>2, <2>3 DEF HandedOut
<1>7. id \in ScriptIds
  BY <1>3 DEF ScriptIds, IdsOf, ItemScopes
<1>. QED  BY <1>5, <1>6, <1>7, StoreAssumption

\* What a step does not undo.
Forward ==
  /\ contended \subseteq contended' /\ doubled \subseteq doubled'
  /\ \A i : HandedOut(i) => HandedOut(i)'

\* A step of a request leaves workflows and forms where they are, but the one that
\* it changes and one that is new.
Touches(r) ==
  \A i \in ScriptIds :
    \/ scripts'[i] = scripts[i] \/ ~HandedOut(i)
    \/ /\ Changing(r) /\ held[r].item = i
       /\ Exists(i)' => i \in contended' \/ (Exists(i) /\ scripts'[i].db = scripts[i].db)

\* Nothing comes to be covered but what is exempt.
LEMMA CoveredBefore ==
  ASSUME Forward, NEW r, Touches(r), NEW g, NEW h, Grounded(g), Grounded(h), Covers(h, g)'
  PROVE  Covers(h, g) \/ Exempt(g)'
<1>1. CASE g.scope \notin ItemScopes
  BY <1>1 DEF Covers
<1>2. CASE g.scope \in ItemScopes
  <2>1. h.scope \in SetScopes /\ h.scope = SetOf(g.scope)
    BY <1>2 DEF Covers, SetOf, ItemScopes, SetScopes
  <2>2. h.res = <<GrantDatabaseName(g)'>> /\ h.res[1] # NoName /\ g.scope \in ExclusiveScopes
    BY <1>2, <2>1 DEF Covers, Grounded
  <2>3. GrantDatabaseName(g)' # NoName
    BY <2>2
  <2>4. g.scope \notin TableScopes \cup SetScopes
    BY <1>2 DEF ItemScopes, TableScopes, FieldScopes, SetScopes
  <2>5. /\ g.res[1] \in ScriptIds /\ Exists(g.res[1])' /\ Kind(g.res[1]) = g.scope
        /\ GrantDatabaseName(g)' = scripts'[g.res[1]].db
    BY <2>3, <2>4 DEF GrantDatabaseName
  <2>6. HandedOut(g.res[1])
    BY <1>2, <2>5 DEF Grounded
  <2>7. \/ g.res[1] \in contended'
        \/ Exists(g.res[1]) /\ scripts'[g.res[1]].db = scripts[g.res[1]].db
    BY <2>5, <2>6 DEF Touches, Exists
  <2>8. CASE g.res[1] \in contended'
    BY <1>2, <2>8 DEF Exempt
  <2>9. CASE Exists(g.res[1]) /\ scripts'[g.res[1]].db = scripts[g.res[1]].db
    <3>1. GrantDatabaseName(g) = GrantDatabaseName(g)'
      BY <2>4, <2>5, <2>9 DEF GrantDatabaseName
    <3>. QED  BY <1>2, <2>1, <2>2, <3>1 DEF Covers
  <2>. QED  BY <2>7, <2>8, <2>9
<1>. QED  BY <1>1, <1>2

LEMMA GroundedStays == Forward => \A g : Grounded(g) => Grounded(g)'
  BY DEF Forward, Grounded

-----------------------------------------------------------------------------
(* A step of one request.                                                  *)

\* Grants that come are on something, and clash with no other one and with
\* none that another handler is about to write, but by exceptions.
GrantsFit(r) ==
  \A g \in grants' \ grants :
    /\ Grounded(g)'
    /\ \A q \in due \ {r} :
         (q.op = "saveGrant" /\ pc[q] \in {"conflicts", "grant"} /\ q.grant.sub = g.sub) => g.sub \in doubled'
    /\ \A h \in grants' : h.sub = g.sub =>
         \/ g.sub \in doubled'
         \/ (Clash(h, g)' => Exempt(g)') /\ (Clash(g, h)' => Exempt(h)')

\* A request that changes what others do makes that known.
Announced(r) ==
  (Changing(r)' /\ held'[r].item # Nothing) =>
    \A q \in due \ {r} :
      (Changing(q) /\ held[q].item = held'[r].item) => held'[r].item \in contended'

\* The requests that do not take the step have to do what they had to.
LEMMA OthersPending ==
  ASSUME AccessInv, NEW r \in due, Moves(r), Forward, Touches(r), GrantsFit(r), NEW q \in due \ {r}
  PROVE  Pending(q)'
<1>0. pc'[q] = pc[q] /\ held'[q] = held[q] /\ Pending(q)
  BY DEF Moves, AccessInv
<1>1. \A g, h : (Grounded(g) /\ Grounded(h)) =>
        /\ Covers(h, g)' => Covers(h, g) \/ Exempt(g)'
        /\ Clash(h, g)' => Clash(h, g) \/ Exempt(g)'
        /\ Exempt(g) => Exempt(g)'
  BY CoveredBefore DEF Clash, Exempt, Forward
<1>2. GrantPending(q)'
  <2> SUFFICES ASSUME q.op = "saveGrant", pc[q] \in {"conflicts", "grant"}
               PROVE  /\ Grounded(q.grant)'
                      /\ pc[q] = "grant" => \A h \in grants' : h.sub = q.grant.sub =>
                           \/ h.sub \in doubled' \/ <<h.scope, h.res>> \in held[q]
                           \/ (Clash(h, q.grant)' => Exempt(q.grant)') /\ (Clash(q.grant, h)' => Exempt(h)')
    BY <1>0 DEF GrantPending
  <2>1. Grounded(q.grant) /\ Grounded(q.grant)'
    BY <1>0, GroundedStays DEF Pending, GrantPending
  <2>2. ASSUME NEW h \in grants', h.sub = q.grant.sub, pc[q] = "grant"
        PROVE  \/ h.sub \in doubled' \/ <<h.scope, h.res>> \in held[q]
               \/ (Clash(h, q.grant)' => Exempt(q.grant)') /\ (Clash(q.grant, h)' => Exempt(h)')
    <3>1. CASE h \in grants
      <4>1. Grounded(h)
        BY <3>1 DEF AccessInv
      <4>2. \/ h.sub \in doubled \/ <<h.scope, h.res>> \in held[q]
            \/ (Clash(h, q.grant) => Exempt(q.grant)) /\ (Clash(q.grant, h) => Exempt(h))
        BY <1>0, <2>2, <3>1 DEF Pending, GrantPending
      <4>. QED  BY <1>1, <2>1, <4>1, <4>2 DEF Forward
    <3>2. CASE h \notin grants
      BY <2>2, <3>2 DEF GrantsFit
    <3>. QED  BY <3>1, <3>2
  <2>. QED  BY <2>1, <2>2
<1>3. RolePending(q)'
  <2> SUFFICES ASSUME q.op = "roleGrants", pc[q] = "role"
               PROVE  /\ \A g \in GivesLevel(q.grants) : Grounded(g)'
                      /\ \A g, h \in GivesLevel(q.grants) : Covers(h, g)' => Exempt(g)'
    BY <1>0 DEF RolePending, GivesLevel
  <2>. QED  BY <1>0, <1>1, GroundedStays DEF Pending, RolePending
<1>4. ASSUME NEW i, NEW row, Changing(q), held[q].item = i, HandedOut(i), SameDatabase(i, row)
      PROVE  SameDatabase(i, row)'
  <2>1. i \in ScriptIds /\ i # Nothing
    BY <1>4, HandedOutIds
  <2>2. CASE i \in contended
    BY <2>2 DEF SameDatabase, Forward
  <2>3. CASE i \notin contended
    <3>1. Exists(i) /\ scripts[i].db = row.db
      BY <1>4, <2>3 DEF SameDatabase
    <3>2. ~(Changing(r) /\ held[r].item = i)
      BY <1>4, <2>1, <2>3 DEF AccessInv, Contending
    <3>3. scripts'[i] = scripts[i]
      BY <1>4, <2>1, <3>2 DEF Touches
    <3>. QED  BY <3>1, <3>3 DEF SameDatabase, Exists
  <2>. QED  BY <2>2, <2>3
<1>5. Changing(q)' <=> Changing(q)
  BY <1>0 DEF Changing
<1>6. \A i : HandedOut(i) => HandedOut(i)'
  BY DEF Forward
<1>7. SavePending(q)'
  <2> SUFFICES ASSUME q.op \in SaveOps, pc[q] = "post" \/ Changing(q)
               PROVE  /\ {"kind", "item", "row", "previous"} \subseteq DOMAIN held[q]
                      /\ held[q].kind \in ItemScopes /\ DOMAIN held[q].row = Columns
                      /\ pc[q] \notin {"post", "row"} => held[q].item # Nothing
                      /\ (pc[q] # "post" /\ held[q].item # Nothing) => HandedOut(held[q].item)'
                      /\ (pc[q] \in {"previous", "row", "write"} /\ held[q].item # Nothing) =>
                           SameDatabase(held[q].item, held[q].row)'
    BY <1>0, <1>5 DEF SavePending
  <2> DEFINE i == held[q].item
             row == held[q].row
  <2>1. /\ {"kind", "item", "row", "previous"} \subseteq DOMAIN held[q]
        /\ held[q].kind \in ItemScopes /\ DOMAIN held[q].row = Columns
        /\ pc[q] \notin {"post", "row"} => held[q].item # Nothing
        /\ (pc[q] # "post" /\ i # Nothing) => HandedOut(i)
        /\ (pc[q] \in {"previous", "row", "write"} /\ i # Nothing) => SameDatabase(i, row)
    BY <1>0 DEF Pending, SavePending
  <2>. QED  BY <1>0, <1>4, <1>6, <2>1 DEF Changing
<1>8. PushPending(q)'
  BY <1>0 DEF Pending, PushPending
<1>9. ItemPending(q)'
  <2> SUFFICES ASSUME q.op \in {"deleteScript"} \cup PublishOps, Changing(q)
               PROVE  /\ held[q].item = q.item /\ HandedOut(q.item)'
                      /\ (q.op \in PublishOps /\ held[q].row # NoScript) =>
                           DOMAIN held[q].row = Columns /\ SameDatabase(q.item, held[q].row)'
    BY <1>0, <1>5 DEF ItemPending
  <2> DEFINE row == held[q].row
  <2>1. /\ held[q].item = q.item /\ HandedOut(q.item)
        /\ (q.op \in PublishOps /\ row # NoScript) =>
             DOMAIN row = Columns /\ SameDatabase(q.item, row)
    BY <1>0 DEF Pending, ItemPending
  <2>. QED  BY <1>0, <1>4, <1>6, <2>1
<1>. QED  BY <1>2, <1>3, <1>7, <1>8, <1>9 DEF Pending

\* What a step of one request has to see to.
LEMMA StepKeepsAccess ==
  ASSUME AccessInv, NEW r \in due, Moves(r), Forward, Touches(r), GrantsFit(r), Announced(r),
         IdsInv', Pending(r)'
  PROVE  AccessInv'
<1>0. due' = due
  BY DEF Moves
<1>1. \A g \in grants' : Grounded(g)'
  BY GroundedStays DEF AccessInv, GrantsFit
<1>2. \A q \in due' : Pending(q)'
  BY <1>0, OthersPending
<1>3. Contending'
  <2> SUFFICES ASSUME NEW q \in due, NEW s \in due, q # s, Changing(q)', Changing(s)',
                      held'[q].item = held'[s].item, held'[s].item # Nothing
               PROVE  held'[s].item \in contended'
    BY <1>0 DEF Contending
  <2>1. \A p \in due \ {r} : (Changing(p)' <=> Changing(p)) /\ held'[p] = held[p]
    BY DEF Moves, Changing
  <2>2. CASE q = r
    BY <2>1, <2>2 DEF Announced
  <2>3. CASE s = r
    BY <2>1, <2>3 DEF Announced
  <2>4. CASE q # r /\ s # r
    BY <2>1, <2>4 DEF AccessInv, Contending, Forward
  <2>. QED  BY <2>2, <2>3, <2>4
<1>4. GrantsExclusive'
  <2> SUFFICES ASSUME NEW g \in grants', NEW h \in grants', g.sub = h.sub, Clash(h, g)'
               PROVE  g.sub \in doubled' \/ Exempt(g)'
    BY DEF GrantsExclusive, Clash, Exempt
  <2>1. CASE g \notin grants
    BY <2>1 DEF GrantsFit
  <2>2. CASE h \notin grants
    BY <2>2 DEF GrantsFit
  <2>3. CASE g \in grants /\ h \in grants
    <3>1. Grounded(g) /\ Grounded(h)
      BY <2>3 DEF AccessInv
    <3>2. Clash(h, g) \/ Exempt(g)'
      BY <3>1, CoveredBefore DEF Clash
    <3>3. Clash(h, g) => g.sub \in doubled \/ Exempt(g)
      BY <2>3 DEF AccessInv, GrantsExclusive, Clash, Exempt
    <3>. QED  BY <3>2, <3>3 DEF Forward, Exempt
  <2>. QED  BY <2>1, <2>2, <2>3
<1>. QED  BY <1>1, <1>2, <1>3, <1>4 DEF AccessInv

\* A request that goes on with the workflow or form that it changes is known to.
LEMMA GoesOnAnnounced ==
  ASSUME AccessInv, NEW r \in due, Changing(r)' => Changing(r) /\ held'[r].item = held[r].item,
         contended \subseteq contended'
  PROVE  Announced(r)
  BY DEF Announced, AccessInv, Contending

\* Grants, workflows and forms stay as they are.
Rests == UNCHANGED <<grants, scripts, made, contended, doubled>>

LEMMA RestsFits ==
  ASSUME Rests, NEW r
  PROVE  Forward /\ Touches(r) /\ GrantsFit(r) /\ (IdsInv => IdsInv')
  BY DEF Rests, Forward, Touches, GrantsFit, HandedOut, IdsInv, Exists

LEMMA RestsKeepsAccess ==
  ASSUME AccessInv, NEW r \in due, Moves(r), Rests, Pending(r)',
         Changing(r)' => Changing(r) /\ held'[r].item = held[r].item
  PROVE  AccessInv'
<1>1. contended \subseteq contended'
  BY DEF Rests
<1>. QED  BY <1>1, RestsFits, GoesOnAnnounced, StepKeepsAccess DEF AccessInv

\* A request that is answered has nothing to see to, nor has one that changes neither.
LEMMA DonePending ==
  ASSUME NEW r, pc'[r] = "done"
  PROVE  Pending(r)' /\ ~Changing(r)' /\ Announced(r)
  BY DEF Pending, GrantPending, RolePending, SavePending, PushPending, ItemPending, Changing, ChangeLabels,
     Announced

LEMMA NothingPending ==
  ASSUME NEW r, r.op \notin {"saveGrant", "roleGrants"} \cup ChangeOps
  PROVE  Pending(r)' /\ ~Changing(r)'
  BY DEF Pending, GrantPending, RolePending, SavePending, PushPending, ItemPending, Changing, ChangeOps,
         SaveOps, PublishOps

-----------------------------------------------------------------------------
(* Grants and roles.                                                       *)

\* Where a handler comes to, and what it holds there.
LEMMA GotoMoves ==
  ASSUME Progressing, NEW r \in due
  PROVE  /\ \A label, value : Goto(r, label, value) => pc'[r] = label /\ held'[r] = value
         /\ \A outcome : Answer(r, outcome) => pc'[r] = "done"
  BY DEF Progressing, Goto, Answer

\* What is there, or is a set of a database, is something that may be granted.
LEMMA NamedIsGrounded ==
  ASSUME AccessInv, NEW g, HasResource(g), Ranged(g.level), GrantDatabaseName(g) # NoName
  PROVE  Grounded(g)
<1>1. g.scope \in SetScopes => g.res[1] # NoName
  BY DEF GrantDatabaseName
<1>2. ASSUME g.scope \in ItemScopes, g.res[1] \in ScriptIds PROVE HandedOut(g.res[1])
  <2>1. Exists(g.res[1])
    BY <1>2 DEF GrantDatabaseName, ItemScopes, TableScopes, FieldScopes, SetScopes
  <2>. QED  BY <1>2, <2>1 DEF AccessInv, IdsInv
<1>. QED  BY <1>1, <1>2 DEF Grounded

\* Grants without a level and valid ones have a level of one.
LEMMA LevelIsRanged ==
  ASSUME NEW d, NEW g, g.level = None \/ ValidGrant(d, g)
  PROVE  Ranged(g.level)
<1>1. g.level \in {None, Write} \/ g.level \in None .. Read \/ g.level \in None .. Write
      \/ g.level \in None .. FieldAll
  BY DEF ValidGrant, LevelInRange
<1>. QED  BY <1>1 DEF Ranged, None, Read, Write, FieldAll

LEMMA HandleSaveGrantKeepsAccess ==
  ASSUME PlaceInv, AccessInv, NEW r \in due, Moves(r), HandleSaveGrant(r), Rests
  PROVE  AccessInv'
<1>0. r.op = "saveGrant" /\ Progressing /\ due' = due
  BY DEF HandleSaveGrant, At, PlaceInv, Moves
<1>1. ~Changing(r)'
  BY <1>0 DEF Changing, ChangeOps, SaveOps
<1>2. Pending(r)'
  <2>1. CASE pc'[r] = "done"
    BY <2>1, DonePending
  <2>2. CASE pc'[r] # "done"
    <3>1. GrantDatabaseName(r.grant) # NoName /\ Goto(r, "conflicts", Nothing)
      BY <1>0, <2>2, GotoMoves DEF HandleSaveGrant
    <3>2. HasResource(r.grant)
      BY <1>0, GrantAssumption DEF Progressing
    <3>5. Ranged(r.grant.level)
      BY <1>0, <2>2, LevelIsRanged, GotoMoves DEF HandleSaveGrant
    <3>3. Grounded(r.grant)'
      BY <3>1, <3>2, <3>5, NamedIsGrounded, GroundedStays, RestsFits
    <3>4. pc'[r] = "conflicts"
      BY <1>0, <3>1, GotoMoves
    <3>. QED  BY <1>0, <1>1, <3>3, <3>4
              DEF Pending, GrantPending, RolePending, SavePending, PushPending, ItemPending, SaveOps, PublishOps
  <2>. QED  BY <2>1, <2>2
<1>. QED  BY <1>1, <1>2, RestsKeepsAccess

\* All that clashes with a grant is to be deleted.
LEMMA ConflictingIsAll ==
  ASSUME NEW g, NEW h, Grounded(g), Grounded(h), Clash(h, g) \/ Clash(g, h)
  PROVE  <<h.scope, h.res>> \in Conflicting(g)
<1>0. g.level # None /\ h.level # None
  BY DEF Clash
<1>1. CASE Covers(h, g)
  <2>1. CASE g.scope \in {"field", "view"}
    BY <1>0, <1>1, <2>1 DEF Covers, Conflicting, ItemScopes
  <2>2. CASE g.scope \in ItemScopes
    BY <1>0, <1>1, <2>2 DEF Covers, Conflicting, ItemScopes
  <2>. QED  BY <1>1, <2>1, <2>2 DEF Covers, ExclusiveScopes, ItemScopes
<1>2. CASE Covers(g, h)
  <2>1. CASE h.scope \in {"field", "view"}
    <3>1. h.res = g.res /\ g.scope = (IF h.scope = "field" THEN "field_set" ELSE "view_set")
      BY <1>2, <2>1 DEF Covers, ItemScopes, SetOf
    <3>2. Conflicting(g) = ConflictingItems(g)
      BY <3>1, <1>0 DEF Conflicting, ItemScopes
    <3>3. g.scope \in {"field_set", "view_set"} /\ h.scope = (IF g.scope = "field_set" THEN "field" ELSE "view")
      BY <2>1, <3>1
    <3>4. ConflictingItems(g) = {<<IF g.scope = "field_set" THEN "field" ELSE "view", g.res>>}
      BY <3>3 DEF ConflictingItems, SetScopes
    <3>. QED  BY <3>1, <3>2, <3>3, <3>4
  <2>2. CASE h.scope \in ItemScopes
    <3>1. g.res = <<GrantDatabaseName(h)>> /\ g.scope = (IF h.scope = "workflow" THEN "workflow_set" ELSE "form_set")
      BY <1>2, <2>2 DEF Covers, ItemScopes, SetOf
    <3>2. Conflicting(g) = ConflictingItems(g)
      BY <3>1, <1>0 DEF Conflicting, ItemScopes
    <3>3. g.scope \in SetScopes /\ GrantDatabaseName(h) # NoName
      BY <3>1 DEF SetScopes, Grounded
    <3>4. /\ h.res[1] \in ScriptIds /\ Exists(h.res[1]) /\ Kind(h.res[1]) = h.scope
          /\ scripts[h.res[1]].db = g.res[1] /\ h.res = <<h.res[1]>>
      BY <2>2, <3>1, <3>3
         DEF GrantDatabaseName, Grounded, HasResource, ItemScopes, TableScopes, FieldScopes, SetScopes
    <3>5. h.res[1] \in ScriptsOf(h.scope, g.res[1])
      BY <3>4 DEF ScriptsOf
    <3>6. g.scope \notin {"field_set", "view_set"} /\ h.scope = (IF g.scope = "workflow_set" THEN "workflow" ELSE "form")
      BY <3>1, <2>2 DEF ItemScopes
    <3>7. ConflictingItems(g) = {<<h.scope, IdResource(i)>> : i \in ScriptsOf(h.scope, g.res[1])}
      BY <3>3, <3>6 DEF ConflictingItems
    <3>. QED  BY <3>2, <3>4, <3>5, <3>7 DEF IdResource
  <2>. QED  BY <1>2, <2>1, <2>2 DEF Covers, ExclusiveScopes, ItemScopes
<1>. QED  BY <1>1, <1>2 DEF Clash

LEMMA FindConflictsKeepsAccess ==
  ASSUME PlaceInv, AccessInv, NEW r \in due, Moves(r), FindConflicts(r), Rests
  PROVE  AccessInv'
<1>0. r.op = "saveGrant" /\ pc[r] = "conflicts" /\ Progressing /\ due' = due
  BY DEF FindConflicts, At, PlaceInv, Moves
<1>1. ~Changing(r)'
  BY <1>0 DEF Changing, ChangeOps, SaveOps
<1>2. Pending(r)'
  <2>1. CASE pc'[r] = "done"
    BY <2>1, DonePending
  <2>2. CASE pc'[r] # "done"
    <3>1. pc'[r] = "grant" /\ held'[r] = Conflicting(r.grant)
      BY <1>0, <2>2, GotoMoves DEF FindConflicts
    <3>2. Grounded(r.grant) /\ Grounded(r.grant)'
      BY <1>0, GroundedStays, RestsFits DEF AccessInv, Pending, GrantPending
    <3>3. \A h \in grants : <<h.scope, h.res>> \in Conflicting(r.grant) \/ ~(Clash(h, r.grant) \/ Clash(r.grant, h))
      BY <3>2, ConflictingIsAll DEF AccessInv
    <3>4. \A g, h : Clash(h, g)' <=> Clash(h, g)
      BY DEF Rests, Clash, Covers, GrantDatabaseName, Exists
    <3>5. GrantPending(r)'
      <4>1. \A h \in grants' : \/ <<h.scope, h.res>> \in held'[r]
                               \/ ~Clash(h, r.grant)' /\ ~Clash(r.grant, h)'
        BY <3>1, <3>3, <3>4 DEF Rests
      <4>. QED  BY <3>2, <4>1 DEF GrantPending
    <3>. QED  BY <1>0, <1>1, <3>1, <3>5
              DEF Pending, RolePending, SavePending, PushPending, ItemPending, SaveOps, PublishOps
  <2>. QED  BY <2>1, <2>2
<1>. QED  BY <1>1, <1>2, RestsKeepsAccess

\* Grants that go leave the others to fit, and workflows and forms alone.
LEMMA FewerFit ==
  ASSUME grants' \subseteq grants, UNCHANGED <<scripts, made, contended, doubled>>, NEW r
  PROVE  Forward /\ Touches(r) /\ GrantsFit(r) /\ (IdsInv => IdsInv')
  BY DEF Forward, Touches, GrantsFit, HandedOut, IdsInv, Exists

LEMMA DeleteConflictingGrantKeepsAccess ==
  ASSUME PlaceInv, AccessInv, NEW r \in due, Moves(r), DeleteConflictingGrant(r),
         UNCHANGED <<scripts, made, contended, doubled>>
  PROVE  AccessInv'
<1>0. r.op = "saveGrant" /\ pc[r] = "grant" /\ Progressing /\ due' = due
  BY DEF DeleteConflictingGrant, At, PlaceInv, Moves
<1>1. PICK c \in held[r] : /\ DeleteGrant(r.grant.sub, c[1], c[2])
                           /\ pc'[r] = "grant" /\ held'[r] = held[r] \ {c}
  BY <1>0, GotoMoves DEF DeleteConflictingGrant
<1>2. ~Changing(r)'
  BY <1>0 DEF Changing, ChangeOps, SaveOps
<1>3. grants' \subseteq grants
  BY <1>1 DEF DeleteGrant
<1>4. Grounded(r.grant)'
  BY <1>0, <1>3, GroundedStays, FewerFit DEF AccessInv, Pending, GrantPending
<1>5. \A g, h : (Clash(h, g)' <=> Clash(h, g)) /\ (Exempt(g) => Exempt(g)')
  BY DEF Clash, Covers, GrantDatabaseName, Exists, Exempt
<1>6. ASSUME NEW h \in grants', h.sub = r.grant.sub
      PROVE  \/ h.sub \in doubled' \/ <<h.scope, h.res>> \in held'[r]
             \/ (Clash(h, r.grant)' => Exempt(r.grant)') /\ (Clash(r.grant, h)' => Exempt(h)')
  <2>1. \/ h.sub \in doubled \/ <<h.scope, h.res>> \in held[r]
        \/ (Clash(h, r.grant) => Exempt(r.grant)) /\ (Clash(r.grant, h) => Exempt(h))
    BY <1>0, <1>3, <1>6 DEF AccessInv, Pending, GrantPending
  <2>2. <<h.scope, h.res>> # c
    BY <1>1, <1>6 DEF DeleteGrant
  <2>. QED  BY <1>1, <1>5, <2>1, <2>2
<1>7. Pending(r)'
  BY <1>0, <1>1, <1>2, <1>4, <1>6
     DEF Pending, GrantPending, RolePending, SavePending, PushPending, ItemPending, SaveOps, PublishOps
<1>8. Announced(r)
  BY <1>2 DEF Announced
<1>. QED  BY <1>3, <1>7, <1>8, FewerFit, StepKeepsAccess DEF AccessInv

\* Those who change grants of a subject at the same time are known.
LEMMA DoubledKnown ==
  ASSUME NEW r, NEW sub, MarkDoubled(r, sub)
  PROVE  /\ doubled \subseteq doubled'
         /\ \A q \in due \ {r} :
              (q.op = "saveGrant" /\ pc[q] \in {"conflicts", "grant"} /\ q.grant.sub = sub) => sub \in doubled'
  BY DEF MarkDoubled, ChangesGrantsOf, UnderWay

\* No grant covers itself.
LEMMA NotItself == \A g : ~Covers(g, g)
  BY DEF Covers, ExclusiveScopes, SetOf

LEMMA WriteGrantKeepsAccess ==
  ASSUME PlaceInv, AccessInv, NEW r \in due, Moves(r), WriteGrant(r),
         UNCHANGED <<scripts, made, contended>>
  PROVE  AccessInv'
<1>0. r.op = "saveGrant" /\ pc[r] = "grant" /\ held[r] = {} /\ pc'[r] = "done" /\ due' = due
  BY GotoMoves DEF WriteGrant, At, PlaceInv, Moves
<1>1. /\ \A g \in grants' : g \in grants \/ g = r.grant
      /\ MarkDoubled(r, r.grant.sub)
  BY DEF WriteGrant, SaveGrant
<1>2. Forward /\ Touches(r) /\ IdsInv'
  BY <1>1, DoubledKnown DEF Forward, Touches, HandedOut, AccessInv, IdsInv, Exists
<1>3. Pending(r)' /\ Announced(r)
  BY <1>0, DonePending
<1>4. GrantsFit(r)
  <2>1. Grounded(r.grant)'
    BY <1>0, <1>2, GroundedStays DEF AccessInv, Pending, GrantPending
  <2>2. \A g, h : (Clash(h, g)' <=> Clash(h, g)) /\ (Exempt(g) => Exempt(g)')
    BY DEF Clash, Covers, GrantDatabaseName, Exists, Exempt
  <2>3. ASSUME NEW h \in grants', h.sub = r.grant.sub
        PROVE  \/ h.sub \in doubled'
               \/ (Clash(h, r.grant)' => Exempt(r.grant)') /\ (Clash(r.grant, h)' => Exempt(h)')
    <3>1. CASE h = r.grant
      BY <2>2, <3>1, NotItself DEF Clash
    <3>2. CASE h \in grants
      BY <1>0, <1>2, <2>2, <2>3, <3>2 DEF AccessInv, Pending, GrantPending, Forward
    <3>. QED  BY <1>1, <3>1, <3>2
  <2>. QED  BY <1>1, <2>1, <2>3, DoubledKnown DEF GrantsFit
<1>. QED  BY <1>2, <1>3, <1>4, StepKeepsAccess

LEMMA HandleRoleKeepsAccess ==
  ASSUME PlaceInv, AccessInv, NEW r \in due, Moves(r), HandleRole(r), Rests
  PROVE  AccessInv'
<1>0. r.op \in RoleOps /\ Progressing /\ due' = due
  BY DEF HandleRole, At, PlaceInv, Moves
<1>1. ~Changing(r)'
  BY <1>0 DEF Changing, ChangeOps, SaveOps, RoleOps
<1>2. RolePending(r)'
  <2> SUFFICES ASSUME r.op = "roleGrants", pc'[r] = "role"
               PROVE  /\ \A g \in GivesLevel(r.grants) : Grounded(g)'
                      /\ \A g, h \in GivesLevel(r.grants) : ~Covers(h, g)'
    BY DEF RolePending, GivesLevel
  <2>1. MayManage(r.actor, r.db) /\ ValidRoleGrants(r.db, r.grants)
    BY <1>0, GotoMoves DEF HandleRole
  <2>2. \A g \in GivesLevel(r.grants) : Grounded(g)'
    <3> SUFFICES ASSUME NEW g \in GivesLevel(r.grants) PROVE Grounded(g)'
      OBVIOUS
    <3>1. GrantDatabaseName(g) # NoName
      BY <2>1 DEF ValidRoleGrants, MayManage
    <3>2. HasResource(g)
      BY <1>0, GrantAssumption DEF Progressing, GivesLevel
    <3>3. Ranged(g.level)
      BY <2>1, LevelIsRanged DEF ValidRoleGrants
    <3>. QED  BY <3>1, <3>2, <3>3, NamedIsGrounded, GroundedStays, RestsFits
  <2>3. \A g, h : Covers(h, g)' <=> Covers(h, g)
    BY DEF Rests, Covers, GrantDatabaseName, Exists
  <2>. QED  BY <2>1, <2>2, <2>3 DEF ValidRoleGrants, ValidExclusiveGrants
<1>. QED  BY <1>0, <1>1, <1>2, RestsKeepsAccess
          DEF Pending, GrantPending, SavePending, PushPending, ItemPending, RoleOps, SaveOps, PublishOps

LEMMA WriteRoleGrantsKeepsAccess ==
  ASSUME PlaceInv, AccessInv, NEW r \in due, Moves(r), WriteRoleGrants(r),
         UNCHANGED <<scripts, made, contended>>
  PROVE  AccessInv'
<1>0. r.op = "roleGrants" /\ pc[r] = "role" /\ pc'[r] \in {"done", "respond"} /\ due' = due
  BY GotoMoves DEF WriteRoleGrants, At, PlaceInv, Moves
<1>1. Pending(r)' /\ Announced(r)
  BY <1>0 DEF Pending, GrantPending, RolePending, SavePending, PushPending, ItemPending, Changing, ChangeOps,
     SaveOps, PublishOps, Announced
<1>2. CASE UNCHANGED <<grants, doubled>>
  BY <1>1, <1>2, RestsFits, StepKeepsAccess DEF Rests, AccessInv
<1>3. CASE ~UNCHANGED <<grants, doubled>>
  <2> DEFINE sub == RoleSubject(r.db, r.role)
             As(g) == [g EXCEPT !.sub = sub]
  <2>1. /\ \A g \in grants' : \/ g \in grants /\ g.sub # sub
                              \/ \E k \in GivesLevel(r.grants) : g = As(k)
        /\ MarkDoubled(r, sub)
    BY <1>3 DEF WriteRoleGrants, ReplaceRoleGrants, GrantListForSubject, GivesLevel
  <2>2. Forward /\ Touches(r) /\ IdsInv'
    BY <2>1, DoubledKnown DEF Forward, Touches, HandedOut, AccessInv, IdsInv, Exists
  <2>3. \A k \in GivesLevel(r.grants) :
          /\ Grounded(k)' /\ DOMAIN k = {"sub", "scope", "res", "item", "level"}
          /\ As(k).sub = sub /\ As(k).scope = k.scope /\ As(k).res = k.res /\ As(k).level = k.level
          /\ DOMAIN As(k) = DOMAIN k
    <3>1. \A k \in GivesLevel(r.grants) : Grounded(k)
      BY <1>0 DEF AccessInv, Pending, RolePending
    <3>. QED  BY <2>2, <3>1, GroundedStays DEF Grounded, HasResource
  <2>4. \A k, l \in GivesLevel(r.grants) : Clash(As(l), As(k))' => Exempt(As(k))'
    <3> SUFFICES ASSUME NEW k \in GivesLevel(r.grants), NEW l \in GivesLevel(r.grants),
                        NEW g, g = As(k), NEW h, h = As(l), Clash(h, g)'
                 PROVE  Exempt(g)'
      OBVIOUS
    <3>1. Covers(h, g)
      BY DEF Clash, Covers, GrantDatabaseName, Exists
    <3>2. Covers(l, k)
      BY <2>3, <3>1 DEF Covers, GrantDatabaseName
    <3>3. Exempt(k)
      BY <1>0, <3>2 DEF AccessInv, Pending, RolePending
    <3>. QED  BY <2>3, <3>3 DEF Exempt
  <2>5. GrantsFit(r)
    <3> SUFFICES ASSUME NEW g \in grants' \ grants PROVE
          /\ Grounded(g)'
          /\ \A q \in due \ {r} :
               (q.op = "saveGrant" /\ pc[q] \in {"conflicts", "grant"} /\ q.grant.sub = g.sub)
               => g.sub \in doubled'
          /\ \A h \in grants' : h.sub = g.sub =>
               (Clash(h, g)' => Exempt(g)') /\ (Clash(g, h)' => Exempt(h)')
      BY DEF GrantsFit
    <3>1. PICK k \in GivesLevel(r.grants) : g = As(k)
      BY <2>1
    <3>2. Grounded(g)'
      BY <2>3, <3>1 DEF Grounded, HasResource
    <3>3. g.sub = sub
      BY <2>3, <3>1
    <3>4. ASSUME NEW h \in grants', h.sub = g.sub
          PROVE  (Clash(h, g)' => Exempt(g)') /\ (Clash(g, h)' => Exempt(h)')
      <4>1. PICK l \in GivesLevel(r.grants) : h = As(l)
        BY <2>1, <3>3, <3>4
      <4>. QED  BY <2>4, <3>1, <4>1
    <3>. QED  BY <2>1, <3>2, <3>3, <3>4, DoubledKnown
  <2>. QED  BY <1>1, <2>2, <2>5, StepKeepsAccess
<1>. QED  BY <1>2, <1>3

\* Roles and their members are none of these.
LEMMA OtherRolesKeepAccess ==
  ASSUME PlaceInv, AccessInv, NEW r \in due, Moves(r), UNCHANGED codeVars,
         WriteRole(r) \/ WriteRoleMembers(r) \/ RoleResponse(r) \/ ListRoles(r)
  PROVE  AccessInv'
<1>0. r.op \in AccessOps /\ (r.op = "roleGrants" => pc'[r] = "done") /\ r.op # "saveGrant"
  BY GotoMoves DEF WriteRole, WriteRoleMembers, RoleResponse, ListRoles, At, RoleOps, AccessOps, PlaceInv
<1>1. ~Changing(r)'
  BY <1>0 DEF Changing, ChangeOps, SaveOps, AccessOps
<1>2. Pending(r)'
  BY <1>0, DonePending, NothingPending DEF AccessOps, ChangeOps, SaveOps
<1>3. UNCHANGED <<grants, scripts, doubled, contended>>
  BY DEF WriteRole, WriteRoleMembers, RoleResponse, ListRoles, storeVars, accessVars, scriptVars,
         accessHistory, codeVars
<1>4. CASE made' = made
  BY <1>1, <1>2, <1>3, <1>4, RestsKeepsAccess DEF Rests
<1>5. CASE made' # made
  <2>1. DOMAIN made' = DOMAIN made /\ \A kind \in ItemScopes : made'[kind] = made[kind]
    BY <1>5 DEF WriteRole, SaveRole, WriteRoleMembers, RoleResponse, ListRoles, storeVars, scriptVars,
                ItemScopes, AccessInv, IdsInv
  <2>2. \A i : HandedOut(i)' <=> HandedOut(i)
    BY <2>1 DEF HandedOut
  <2>3. Forward /\ Touches(r) /\ GrantsFit(r) /\ IdsInv'
    BY <1>3, <2>1, <2>2 DEF Forward, Touches, GrantsFit, AccessInv, IdsInv, Exists
  <2>. QED  BY <1>1, <1>2, <2>3, StepKeepsAccess DEF Announced
<1>. QED  BY <1>4, <1>5

LEMMA AccessKeepsAccess ==
  ASSUME PlaceInv, AccessInv, NEW r \in due, AccessSteps(r), Moves(r), UNCHANGED codeVars
  PROVE  AccessInv'
<1> USE DEF Rests, storeVars, accessVars, scriptVars, accessHistory, codeVars
<1>1. CASE HandleSaveGrant(r)
  BY <1>1, HandleSaveGrantKeepsAccess DEF HandleSaveGrant
<1>2. CASE FindConflicts(r)
  BY <1>2, FindConflictsKeepsAccess DEF FindConflicts
<1>3. CASE DeleteConflictingGrant(r)
  BY <1>3, DeleteConflictingGrantKeepsAccess DEF DeleteConflictingGrant
<1>4. CASE WriteGrant(r)
  BY <1>4, WriteGrantKeepsAccess DEF WriteGrant
<1>5. CASE HandleRole(r)
  BY <1>5, HandleRoleKeepsAccess DEF HandleRole
<1>6. CASE WriteRoleGrants(r)
  BY <1>6, WriteRoleGrantsKeepsAccess DEF WriteRoleGrants
<1>. QED  BY <1>1, <1>2, <1>3, <1>4, <1>5, <1>6, OtherRolesKeepAccess DEF AccessSteps

-----------------------------------------------------------------------------
(* Saving workflows and forms.                                             *)

\* What a save goes on with.
LEMMA SaveGoesOn ==
  ASSUME PlaceInv, AccessInv, NEW r \in due, r.op \in SaveOps,
         r.op = "push" => /\ pc[r] \notin {"start", "done", "record"}
                          /\ DOMAIN held'[r] = DOMAIN held[r] /\ held'[r].todo = held[r].todo,
         SavePending(r)'
  PROVE  Pending(r)'
<1>1. PushPending(r)'
  BY DEF AccessInv, Pending, PushPending
<1>. QED  BY <1>1 DEF Pending, GrantPending, RolePending, ItemPending, SaveOps, PublishOps

LEMMA ReplyPending ==
  ASSUME PlaceInv, AccessInv, NEW r \in due, r.op \in SaveOps,
         r.op = "push" => pc[r] \notin {"start", "done", "record"},
         NEW outcome, Reply(r, outcome)
  PROVE  Pending(r)' /\ ~Changing(r)'
<1>0. Progressing
  BY DEF PlaceInv
<1>1. CASE r.op \in {"push", "workflowSet"}
  <2>1. pc'[r] = "reply" /\ held'[r] = [held[r] EXCEPT !.outcome = outcome]
    BY <1>0, <1>1, GotoMoves DEF Reply
  <2>2. ~Changing(r)' /\ SavePending(r)'
    BY <2>1 DEF Changing, ChangeLabels, SavePending
  <2>3. DOMAIN held'[r] = DOMAIN held[r] /\ held'[r].todo = held[r].todo
    BY <2>1
  <2>. QED  BY <2>2, <2>3, SaveGoesOn
<1>2. CASE r.op \notin {"push", "workflowSet"}
  BY <1>0, <1>2, GotoMoves, DonePending DEF Reply
<1>. QED  BY <1>1, <1>2

\* A save that failed or is done.
LEMMA ReplyKeepsAccess ==
  ASSUME PlaceInv, AccessInv, NEW r \in due, Moves(r), r.op \in SaveOps,
         r.op = "push" => pc[r] \notin {"start", "done", "record"},
         NEW outcome, Reply(r, outcome), Rests
  PROVE  AccessInv'
  BY ReplyPending, RestsKeepsAccess

LEMMA HandleSaveScriptKeepsAccess ==
  ASSUME PlaceInv, AccessInv, NEW r \in due, Moves(r), HandleSaveScript(r),
         UNCHANGED <<grants, scripts, made, doubled>>
  PROVE  AccessInv'
<1>0. /\ r.op \in SaveOps /\ Progressing
      /\ r.op = "saveScript" \/ pc[r] = "post"
      /\ r.op = "push" => pc[r] \notin {"start", "done", "record"}
  BY DEF HandleSaveScript, At, PlaceInv, SaveOps
<1>1. CASE \E outcome : Reply(r, outcome) /\ UNCHANGED contended
  BY <1>0, <1>1, ReplyKeepsAccess DEF Rests
<1>2. CASE ~ \E outcome : Reply(r, outcome) /\ UNCHANGED contended
  <2> DEFINE asked == Posted(r)
             new == asked.item = Nothing
  <2>1. /\ IF new THEN MayCreateScript(r.actor, asked.kind, asked.row.db)
           ELSE MayWriteScript(r.actor, asked.item)
        /\ new \/ scripts[asked.item].db = asked.row.db
        /\ Goto(r, IF new THEN "row" ELSE "previous", [asked EXCEPT !.row.creator = IF new THEN r.actor ELSE @])
        /\ Contend(r, asked.item)
    BY <1>2 DEF HandleSaveScript
  <2>2. PICK row : row = [asked.row EXCEPT !.creator = IF new THEN r.actor ELSE @]
    OBVIOUS
  <2>3. pc'[r] = (IF new THEN "row" ELSE "previous") /\ held'[r] = [asked EXCEPT !.row = row]
    <3> HIDE DEF asked, new
    <3>1. /\ pc'[r] = (IF new THEN "row" ELSE "previous")
          /\ held'[r] = [asked EXCEPT !.row.creator = IF new THEN r.actor ELSE @]
      BY <1>0, <2>1, GotoMoves
    <3>. QED  BY <2>2, <3>1
  <2>4. /\ {"kind", "item", "row", "previous"} \subseteq DOMAIN asked
        /\ asked.kind \in ItemScopes /\ DOMAIN asked.row = Columns
    <3>1. CASE r.op = "saveScript"
      BY <1>0, <3>1, ScriptAssumption DEF Posted, Progressing
    <3>2. CASE r.op # "saveScript"
      <4>1. pc[r] = "post" /\ asked = held[r]
        BY <1>0, <3>2 DEF Posted
      <4>. QED  BY <1>0, <4>1 DEF AccessInv, Pending, SavePending
    <3>. QED  BY <3>1, <3>2
  <2>5. DOMAIN row = Columns /\ row.db = asked.row.db
    BY <2>2, <2>4 DEF Columns
  <2>6. /\ {"kind", "item", "row", "previous"} \subseteq DOMAIN held'[r] /\ DOMAIN held'[r] = DOMAIN asked
        /\ held'[r].kind = asked.kind /\ held'[r].item = asked.item /\ held'[r].row = row
    BY <2>3, <2>4
  <2>7. ~new => Exists(asked.item) /\ HandedOut(asked.item)
    BY <2>1 DEF MayWriteScript, CanAccessScript, AccessInv, IdsInv, Exists
  <2>8. contended \subseteq contended'
    BY <2>1 DEF Contend
  <2>9. Forward /\ Touches(r) /\ GrantsFit(r) /\ IdsInv'
    BY <2>8 DEF Forward, Touches, GrantsFit, HandedOut, AccessInv, IdsInv, Exists
  <2>10. Announced(r)
    BY <2>1, <2>6 DEF Announced, Contend
  <2>11. SavePending(r)'
    <3>1. PICK item : item = asked.item
      OBVIOUS
    <3>2. ~new => HandedOut(item)' /\ SameDatabase(item, row)'
      BY <2>1, <2>5, <2>7, <3>1 DEF SameDatabase, Exists, HandedOut
    <3>. QED  BY <2>3, <2>4, <2>5, <2>6, <3>1, <3>2 DEF SavePending
  <2>12. r.op = "push" => DOMAIN held'[r] = DOMAIN held[r] /\ held'[r].todo = held[r].todo
    BY <2>3, <2>6 DEF Posted
  <2>. QED  BY <1>0, <2>9, <2>10, <2>11, <2>12, SaveGoesOn, StepKeepsAccess
<1>. QED  BY <1>1, <1>2

\* Steps of a save that touch neither grants nor rows, and change no more of
\* what is held than the row, the old row and the time.
LEMMA FindPreviousKeepsAccess ==
  ASSUME PlaceInv, AccessInv, NEW r \in due, Moves(r), FindPrevious(r), Rests
  PROVE  AccessInv'
<1>0. r.op \in SaveOps /\ Progressing /\ pc[r] = "previous" /\ Changing(r)
  BY DEF FindPrevious, PlaceInv, Changing, ChangeOps, ChangeLabels
<1>1. CASE \E outcome : Reply(r, outcome)
  BY <1>0, <1>1, ReplyKeepsAccess
<1>2. CASE ~ \E outcome : Reply(r, outcome)
  <2>1. PICK row : pc'[r] = "row" /\ held'[r] = [held[r] EXCEPT !.previous = row]
    BY <1>0, <1>2, GotoMoves DEF FindPrevious
  <2>2. SavePending(r)
    BY DEF AccessInv, Pending
  <2>3. /\ DOMAIN held'[r] = DOMAIN held[r] /\ held'[r].kind = held[r].kind
        /\ held'[r].item = held[r].item /\ held'[r].row = held[r].row /\ held'[r].todo = held[r].todo
    BY <2>1
  <2>4. SavePending(r)'
    <3>1. PICK i, w : i = held[r].item /\ w = held[r].row
      OBVIOUS
    <3>2. HandedOut(i)' /\ SameDatabase(i, w)'
      BY <1>0, <2>2, <3>1 DEF SavePending, Rests, HandedOut, SameDatabase, Exists
    <3>. QED  BY <1>0, <2>1, <2>2, <2>3, <3>1, <3>2 DEF SavePending
  <2>5. Pending(r)'
    BY <1>0, <2>3, <2>4, SaveGoesOn
  <2>. QED  BY <1>0, <2>3, <2>5, RestsKeepsAccess
<1>. QED  BY <1>1, <1>2

\* What is merged is of the same database.
LEMMA Merged ==
  ASSUME NEW existing, NEW row, DOMAIN row = Columns
  PROVE  /\ DOMAIN MergedWorkflow(existing, row) = Columns /\ MergedWorkflow(existing, row).db = row.db
         /\ DOMAIN MergedForm(existing, row) = Columns /\ MergedForm(existing, row).db = row.db
  BY DEF MergedWorkflow, MergedForm, Columns

LEMMA MergeScriptKeepsAccess ==
  ASSUME PlaceInv, AccessInv, NEW r \in due, Moves(r), MergeScript(r), Rests
  PROVE  AccessInv'
<1>0. r.op \in SaveOps /\ Progressing /\ pc[r] = "row" /\ Changing(r) /\ held[r].item # Nothing
  BY DEF MergeScript, PlaceInv, Changing, ChangeOps, ChangeLabels
<1>1. CASE \E outcome : Reply(r, outcome)
  BY <1>0, <1>1, ReplyKeepsAccess
<1>2. CASE ~ \E outcome : Reply(r, outcome)
  <2>1. SavePending(r)
    BY DEF AccessInv, Pending
  <2>2. PICK row : /\ pc'[r] = "write" /\ held'[r] = [held[r] EXCEPT !.row = row]
                   /\ DOMAIN row = Columns /\ row.db = held[r].row.db
    <3>1. PICK existing, row : /\ Goto(r, "write", [held[r] EXCEPT !.row = row])
                               /\ row = (IF held[r].kind = "workflow" THEN MergedWorkflow(existing, held[r].row)
                                         ELSE MergedForm(existing, held[r].row))
      BY <1>2 DEF MergeScript
    <3>2. DOMAIN held[r].row = Columns
      BY <1>0, <2>1 DEF SavePending
    <3>3. DOMAIN row = Columns /\ row.db = held[r].row.db
      BY <3>1, <3>2, Merged
    <3>. QED  BY <1>0, <3>1, <3>3, GotoMoves
  <2>3. {"kind", "item", "row", "previous"} \subseteq DOMAIN held[r] /\ held[r].kind \in ItemScopes
    BY <1>0, <2>1 DEF SavePending
  <2>4. /\ DOMAIN held'[r] = DOMAIN held[r] /\ held'[r].kind = held[r].kind
        /\ held'[r].item = held[r].item /\ held'[r].row = row /\ held'[r].todo = held[r].todo
    BY <2>2, <2>3
  <2>5. SavePending(r)'
    <3>1. PICK i, w : i = held[r].item /\ w = held[r].row
      OBVIOUS
    <3>2. HandedOut(i) /\ SameDatabase(i, w)
      BY <1>0, <2>1, <3>1 DEF SavePending
    <3>3. HandedOut(i)' /\ SameDatabase(i, row)'
      BY <2>2, <3>1, <3>2 DEF Rests, HandedOut, SameDatabase, Exists
    <3>. QED  BY <1>0, <2>2, <2>3, <2>4, <3>1, <3>3 DEF SavePending
  <2>6. Pending(r)'
    BY <1>0, <2>4, <2>5, SaveGoesOn
  <2>. QED  BY <1>0, <2>4, <2>6, RestsKeepsAccess
<1>. QED  BY <1>1, <1>2

\* A row that is written, of an id that was handed out or is new.
LEMMA RowWritten ==
  ASSUME AccessInv, NEW i \in ScriptIds, NEW row, DOMAIN row = Columns,
         scripts' = [scripts EXCEPT ![i] = row],
         HandedOut(i)', \A j : HandedOut(j) => HandedOut(j)',
         DOMAIN made' = DOMAIN made, \A kind \in ItemScopes : made'[kind] \in Nat
  PROVE  IdsInv'
<1>1. /\ DOMAIN scripts' = ScriptIds /\ scripts'[i] = row
      /\ \A j \in ScriptIds : j # i => scripts'[j] = scripts[j]
  BY DEF AccessInv, IdsInv
<1>2. ASSUME NEW j \in ScriptIds, Exists(j)' PROVE HandedOut(j)' /\ DOMAIN scripts'[j] = Columns
  <2>1. CASE j = i
    BY <1>1, <2>1
  <2>2. CASE j # i
    <3>1. scripts'[j] = scripts[j] /\ Exists(j)
      BY <1>1, <1>2, <2>2 DEF Exists
    <3>. QED  BY <3>1 DEF AccessInv, IdsInv
  <2>. QED  BY <2>1, <2>2
<1>. QED  BY <1>1, <1>2 DEF AccessInv, IdsInv

LEMMA CreateScriptKeepsAccess ==
  ASSUME PlaceInv, AccessInv, NEW r \in due, Moves(r), CreateScript(r),
         UNCHANGED <<grants, contended, doubled>>
  PROVE  AccessInv'
<1>0. /\ r.op \in SaveOps /\ Progressing /\ pc[r] = "row" /\ Changing(r) /\ held[r].item = Nothing
      /\ made[held[r].kind] < Len(IdsOf(held[r].kind))
  BY DEF CreateScript, PlaceInv, Changing, ChangeOps, ChangeLabels
<1>1. CASE \E outcome : Reply(r, outcome) /\ UNCHANGED scriptVars
  BY <1>0, <1>1, ReplyKeepsAccess DEF Rests, scriptVars
<1>2. CASE ~ \E outcome : Reply(r, outcome) /\ UNCHANGED scriptVars
  <2>1. /\ {"kind", "item", "row", "previous"} \subseteq DOMAIN held[r]
        /\ held[r].kind \in ItemScopes /\ DOMAIN held[r].row = Columns
    BY <1>0 DEF AccessInv, Pending, SavePending
  <2>2. PICK kind \in ItemScopes : kind = held[r].kind
    BY <2>1
  <2>3. PICK id : id = NextScriptId(kind)
    OBVIOUS
  <2>4. /\ IF kind = "workflow" THEN CreateWorkflow(held[r].row) ELSE Create(kind, held[r].row)
        /\ Goto(r, "file", [held[r] EXCEPT !.item = id, !.row.at = stamp'])
    BY <1>0, <1>2, <2>2, <2>3 DEF CreateScript
  <2>5. PICK row : /\ DOMAIN row = Columns /\ scripts' = [scripts EXCEPT ![id] = row]
                   /\ made' = [made EXCEPT ![kind] = @ + 1]
    <3>1. PICK w : DOMAIN w = Columns /\ Create(kind, w)
      BY <2>1, <2>2, <2>4 DEF CreateWorkflow
    <3>2. DOMAIN [w EXCEPT !.at = stamp'] = Columns
      BY <3>1
    <3>. QED  BY <2>3, <3>1, <3>2 DEF Create, WriteRow
  <2>6. /\ id \in ScriptIds /\ ~HandedOut(id) /\ id # Nothing
        /\ \A k \in ItemScopes : made'[k] \in Nat
        /\ HandedOut(id)' /\ \A i : HandedOut(i) => HandedOut(i)'
    BY <1>0, <2>2, <2>3, <2>5, NextIdIsNew DEF AccessInv
  <2>7. IdsInv'
    BY <2>5, <2>6, RowWritten
  <2>8. Forward /\ Touches(r) /\ GrantsFit(r)
    BY <2>5, <2>6 DEF Forward, Touches, GrantsFit, AccessInv, IdsInv
  <2>9. /\ pc'[r] = "file" /\ held'[r] = [held[r] EXCEPT !.item = id, !.row.at = stamp']
    BY <1>0, <2>4, GotoMoves
  <2>10. /\ DOMAIN held'[r] = DOMAIN held[r] /\ held'[r].kind = held[r].kind /\ held'[r].item = id
         /\ DOMAIN held'[r].row = DOMAIN held[r].row /\ held'[r].todo = held[r].todo
    BY <2>1, <2>9
  <2>11. SavePending(r)'
    BY <2>1, <2>6, <2>9, <2>10 DEF SavePending
  <2>12. Announced(r)
    <3> SUFFICES ASSUME NEW q \in due \ {r}, Changing(q), held[q].item = id PROVE FALSE
      BY <2>10 DEF Announced
    <3>1. HandedOut(held[q].item) \/ held[q].item = Nothing
      BY DEF AccessInv, Pending, SavePending, ItemPending, Changing, ChangeOps, PublishOps, ChangeLabels
    <3>. QED  BY <2>6, <3>1
  <2>. QED  BY <1>0, <2>7, <2>8, <2>10, <2>11, <2>12, SaveGoesOn, StepKeepsAccess
<1>. QED  BY <1>1, <1>2

LEMMA WriteScriptRowKeepsAccess ==
  ASSUME PlaceInv, AccessInv, NEW r \in due, Moves(r), WriteScriptRow(r),
         UNCHANGED <<grants, contended, doubled>>
  PROVE  AccessInv'
<1>0. r.op \in SaveOps /\ Progressing /\ pc[r] = "write" /\ Changing(r)
  BY DEF WriteScriptRow, PlaceInv, Changing, ChangeOps, ChangeLabels
<1>1. CASE \E outcome : Reply(r, outcome) /\ UNCHANGED scriptVars
  BY <1>0, <1>1, ReplyKeepsAccess DEF Rests, scriptVars
<1>2. CASE ~ \E outcome : Reply(r, outcome) /\ UNCHANGED scriptVars
  <2>1. /\ {"kind", "item", "row", "previous"} \subseteq DOMAIN held[r]
        /\ held[r].kind \in ItemScopes /\ DOMAIN held[r].row = Columns
        /\ held[r].item # Nothing
    BY <1>0 DEF AccessInv, Pending, SavePending
  <2>2. PICK i, w : i = held[r].item /\ w = held[r].row
    OBVIOUS
  <2>3. HandedOut(i) /\ SameDatabase(i, w) /\ i \in ScriptIds
    BY <1>0, <2>1, <2>2, HandedOutIds DEF AccessInv, Pending, SavePending
  <2>4. SaveScript(i, w) /\ Goto(r, "file", [held[r] EXCEPT !.row.at = stamp'])
    BY <1>2, <2>2 DEF WriteScriptRow
  <2>5. PICK row : /\ DOMAIN row = Columns /\ row.db = w.db
                   /\ scripts' = [scripts EXCEPT ![i] = row] /\ made' = made
    <3>1. DOMAIN [w EXCEPT !.at = stamp'] = Columns /\ [w EXCEPT !.at = stamp'].db = w.db
      BY <2>1, <2>2 DEF Columns
    <3>. QED  BY <2>4, <3>1 DEF SaveScript, WriteRow
  <2>6. \A j : HandedOut(j) <=> HandedOut(j)'
    BY <2>5 DEF HandedOut
  <2>7. IdsInv'
    BY <2>3, <2>5, <2>6, RowWritten DEF AccessInv, IdsInv
  <2>8. Forward /\ GrantsFit(r)
    BY <2>6 DEF Forward, GrantsFit
  <2>9. Touches(r)
    BY <1>0, <2>2, <2>3, <2>5 DEF Touches, SameDatabase, AccessInv, IdsInv
  <2>10. pc'[r] = "file" /\ held'[r] = [held[r] EXCEPT !.row.at = stamp']
    BY <1>0, <2>4, GotoMoves
  <2>11. /\ DOMAIN held'[r] = DOMAIN held[r] /\ held'[r].kind = held[r].kind /\ held'[r].item = i
         /\ DOMAIN held'[r].row = DOMAIN held[r].row /\ held'[r].todo = held[r].todo
    BY <2>1, <2>2, <2>10
  <2>12. SavePending(r)'
    BY <2>1, <2>2, <2>3, <2>6, <2>10, <2>11 DEF SavePending
  <2>13. Announced(r)
    BY <1>0, <2>2, <2>8, <2>11, GoesOnAnnounced DEF Forward
  <2>. QED  BY <1>0, <2>7, <2>8, <2>9, <2>11, <2>12, <2>13, SaveGoesOn, StepKeepsAccess
<1>. QED  BY <1>1, <1>2

LEMMA WriteScriptFileKeepsAccess ==
  ASSUME PlaceInv, AccessInv, NEW r \in due, Moves(r), WriteScriptFile(r), Rests
  PROVE  AccessInv'
<1>0. r.op \in SaveOps /\ Progressing /\ pc[r] = "file" /\ Changing(r)
  BY DEF WriteScriptFile, PlaceInv, Changing, ChangeOps, ChangeLabels
<1>1. CASE \E outcome : Reply(r, outcome)
  BY <1>0, <1>1, ReplyKeepsAccess
<1>2. CASE ~ \E outcome : Reply(r, outcome)
  <2>1. pc'[r] \in {"oldFile", "owner"} /\ held'[r] = held[r]
    BY <1>0, <1>2, GotoMoves DEF WriteScriptFile
  <2>2. SavePending(r)'
    <3>1. SavePending(r)
      BY DEF AccessInv, Pending
    <3>. QED  BY <1>0, <2>1, <3>1 DEF SavePending, Changing, Rests, HandedOut
  <2>3. Pending(r)'
    BY <1>0, <2>1, <2>2, SaveGoesOn
  <2>. QED  BY <1>0, <2>1, <2>3, RestsKeepsAccess
<1>. QED  BY <1>1, <1>2

\* The grant is of a workflow or form that was created, and its subject is known.
LEMMA GrantResourceOwnerKeepsAccess ==
  ASSUME PlaceInv, AccessInv, NEW r \in due, Moves(r), GrantResourceOwner(r),
         UNCHANGED <<scripts, made, contended>>
  PROVE  AccessInv'
<1>0. /\ r.op \in SaveOps /\ Progressing /\ pc[r] = "owner" /\ Changing(r)
      /\ doubled' = doubled \cup {r.actor} /\ \E outcome : Reply(r, outcome)
  BY DEF GrantResourceOwner, PlaceInv, Changing, ChangeOps, ChangeLabels
<1> DEFINE g == [sub |-> r.actor, scope |-> held[r].kind, res |-> IdResource(held[r].item),
                 item |-> NoName, level |-> Write]
<1>1. \A h \in grants' \ grants : h = g
  BY DEF GrantResourceOwner, SaveGrant
<1>2. Forward /\ Touches(r) /\ IdsInv'
  BY <1>0 DEF Forward, Touches, HandedOut, AccessInv, IdsInv, Exists
<1>3. Pending(r)' /\ Announced(r)
  BY <1>0, ReplyPending DEF Announced
<1>4. held[r].kind \in ItemScopes /\ HandedOut(held[r].item)
  BY <1>0 DEF AccessInv, Pending, SavePending
<1>5. Grounded(g)
  BY <1>4 DEF Grounded, HasResource, Ranged, IdResource, ItemScopes, SetScopes, Write, None, FieldAll
<1>6. PICK h : h = g
  OBVIOUS
<1>7. Grounded(h)' /\ h.sub = r.actor
  BY <1>2, <1>5, <1>6, GroundedStays
<1>8. GrantsFit(r)
  BY <1>0, <1>1, <1>6, <1>7 DEF GrantsFit
<1>. QED  BY <1>2, <1>3, <1>8, StepKeepsAccess

-----------------------------------------------------------------------------
(* Deleting and publishing.                                                *)

ItemOps == {"deleteScript", "publish", "unpublish"}

\* A deletion or publication begins.
LEMMA ItemBegins ==
  ASSUME PlaceInv, AccessInv, NEW r \in due, Moves(r), r.op \in ItemOps,
         UNCHANGED <<grants, scripts, made, doubled>>,
         NEW label, Goto(r, label, [item |-> r.item, row |-> NoScript]),
         Exists(r.item), Contend(r, r.item)
  PROVE  AccessInv'
<1>1. pc'[r] = label /\ held'[r] = [item |-> r.item, row |-> NoScript]
  BY GotoMoves DEF PlaceInv
<1>2. HandedOut(r.item) /\ HandedOut(r.item)'
  BY DEF AccessInv, IdsInv, Exists, HandedOut
<1>3. contended \subseteq contended'
  BY DEF Contend
<1>4. Forward /\ Touches(r) /\ GrantsFit(r) /\ IdsInv'
  BY <1>3 DEF Forward, Touches, GrantsFit, HandedOut, AccessInv, IdsInv, Exists
<1>5. Announced(r)
  BY <1>1 DEF Announced, Contend
<1>6. ItemPending(r)'
  BY <1>1, <1>2 DEF ItemPending
<1>7. Pending(r)'
  BY <1>6 DEF ItemOps, Pending, GrantPending, RolePending, SavePending, PushPending, SaveOps
<1>. QED  BY <1>4, <1>5, <1>7, StepKeepsAccess

\* It reads the row that it is to change, or answers.
LEMMA ItemRead ==
  ASSUME PlaceInv, AccessInv, NEW r \in due, Moves(r), r.op \in ItemOps, Rests, Changing(r),
         NEW label, NEW row, Goto(r, label, [item |-> r.item, row |-> row]),
         r.op \in PublishOps =>
           Exists(r.item) /\ DOMAIN row = Columns /\ row.db = scripts[r.item].db
  PROVE  AccessInv'
<1>1. pc'[r] = label /\ held'[r] = [item |-> r.item, row |-> row]
  BY GotoMoves DEF PlaceInv
<1>2. HandedOut(r.item)' /\ held[r].item = r.item
  BY DEF AccessInv, Pending, ItemPending, Rests, HandedOut, ItemOps, PublishOps
<1>3. r.op \in PublishOps => SameDatabase(r.item, row)'
  BY DEF SameDatabase, Rests, Exists
<1>4. ItemPending(r)'
  BY <1>1, <1>2, <1>3 DEF ItemPending
<1>5. Pending(r)'
  BY <1>4 DEF ItemOps, Pending, GrantPending, RolePending, SavePending, PushPending, SaveOps
<1>. QED  BY <1>1, <1>2, <1>5, RestsKeepsAccess

LEMMA ItemKeepsAccess ==
  ASSUME PlaceInv, AccessInv, NEW r \in due, Moves(r),
         \/ HandleDeleteScript(r) \/ FindDeleted(r) \/ RemoveScriptFile(r)
         \/ HandlePublish(r) \/ ReadForm(r)
  PROVE  AccessInv'
<1>0. Progressing
  BY DEF PlaceInv
<1> USE DEF storeVars, accessVars, scriptVars, accessHistory, codeVars, Rests
<1>1. CASE pc'[r] = "done" /\ Rests
  BY <1>1, DonePending, RestsKeepsAccess
<1>2. CASE HandleDeleteScript(r)
  <2>1. r.op \in ItemOps /\ UNCHANGED <<grants, scripts, made, doubled>>
    BY <1>2 DEF HandleDeleteScript, At, ItemOps
  <2>2. CASE ~MayDeleteScript(r.actor, r.item)
    BY <1>0, <1>1, <1>2, <2>2, GotoMoves DEF HandleDeleteScript
  <2>3. CASE MayDeleteScript(r.actor, r.item)
    <3>1. Exists(r.item)
      BY <2>3 DEF MayDeleteScript, CanAccessScript
    <3>. QED  BY <1>2, <2>1, <2>3, <3>1, ItemBegins DEF HandleDeleteScript
  <2>. QED  BY <2>2, <2>3
<1>3. CASE HandlePublish(r)
  <2>1. r.op \in ItemOps /\ UNCHANGED <<grants, scripts, made, doubled>>
    BY <1>3 DEF HandlePublish, PublishOps, ItemOps
  <2>2. CASE ~MayWriteScript(r.actor, r.item)
    BY <1>0, <1>1, <1>3, <2>2, GotoMoves DEF HandlePublish
  <2>3. CASE MayWriteScript(r.actor, r.item)
    <3>1. Exists(r.item)
      BY <2>3 DEF MayWriteScript, CanAccessScript
    <3>. QED  BY <1>3, <2>1, <2>3, <3>1, ItemBegins DEF HandlePublish
  <2>. QED  BY <2>2, <2>3
<1>4. CASE FindDeleted(r)
  <2>1. r.op \in ItemOps /\ r.op \notin PublishOps /\ Rests /\ Changing(r)
    BY <1>4 DEF FindDeleted, At, ItemOps, PublishOps, Changing, ChangeOps, ChangeLabels
  <2>2. CASE ~Exists(r.item)
    BY <1>0, <1>1, <1>4, <2>1, <2>2, GotoMoves DEF FindDeleted
  <2>3. CASE Exists(r.item)
    BY <1>4, <2>1, <2>3, ItemRead DEF FindDeleted
  <2>. QED  BY <2>2, <2>3
<1>5. CASE ReadForm(r)
  <2>1. r.op \in ItemOps /\ Rests /\ Changing(r)
    BY <1>5 DEF ReadForm, ItemOps, PublishOps, Changing, ChangeOps, ChangeLabels
  <2>2. CASE ~Exists(r.item)
    BY <1>0, <1>1, <1>5, <2>1, <2>2, GotoMoves DEF ReadForm
  <2>3. CASE Exists(r.item)
    <3>1. PICK token : Goto(r, "token", [item |-> r.item, row |-> [scripts[r.item] EXCEPT !.token = token]])
      BY <1>5, <2>3 DEF ReadForm
    <3>2. PICK row : row = [scripts[r.item] EXCEPT !.token = token]
      OBVIOUS
    <3>3. DOMAIN scripts[r.item] = Columns
      BY <2>3 DEF AccessInv, IdsInv, Exists
    <3>4. DOMAIN row = Columns /\ row.db = scripts[r.item].db
      BY <3>2, <3>3 DEF Columns
    <3>. QED  BY <2>1, <2>3, <3>1, <3>2, <3>4, ItemRead
  <2>. QED  BY <2>2, <2>3
<1>6. CASE RemoveScriptFile(r)
  BY <1>0, <1>1, <1>6, GotoMoves DEF RemoveScriptFile
<1>. QED  BY <1>2, <1>3, <1>4, <1>5, <1>6

\* Only the row goes.
LEMMA DeleteRowKeepsAccess ==
  ASSUME PlaceInv, AccessInv, NEW r \in due, Moves(r), DeleteRowOfScript(r),
         UNCHANGED <<grants, contended, doubled>>
  PROVE  AccessInv'
<1>0. /\ r.op = "deleteScript" /\ pc[r] = "delete" /\ Changing(r)
      /\ scripts' = [scripts EXCEPT ![r.item] = NoScript] /\ made' = made
      /\ pc'[r] = "remove" /\ held'[r] = held[r]
  BY GotoMoves DEF DeleteRowOfScript, DeleteScriptRow, At, Changing, ChangeOps, ChangeLabels, PlaceInv
<1>1. held[r].item = r.item /\ HandedOut(r.item)
  BY <1>0 DEF AccessInv, Pending, ItemPending
<1>2. /\ DOMAIN scripts' = ScriptIds /\ scripts'[r.item] = NoScript
      /\ \A i \in ScriptIds : i # r.item => scripts'[i] = scripts[i]
  BY <1>0, <1>1, HandedOutIds DEF AccessInv, IdsInv
<1>3. \A i : HandedOut(i)' <=> HandedOut(i)
  BY <1>0 DEF HandedOut
<1>4. IdsInv'
  BY <1>0, <1>2, <1>3 DEF AccessInv, IdsInv, Exists
<1>5. Forward /\ GrantsFit(r) /\ Announced(r)
  BY <1>0, <1>3, GoesOnAnnounced DEF Forward, GrantsFit
<1>6. Touches(r)
  BY <1>0, <1>1, <1>2 DEF Touches, Exists
<1>7. Pending(r)'
  BY <1>0, <1>1, <1>3
     DEF Pending, GrantPending, RolePending, SavePending, PushPending, ItemPending, SaveOps, PublishOps
<1>. QED  BY <1>4, <1>5, <1>6, <1>7, StepKeepsAccess

LEMMA WriteTokenKeepsAccess ==
  ASSUME PlaceInv, AccessInv, NEW r \in due, Moves(r), WriteToken(r),
         UNCHANGED <<grants, contended, doubled>>
  PROVE  AccessInv'
<1>0. /\ r.op \in PublishOps /\ pc[r] = "token" /\ held[r].row # NoScript /\ Changing(r) /\ pc'[r] = "done"
  BY GotoMoves DEF WriteToken, Changing, ChangeOps, ChangeLabels, PublishOps, PlaceInv
<1>1. Pending(r)' /\ Announced(r)
  BY <1>0, DonePending
<1>2. CASE UNCHANGED scriptVars
  BY <1>1, <1>2, RestsFits, StepKeepsAccess DEF AccessInv, Rests, scriptVars
<1>3. CASE ~UNCHANGED scriptVars
  <2>1. PICK i, w : i = r.item /\ w = held[r].row
    OBVIOUS
  <2>2. held[r].item = i /\ HandedOut(i) /\ i \in ScriptIds /\ DOMAIN w = Columns /\ SameDatabase(i, w)
    BY <1>0, <2>1, HandedOutIds DEF AccessInv, Pending, ItemPending
  <2>3. PICK v : SaveScript(i, v) /\ v \in {w, MergedForm(scripts[i], w)}
    BY <1>3, <2>1 DEF WriteToken
  <2>4. DOMAIN v = Columns /\ v.db = w.db
    BY <2>2, <2>3, Merged
  <2>5. PICK row : /\ DOMAIN row = Columns /\ row.db = w.db
                   /\ scripts' = [scripts EXCEPT ![i] = row] /\ made' = made
    <3>1. DOMAIN [v EXCEPT !.at = stamp'] = Columns /\ [v EXCEPT !.at = stamp'].db = w.db
      BY <2>4 DEF Columns
    <3>. QED  BY <2>3, <3>1 DEF SaveScript, WriteRow
  <2>6. \A j : HandedOut(j) <=> HandedOut(j)'
    BY <2>5 DEF HandedOut
  <2>7. IdsInv'
    BY <2>2, <2>5, <2>6, RowWritten DEF AccessInv, IdsInv
  <2>8. Forward /\ GrantsFit(r)
    BY <2>6 DEF Forward, GrantsFit
  <2>9. Touches(r)
    BY <1>0, <2>2, <2>5 DEF Touches, SameDatabase, AccessInv, IdsInv
  <2>. QED  BY <1>1, <2>7, <2>8, <2>9, StepKeepsAccess
<1>. QED  BY <1>2, <1>3

LEMMA ScriptsKeepAccess ==
  ASSUME PlaceInv, AccessInv, NEW r \in due, ScriptsSteps(r), Moves(r)
  PROVE  AccessInv'
<1> USE DEF Rests, storeVars, accessVars, scriptVars, accessHistory, codeVars
<1>1. CASE HandleSaveScript(r)
  BY <1>1, HandleSaveScriptKeepsAccess DEF HandleSaveScript
<1>2. CASE FindPrevious(r)
  BY <1>2, FindPreviousKeepsAccess DEF FindPrevious
<1>3. CASE CreateScript(r)
  BY <1>3, CreateScriptKeepsAccess DEF CreateScript
<1>4. CASE MergeScript(r)
  BY <1>4, MergeScriptKeepsAccess DEF MergeScript
<1>5. CASE WriteScriptRow(r)
  BY <1>5, WriteScriptRowKeepsAccess DEF WriteScriptRow
<1>6. CASE WriteScriptFile(r)
  BY <1>6, WriteScriptFileKeepsAccess DEF WriteScriptFile
<1>7. CASE RemoveOldFile(r)
  BY <1>7, ReplyKeepsAccess DEF RemoveOldFile
<1>8. CASE GrantResourceOwner(r)
  BY <1>8, GrantResourceOwnerKeepsAccess DEF GrantResourceOwner
<1>9. CASE DeleteRowOfScript(r)
  BY <1>9, DeleteRowKeepsAccess DEF DeleteRowOfScript
<1>10. CASE WriteToken(r)
  BY <1>10, WriteTokenKeepsAccess DEF WriteToken
<1>11. CASE GetScript(r) \/ GetPublishedForm(r) \/ HandleWorkflowWebhook(r)
  <2>1. pc'[r] = "done" /\ Rests
    BY <1>11, GotoMoves DEF GetScript, GetPublishedForm, HandleWorkflowWebhook, PlaceInv
  <2>. QED  BY <2>1, DonePending, RestsKeepsAccess
<1>. QED  BY <1>1, <1>2, <1>3, <1>4, <1>5, <1>6, <1>7, <1>8, <1>9, <1>10, <1>11, ItemKeepsAccess
          DEF ScriptsSteps

-----------------------------------------------------------------------------
(* autablectl, and the rest.                                               *)

\* Of some ids, one has the first position.
LEMMA FirstIsOne ==
  ASSUME NEW ids, ids \subseteq ScriptIds, ids # {}
  PROVE  FirstOf(ids) \in ids
<1>1. ASSUME NEW i \in ids PROVE Position(i) \in Nat
  <2>1. /\ IdsOf(Kind(i)) \in Seq(Range(IdsOf(Kind(i)))) /\ i \in Range(IdsOf(Kind(i)))
    BY StoreAssumption DEF IdsOf, Kind, ScriptIds
  <2>2. \E n \in DOMAIN IdsOf(Kind(i)) : IdsOf(Kind(i))[n] = i
    BY <2>1 DEF Range
  <2>3. DOMAIN IdsOf(Kind(i)) \subseteq Nat
    BY <2>1
  <2>. QED  BY <2>2, <2>3 DEF Position
<1> DEFINE T == {Position(i) : i \in ids}
<1>2. T \subseteq Nat /\ T # {}
  BY <1>1
<1>3. PICK x \in T : \A y \in T : x <= y
  BY <1>2, Least
<1>. QED  BY <1>3 DEF FirstOf

\* What push posts has the columns of workflows and forms, and so has what
\* workflow set posts.
LEMMA PostedColumns ==
  /\ \A row : DOMAIN WithoutSecrets(row) = DOMAIN row
  /\ \A change : DOMAIN NewRow(change) = Columns
  BY DEF WithoutSecrets, NewRow, Columns

LEMMA PushChangeKeepsAccess ==
  ASSUME PlaceInv, AccessInv, NEW r \in due, Moves(r), PushChange(r), Rests
  PROVE  AccessInv'
<1>0. r.op = "push" /\ pc[r] = "next" /\ held[r].todo # {} /\ Progressing
  BY DEF PushChange, At, PlaceInv
<1>1. \A c \in held[r].todo : c.kind \in ItemScopes
  BY <1>0 DEF AccessInv, Pending, PushPending
<1>2. PICK change : change = (CHOOSE c \in held[r].todo : TRUE)
  OBVIOUS
<1>3. change \in held[r].todo
  BY <1>0, <1>2
<1>4. PICK row : row = IF change.status = "modified"
                       THEN WithoutSecrets([scripts[change.entry.item] EXCEPT !.script = change.script])
                       ELSE NewRow(change)
  OBVIOUS
<1>5. ASSUME NEW failed, Goto(r, "next", [state |-> held[r].state, todo |-> held[r].todo \ {change},
                                          failed |-> failed])
      PROVE  AccessInv'
  <2>1. pc'[r] = "next" /\ "todo" \in DOMAIN held'[r] /\ held'[r].todo = held[r].todo \ {change}
    BY <1>0, <1>5, GotoMoves
  <2>2. Pending(r)' /\ ~Changing(r)'
    BY <1>0, <1>1, <2>1 DEF Pending, GrantPending, RolePending, SavePending, PushPending, ItemPending,
       Changing, ChangeLabels, PublishOps
  <2>. QED  BY <2>2, RestsKeepsAccess
<1>6. ASSUME NEW failed, NEW item, NEW checked, CheckChange(r.actor, change, r.force),
             Goto(r, "post", [state |-> held[r].state, todo |-> held[r].todo \ {change},
                              failed |-> failed, kind |-> change.kind, item |-> item, row |-> row,
                              valid |-> TRUE, previous |-> NoScript, outcome |-> "none",
                              change |-> change, checked |-> checked])
      PROVE  AccessInv'
  <2>1. /\ pc'[r] = "post" /\ {"kind", "item", "row", "previous", "todo"} \subseteq DOMAIN held'[r]
        /\ held'[r].kind = change.kind /\ held'[r].row = row /\ held'[r].todo = held[r].todo \ {change}
    BY <1>0, <1>6, GotoMoves
  <2>2. DOMAIN row = Columns
    <3>1. CASE change.status = "modified"
      <4>1. DOMAIN scripts[change.entry.item] = Columns
        BY <1>6, <3>1 DEF CheckChange, MayReadScript, CanAccessScript, Exists, AccessInv, IdsInv
      <4>. QED  BY <1>4, <3>1, <4>1, PostedColumns
    <3>2. CASE change.status # "modified"
      BY <1>4, <3>2, PostedColumns
    <3>. QED  BY <3>1, <3>2
  <2>3. Pending(r)' /\ ~Changing(r)'
    BY <1>0, <1>1, <1>3, <2>1, <2>2 DEF Pending, GrantPending, RolePending, SavePending, PushPending, ItemPending,
       Changing, ChangeLabels, PublishOps
  <2>. QED  BY <2>3, RestsKeepsAccess
<1>7. \/ \E failed : Goto(r, "next", [state |-> held[r].state, todo |-> held[r].todo \ {change},
                                      failed |-> failed])
      \/ CheckChange(r.actor, change, r.force) /\ \E failed, item, checked :
           Goto(r, "post", [state |-> held[r].state, todo |-> held[r].todo \ {change},
                            failed |-> failed, kind |-> change.kind, item |-> item, row |-> row,
                            valid |-> TRUE, previous |-> NoScript, outcome |-> "none",
                            change |-> change, checked |-> checked])
  <2>1. CASE CheckChange(r.actor, change, r.force) /\ ~r.dry
    BY <1>2, <1>4, <2>1, Zenon DEF PushChange
  <2>2. CASE CheckChange(r.actor, change, r.force) /\ r.dry
    BY <1>2, <2>2, Zenon DEF PushChange
  <2>3. CASE ~CheckChange(r.actor, change, r.force)
    <3>1. \A a, b, c, d : [[state |-> a, todo |-> b, failed |-> c] EXCEPT !.failed = d] =
                          [state |-> a, todo |-> b, failed |-> d]
      OBVIOUS
    <3>2. PICK rest : /\ Goto(r, "next", rest)
                      /\ rest = [[state |-> held[r].state, todo |-> held[r].todo \ {change},
                                  failed |-> held[r].failed] EXCEPT !.failed = TRUE]
      BY <1>2, <2>3, Zenon DEF PushChange
    <3>3. rest = [state |-> held[r].state, todo |-> held[r].todo \ {change}, failed |-> TRUE]
      BY <3>1, <3>2, Zenon
    <3>. QED  BY <3>2, <3>3
  <2>. QED  BY <2>1, <2>2, <2>3
<1>. QED  BY <1>5, <1>6, <1>7

LEMMA RunWorkflowSetKeepsAccess ==
  ASSUME PlaceInv, AccessInv, NEW r \in due, Moves(r), RunWorkflowSet(r), Rests
  PROVE  AccessInv'
<1>0. r.op = "workflowSet" /\ Progressing
  BY DEF RunWorkflowSet, At, PlaceInv
<1> DEFINE found == Find(r.actor, "workflow", r.db, r.name)
<1>1. CASE found = {}
  BY <1>0, <1>1, GotoMoves, DonePending, RestsKeepsAccess DEF RunWorkflowSet
<1>2. CASE found # {}
  <2>1. \A i \in found : i \in ScriptIds /\ Exists(i)
    BY DEF Find, FilterReadable, ScriptsOf
  <2>2. PICK i \in found : i = FirstOf(found)
    BY <1>2, <2>1, FirstIsOne
  <2>3. PICK enabled, script :
          Goto(r, "post", [kind |-> "workflow", item |-> i,
                           row |-> WithoutSecrets([scripts[i] EXCEPT !.enabled = enabled, !.script = script]),
                           valid |-> TRUE, previous |-> NoScript, outcome |-> "none"])
    BY <1>2, <2>2 DEF RunWorkflowSet
  <2>4. PICK row : row = WithoutSecrets([scripts[i] EXCEPT !.enabled = enabled, !.script = script])
    OBVIOUS
  <2>5. /\ pc'[r] = "post" /\ {"kind", "item", "row", "previous"} \subseteq DOMAIN held'[r]
        /\ held'[r].kind = "workflow" /\ held'[r].row = row /\ DOMAIN row = Columns
    <3>1. DOMAIN scripts[i] = Columns
      BY <2>1 DEF AccessInv, IdsInv
    <3>2. DOMAIN row = Columns
      BY <2>4, <3>1, PostedColumns
    <3>. QED  BY <1>0, <2>3, <2>4, <3>2, GotoMoves
  <2>6. Pending(r)' /\ ~Changing(r)'
    BY <1>0, <2>5 DEF Pending, GrantPending, RolePending, SavePending, PushPending, ItemPending,
       Changing, ChangeLabels, PublishOps, ItemScopes
  <2>. QED  BY <2>6, RestsKeepsAccess
<1>. QED  BY <1>1, <1>2

\* Commands change no rows and no grants themselves.
LEMMA CliSyncRests ==
  ASSUME NEW r \in due, CliSyncSteps(r)
  PROVE  Rests
  BY CliSyncLeavesServer DEF Rests, storeVars, accessVars, scriptVars, accessHistory, codeVars

\* push has only workflows and forms to change.
LEMMA ChangesAreOfItems == \A actor : \A c \in LocalChanges(actor) : c.kind \in ItemScopes
  BY DEF LocalChanges

LEMMA CliSyncKeepsAccess ==
  ASSUME PlaceInv, AccessInv, NEW r \in due, CliSyncSteps(r), Steps(r, CliSyncOps)
  PROVE  AccessInv'
<1>0. Progressing /\ Rests /\ Moves(r) /\ r.op \in CliSyncOps
  BY CliSyncRests DEF PlaceInv, Steps
<1>1. CASE PushChange(r) \/ RunWorkflowSet(r)
  BY <1>0, <1>1, PushChangeKeepsAccess, RunWorkflowSetKeepsAccess
<1>2. CASE r.op \in {"edit", "pull", "status"}
  BY <1>0, <1>2, NothingPending, RestsKeepsAccess DEF ChangeOps, SaveOps
<1>3. CASE StartPush(r) \/ PushReply(r) \/ EndPush(r) \/ WorkflowSetReply(r) \/ RecordState(r)
  <2>1. CASE pc'[r] = "done"
    BY <1>0, <2>1, DonePending, RestsKeepsAccess
  <2>2. CASE pc'[r] # "done" /\ r.op = "push"
    <3>1. \/ pc'[r] = "record"
          \/ /\ pc'[r] = "next" /\ "todo" \in DOMAIN held'[r]
             /\ \A c \in held'[r].todo : c.kind \in ItemScopes
      <4>1. CASE StartPush(r)
        <5>1. PICK changes, state, failed :
                /\ changes \subseteq LocalChanges(r.actor)
                /\ Goto(r, "next", [state |-> state, todo |-> changes, failed |-> failed])
          BY <1>0, <2>2, <4>1, GotoMoves DEF StartPush
        <5>. QED  BY <1>0, <5>1, GotoMoves, ChangesAreOfItems
      <4>2. CASE PushReply(r)
        <5>1. PICK state, failed : Goto(r, "next", [state |-> state, todo |-> held[r].todo, failed |-> failed])
          BY <4>2 DEF PushReply
        <5>2. \A c \in held[r].todo : c.kind \in ItemScopes
          BY <2>2, <4>2 DEF PushReply, At, AccessInv, Pending, PushPending
        <5>. QED  BY <1>0, <5>1, <5>2, GotoMoves
      <4>3. CASE EndPush(r) \/ RecordState(r) \/ WorkflowSetReply(r)
        BY <1>0, <2>2, <4>3, GotoMoves DEF EndPush, RecordState, WorkflowSetReply
      <4>. QED  BY <1>3, <4>1, <4>2, <4>3
    <3>2. Pending(r)' /\ ~Changing(r)'
      BY <2>2, <3>1 DEF Pending, GrantPending, RolePending, SavePending, PushPending, ItemPending,
         Changing, ChangeLabels, PublishOps
    <3>. QED  BY <1>0, <3>2, RestsKeepsAccess
  <2>3. CASE pc'[r] # "done" /\ r.op # "push"
    <3>1. r.op = "pull"
      BY <1>0, <1>3, <2>3, GotoMoves DEF StartPush, PushReply, EndPush, WorkflowSetReply, RecordState, At
    <3>. QED  BY <1>2, <3>1
  <2>. QED  BY <2>1, <2>2, <2>3
<1>4. CASE EditFile(r) \/ ListRemote(r) \/ ListScripts(r) \/ WriteFiles(r) \/ RunStatus(r)
  BY <1>2, <1>4 DEF EditFile, ListRemote, ListScripts, WriteFiles, RunStatus, At
<1>. QED  BY <1>1, <1>3, <1>4 DEF CliSyncSteps

\* Changes of the catalog and of rows are none of grants, workflows or forms.
LEMMA CatalogRests ==
  ASSUME NEW r \in due, CatalogSteps(r), UNCHANGED codeVars
  PROVE  Rests
<1> USE DEF Rests, storeVars, accessVars, accessHistory, scriptVars, codeVars, catalogVars
<1>1. CASE CreateDatabase(r) \/ OwnDatabase(r) \/ AuthorizeTable(r) \/ ChangeTables(r)
           \/ AuthorizePatch(r) \/ ChangeTable(r) \/ ReadRows(r) \/ SyncRow(r)
  BY <1>1 DEF CreateDatabase, OwnDatabase, AuthorizeTable, ChangeTables, AuthorizePatch, ChangeTable,
     ReadRows, SyncRow
<1>2. CASE SaveCatalog(r) \/ AuthorizeFields(r) \/ MoveField(r) \/ CreateFields(r) \/ EnsureFields(r)
  BY <1>2 DEF SaveCatalog, AuthorizeFields, MoveField, CreateFields, EnsureFields
<1>3. CASE QueryRows(r) \/ AuthorizeRow(r) \/ ReadRow(r) \/ AddRow(r) \/ WriteTableRow(r)
           \/ AuthorizeDelete(r) \/ DeleteTableRow(r)
  BY <1>3 DEF QueryRows, AuthorizeRow, ReadRow, AddRow, WriteTableRow, AuthorizeDelete, DeleteTableRow
<1>. QED  BY <1>1, <1>2, <1>3 DEF CatalogSteps

\* Nor are sign-in and codes, and the clock.
LEMMA SignInRests ==
  \/ \E r \in due : SignInSteps(r)
  \/ \E c \in callbacks : Callback(c)
  \/ \E page \in shown : Authorize(page)
  \/ Tick \/ (\E r \in due, b \in Browsers : AuthorizePage(r, b))
  => UNCHANGED accessVars /\ UNCHANGED scriptVars
<1> USE DEF storeVars
<1>1. ASSUME NEW r \in due, SignInSteps(r) PROVE UNCHANGED accessVars /\ UNCHANGED scriptVars
  <2>1. CASE Register(r) \/ Upsert(r) \/ Login(r) \/ OpenSession(r) \/ Me(r) \/ Logout(r) \/ OIDCStart(r)
             \/ OIDCCallback(r)
    BY <2>1 DEF Register, Upsert, Login, OpenSession, Me, Logout, OIDCStart, OIDCCallback, BeginUpsert
  <2>2. CASE BrowserLogin(r) \/ LoginTimesOut(r) \/ ResendToken(r) \/ Redeem(r) \/ IssueToken(r)
             \/ SaveCredentials(r) \/ CliLogout(r) \/ RemoveCredentials(r)
    BY <2>2 DEF BrowserLogin, LoginTimesOut, ResendToken, Redeem, IssueToken, SaveCredentials, CliLogout,
       RemoveCredentials
  <2>. QED  BY <1>1, <2>1, <2>2 DEF SignInSteps
<1>2. ASSUME NEW c \in callbacks, Callback(c) PROVE UNCHANGED accessVars /\ UNCHANGED scriptVars
  BY <1>2 DEF Callback
<1>3. ASSUME NEW page \in shown, Authorize(page) PROVE UNCHANGED accessVars /\ UNCHANGED scriptVars
  BY <1>3 DEF Authorize
<1>4. ASSUME Tick \/ (\E r \in due, b \in Browsers : AuthorizePage(r, b))
      PROVE  UNCHANGED accessVars /\ UNCHANGED scriptVars
  BY <1>4 DEF Tick, AuthorizePage
<1>. QED  BY <1>1, <1>2, <1>3, <1>4

\* A statement that fails, and a restart, end changes of workflows and forms.
LEMMA FailKeepsAccess ==
  ASSUME PlaceInv, AccessInv, NEW r \in due, Fail(r)
  PROVE  AccessInv'
<1>0. Progressing /\ Moves(r) /\ Rests
  BY FailSteps DEF PlaceInv, Fail, Rests, storeVars, accessVars, scriptVars, codeVars
<1>1. CASE pc'[r] = "done"
  BY <1>0, <1>1, DonePending, RestsKeepsAccess
<1>2. CASE pc'[r] # "done"
  <2>1. GoesOn(r) /\ pc'[r] = "reply" /\ held'[r] = [held[r] EXCEPT !.outcome = "failed"]
    BY <1>0, <1>2 DEF Fail, StatementFails, Progressing
  <2>2. r.op \in SaveOps /\ pc[r] \notin {"start", "done", "record"}
    BY <2>1 DEF GoesOn, Handled, UnderWay, ClientLabels, SaveOps
  <2>3. SavePending(r)' /\ ~Changing(r)'
    BY <2>1 DEF SavePending, Changing, ChangeLabels
  <2>4. DOMAIN held'[r] = DOMAIN held[r] /\ held'[r].todo = held[r].todo
    BY <2>1
  <2>5. Pending(r)'
    BY <2>2, <2>3, <2>4, SaveGoesOn
  <2>. QED  BY <1>0, <2>3, <2>5, RestsKeepsAccess
<1>. QED  BY <1>1, <1>2

LEMMA EndsKeepAccess ==
  ASSUME PlaceInv, AccessInv, Rests, due' = due,
         \A q \in due :
           \/ pc'[q] = pc[q] /\ held'[q] = held[q]
           \/ pc'[q] = "done"
           \/ pc'[q] = "reply" /\ GoesOn(q) /\ held'[q] = [held[q] EXCEPT !.outcome = "failed"]
  PROVE  AccessInv'
<1>1. \A i : (HandedOut(i)' <=> HandedOut(i)) /\ (Exists(i)' <=> Exists(i))
  BY DEF Rests, HandedOut, Exists
<1>2. \A g, h : /\ Grounded(g)' <=> Grounded(g)
                /\ Covers(h, g)' <=> Covers(h, g)
                /\ Clash(h, g)' <=> Clash(h, g)
                /\ Exempt(g)' <=> Exempt(g)
  BY <1>1 DEF Rests, Grounded, Covers, Clash, Exempt, GrantDatabaseName
<1>3. IdsInv' /\ (\A g \in grants' : Grounded(g)') /\ GrantsExclusive'
  BY <1>1, <1>2 DEF Rests, AccessInv, IdsInv, GrantsExclusive
<1>4. ASSUME NEW q \in due PROVE Pending(q)' /\ (Changing(q)' => Changing(q) /\ held'[q] = held[q])
  <2>1. CASE pc'[q] = pc[q] /\ held'[q] = held[q]
    <3>0. Pending(q)
      BY DEF AccessInv
    <3>1. PICK item, row : item = held[q].item /\ row = held[q].row
      OBVIOUS
    <3>2. SameDatabase(item, row)' <=> SameDatabase(item, row)
      BY <1>1 DEF Rests, SameDatabase
    <3>3. (Changing(q)' <=> Changing(q)) /\ (RolePending(q)' <=> RolePending(q)) /\ (PushPending(q)' <=> PushPending(q))
      BY <1>2, <2>1 DEF Changing, RolePending, PushPending
    <3>4. GrantPending(q)'
      BY <1>2, <2>1, <3>0 DEF Rests, Pending, GrantPending
    <3>5. SavePending(q)'
      BY <1>1, <2>1, <3>0, <3>1, <3>2, <3>3 DEF Pending, SavePending
    <3>6. ItemPending(q)'
      BY <1>1, <2>1, <3>0, <3>1, <3>2, <3>3 DEF Pending, ItemPending
    <3>. QED  BY <2>1, <3>0, <3>3, <3>4, <3>5, <3>6 DEF Pending
  <2>2. CASE pc'[q] = "done"
    BY <2>2, DonePending
  <2>3. CASE pc'[q] = "reply" /\ GoesOn(q) /\ held'[q] = [held[q] EXCEPT !.outcome = "failed"]
    <3>1. q.op \in SaveOps /\ pc[q] \notin {"start", "done", "record"}
      BY <2>3 DEF GoesOn, Handled, UnderWay, ClientLabels, SaveOps
    <3>2. SavePending(q)' /\ ~Changing(q)'
      BY <2>3 DEF SavePending, Changing, ChangeLabels
    <3>3. DOMAIN held'[q] = DOMAIN held[q] /\ held'[q].todo = held[q].todo
      BY <2>3
    <3>. QED  BY <3>1, <3>2, <3>3, SaveGoesOn
  <2>. QED  BY <2>1, <2>2, <2>3
<1>5. Contending'
  BY <1>4 DEF Rests, AccessInv, Contending
<1>. QED  BY <1>3, <1>4, <1>5 DEF AccessInv

LEMMA RestartKeepsAccess ==
  ASSUME PlaceInv, AccessInv, Restart
  PROVE  AccessInv'
<1>1. /\ Rests /\ due' = due
      /\ \A q \in due :
           \/ pc'[q] = pc[q] /\ held'[q] = held[q]
           \/ pc'[q] = "done"
           \/ pc'[q] = "reply" /\ GoesOn(q) /\ held'[q] = [held[q] EXCEPT !.outcome = "failed"]
  BY DEF PlaceInv, Restart, Rests, storeVars, accessVars, scriptVars, codeVars, GoesOn, Progressing
<1>. QED  BY <1>1, EndsKeepAccess

LEMMA InitAccess == Init => AccessInv
<1> SUFFICES ASSUME Init PROVE AccessInv
  OBVIOUS
<1>0. /\ grants = FirstGrants /\ scripts = [i \in ScriptIds |-> NoScript]
      /\ made["workflow"] = 0 /\ made["form"] = 0 /\ DOMAIN made = {"workflow", "form", "role"}
      /\ \A r \in due : pc[r] = "start"
  BY DEF Init, RequestsInit, StoreInit
<1>1. \A i : ~Exists(i)
  BY <1>0 DEF Exists
<1>2. IdsInv
  BY <1>0, <1>1 DEF IdsInv, ItemScopes
<1>3. \A g \in grants : Grounded(g)
  BY <1>0, GrantAssumption DEF Grounded, Ranged
<1>4. GrantsExclusive
  <2> SUFFICES ASSUME NEW g \in FirstGrants, NEW h \in FirstGrants, g.sub = h.sub,
                      g.level # None, h.level # None, Covers(h, g)
               PROVE  FALSE
    BY <1>0 DEF GrantsExclusive
  <2>1. CASE g.scope \in {"field", "view"}
    BY <2>1, GrantAssumption DEF Covers, ItemScopes
  <2>2. CASE g.scope \in ItemScopes
    <3>1. h.scope \in SetScopes /\ h.res = <<NoName>>
      BY <1>1, <2>2 DEF Covers, GrantDatabaseName, ItemScopes, SetScopes, TableScopes, FieldScopes, SetOf
    <3>. QED  BY <3>1, GrantAssumption
  <2>. QED  BY <2>1, <2>2 DEF Covers, ExclusiveScopes, ItemScopes
<1>5. \A r \in due : Pending(r)
  BY <1>0 DEF Pending, GrantPending, RolePending, SavePending, PushPending, ItemPending, Changing, ChangeLabels
<1>6. Contending
  BY <1>0 DEF Contending, Changing, ChangeLabels
<1>. QED  BY <1>2, <1>3, <1>4, <1>5, <1>6 DEF AccessInv

LEMMA NextAccess == PlaceInv /\ AccessInv /\ [Next]_vars => AccessInv'
<1> SUFFICES ASSUME PlaceInv, AccessInv, [Next]_vars PROVE AccessInv'
  OBVIOUS
<1>0. Progressing /\ Placed
  BY DEF PlaceInv
<1>1. ASSUME NEW r \in due, Steps(r, SignInOps), UNCHANGED accessVars, UNCHANGED scriptVars,
             UNCHANGED <<doubled, contended>>
      PROVE  AccessInv'
  <2>1. Moves(r) /\ Rests /\ r.op \notin {"saveGrant", "roleGrants"} \cup ChangeOps
    BY <1>1 DEF Steps, Rests, accessVars, scriptVars, SignInOps, ChangeOps, SaveOps
  <2>. QED  BY <2>1, NothingPending, RestsKeepsAccess
<1>2. ASSUME NEW r \in due, AccessSteps(r), Steps(r, AccessOps), UNCHANGED codeVars
      PROVE  AccessInv'
  BY <1>2, AccessKeepsAccess DEF Steps
<1>3. ASSUME NEW r \in due, CatalogSteps(r), Steps(r, CatalogOps), UNCHANGED codeVars
      PROVE  AccessInv'
  <2>1. Moves(r) /\ Rests /\ r.op \notin {"saveGrant", "roleGrants"} \cup ChangeOps
    BY <1>3, CatalogRests DEF Steps, CatalogOps, ChangeOps, SaveOps
  <2>. QED  BY <2>1, NothingPending, RestsKeepsAccess
<1>4. ASSUME NEW r \in due, ScriptsSteps(r), Steps(r, ScriptsOps) PROVE AccessInv'
  BY <1>4, ScriptsKeepAccess DEF Steps
<1>5. ASSUME NEW r \in due, CliSyncSteps(r), Steps(r, CliSyncOps) PROVE AccessInv'
  BY <1>5, CliSyncKeepsAccess
<1>6. ASSUME NEW r \in due, Fail(r) PROVE AccessInv'
  BY <1>6, FailKeepsAccess
<1>7. CASE Restart
  BY <1>7, RestartKeepsAccess
<1>8. CASE Rests /\ UNCHANGED requestVars
  BY <1>8, EndsKeepAccess DEF requestVars
<1>9. UNCHANGED vars => Rests /\ UNCHANGED requestVars
  BY DEF vars, Rests, storeVars, accessVars, scriptVars, codeVars
<1>10. (/\ \/ Tick \/ (\E r \in due, b \in Browsers : AuthorizePage(r, b))
           \/ \E page \in shown : Authorize(page)
        /\ UNCHANGED <<doubled, codeVars>>) => Rests /\ UNCHANGED requestVars
  BY SignInRests DEF Rests, accessVars, scriptVars, codeVars, Tick, AuthorizePage, Authorize
<1>11. (\/ \E r \in due : SignInSteps(r) /\ Steps(r, SignInOps)
        \/ \E c \in callbacks : \E r \in due : Callback(c) /\ TakesCallback(r, c) /\ Steps(r, SignInOps))
       /\ UNCHANGED <<doubled, codeVars>> => AccessInv'
  BY <1>1, SignInRests DEF codeVars
<1>. QED  BY <1>0, <1>2, <1>3, <1>4, <1>5, <1>6, <1>7, <1>8, <1>9, <1>10, <1>11, WhoseStep

\* No subject ever has both a grant on all fields, views, workflows or forms of a
\* resource and one on a single one of them, whatever grants and roles are saved
\* at the same time and whatever fails: handleSaveGrant and ReplaceRoleGrants of
\* src/internal/api/server.go.  The exceptions are those of GrantsExclusive.
THEOREM GrantsStayExclusive == Spec => []GrantsExclusive
<1>1. Spec => [](PlaceInv /\ AccessInv)
  BY InitPlaced, NextPlaced, InitAccess, NextAccess, PTL DEF Spec
<1>2. AccessInv => GrantsExclusive
  BY DEF AccessInv
<1>. QED  BY <1>1, <1>2, PTL

-----------------------------------------------------------------------------
(* What an actor is shown.                                                 *)

\* Levels, and the highest of some.
LEMMA HighestOf ==
  ASSUME NEW S, S \subseteq None .. FieldAll, S # {}
  PROVE  Max(S) \in S /\ \A m \in S : m <= Max(S)
<1>1. PICK T : T = {m + 1 : m \in S}
  OBVIOUS
<1>0. \A m \in S : m \in 0 .. 7 /\ m + 1 \in 1 .. 8
  <2> TAKE m \in S
  <2>1. m \in 0 .. 7
    BY DEF None, FieldAll
  <2>. QED  BY <2>1
<1>2. T \subseteq 1 .. 8 /\ T # {}
  BY <1>0, <1>1
<1>3. PICK t \in T : \A m \in T : m <= t
  BY <1>2, GreatestIsMax
<1>4. PICK x \in S : t = x + 1
  BY <1>1
<1>5. \A m \in S : m <= x
  <2> TAKE m \in S
  <2>1. m + 1 <= x + 1
    BY <1>1, <1>3, <1>4
  <2>. QED  BY <2>1 DEF None, FieldAll
<1>. QED  BY <1>5 DEF Max, None, FieldAll

LEMMA HighestLevel ==
  ASSUME NEW these, \A g \in these : g.level \in None .. FieldAll
  PROVE  /\ Highest(these) \in None .. FieldAll
         /\ \A g \in these : g.level <= Highest(these)
<1>1. PICK S : S = {None} \cup {g.level : g \in these}
  OBVIOUS
<1>2. S \subseteq None .. FieldAll /\ S # {}
  BY <1>1 DEF None, FieldAll
<1>3. Highest(these) = Max(S)
  BY <1>1 DEF Highest
<1>4. Max(S) \in S /\ \A m \in S : m <= Max(S)
  BY <1>2, HighestOf
<1>. QED  BY <1>1, <1>2, <1>3, <1>4

\* The sum of some of the bits.
IsSum(f, S) ==
  f = [s \in SUBSET S |-> IF s = {} THEN 0
                          ELSE (CHOOSE x \in s : TRUE) + f[s \ {CHOOSE x \in s : TRUE}]]

BitSum(s) == (IF 1 \in s THEN 1 ELSE 0) + (IF 2 \in s THEN 2 ELSE 0) + (IF 4 \in s THEN 4 ELSE 0)

LEMMA SumIsPositive ==
  ASSUME NEW bits, bits \subseteq {FieldRead, FieldUpdate, FieldCreate}
  PROVE  LevelOf(bits) >= Read <=> bits # {}
<1>0. bits \subseteq {1, 2, 4}
  BY DEF FieldRead, FieldUpdate, FieldCreate
<1>1. PICK F : F = [s \in SUBSET bits |-> BitSum(s)]
  OBVIOUS
<1>2. ASSUME NEW s \in SUBSET bits
      PROVE  F[s] = IF s = {} THEN 0 ELSE (CHOOSE x \in s : TRUE) + F[s \ {CHOOSE x \in s : TRUE}]
  <2>1. CASE s = {}
    BY <1>1, <2>1 DEF BitSum
  <2>2. CASE s # {}
    <3>1. PICK x : x = CHOOSE y \in s : TRUE
      OBVIOUS
    <3>2. x \in s /\ x \in {1, 2, 4}
      BY <1>0, <2>2, <3>1
    <3>3. PICK rest \in SUBSET bits : rest = s \ {x}
      OBVIOUS
    <3>4. BitSum(s) = x + BitSum(rest)
      BY <3>2, <3>3 DEF BitSum
    <3>. QED  BY <1>1, <2>2, <3>1, <3>3, <3>4
  <2>. QED  BY <2>1, <2>2
<1>3. IsSum(F, bits)
  BY <1>1, <1>2 DEF IsSum
<1>4. PICK f : IsSum(f, bits) /\ LevelOf(bits) = f[bits]
  <2>1. IsSum(CHOOSE f : IsSum(f, bits), bits)
    BY <1>3
  <2>2. LevelOf(bits) = (CHOOSE f : IsSum(f, bits))[bits]
    BY DEF LevelOf, SumSet, FoldSet, MapThenFoldSet, IsSum
  <2>. QED  BY <2>1, <2>2
<1>5. f[{}] = 0
  BY <1>4 DEF IsSum
<1>6. \A s \in SUBSET bits : s # {} =>
        \E x \in s : x \in {1, 2, 4} /\ s \ {x} \in SUBSET bits /\ f[s] = x + f[s \ {x}]
  <2> TAKE s \in SUBSET bits
  <2> HAVE s # {}
  <2>1. PICK x : x = CHOOSE y \in s : TRUE
    OBVIOUS
  <2>2. x \in s
    BY <2>1
  <2>3. f[s] = x + f[s \ {x}]
    BY <1>4, <2>1 DEF IsSum
  <2>. QED  BY <1>0, <2>2, <2>3
<1>7. \A s \in SUBSET bits : (\E a : s = {a}) => f[s] = BitSum(s)
  <2> SUFFICES ASSUME NEW s \in SUBSET bits, NEW a, s = {a} PROVE f[s] = BitSum(s)
    OBVIOUS
  <2>1. PICK x \in s : x \in {1, 2, 4} /\ f[s] = x + f[s \ {x}]
    BY <1>6
  <2>2. s = {x} /\ s \ {x} = {}
    OBVIOUS
  <2>. QED  BY <1>5, <2>1, <2>2 DEF BitSum
<1>8. \A s \in SUBSET bits : (\E a, b : s = {a, b}) => f[s] = BitSum(s)
  <2> SUFFICES ASSUME NEW s \in SUBSET bits, NEW a, NEW b, s = {a, b}, a # b PROVE f[s] = BitSum(s)
    BY <1>7
  <2>1. PICK x \in s : x \in {1, 2, 4} /\ s \ {x} \in SUBSET bits /\ f[s] = x + f[s \ {x}]
    BY <1>6
  <2>2. PICK rest \in SUBSET bits : rest = s \ {x}
    BY <2>1
  <2>3. f[rest] = BitSum(rest)
    BY <1>7, <2>1, <2>2
  <2>4. BitSum(s) = x + BitSum(rest)
    BY <2>1, <2>2 DEF BitSum
  <2>. QED  BY <2>1, <2>2, <2>3, <2>4
<1>9. f[bits] = BitSum(bits)
  <2>1. CASE bits = {}
    BY <1>5, <2>1 DEF BitSum
  <2>2. CASE bits # {}
    <3>1. PICK x \in bits : x \in {1, 2, 4} /\ f[bits] = x + f[bits \ {x}]
      BY <1>6, <2>2
    <3>2. PICK rest \in SUBSET bits : rest = bits \ {x}
      OBVIOUS
    <3>3. PICK a \in {1, 2, 4}, b \in {1, 2, 4} : rest \subseteq {a, b}
      <4>1. CASE x = 1
        BY <1>0, <3>2, <4>1
      <4>2. CASE x = 2
        BY <1>0, <3>2, <4>2
      <4>3. CASE x = 4
        BY <1>0, <3>2, <4>3
      <4>. QED  BY <3>1, <4>1, <4>2, <4>3
    <3>4. f[rest] = BitSum(rest)
      <4>1. CASE rest = {}
        BY <1>5, <4>1 DEF BitSum
      <4>2. CASE rest # {}
        <5>1. rest = {a, b} \/ rest = {a, a} \/ rest = {b, b}
          BY <3>3, <4>2
        <5>. QED  BY <1>8, <5>1
      <4>. QED  BY <4>1, <4>2
    <3>5. BitSum(bits) = x + BitSum(rest)
      BY <3>1, <3>2 DEF BitSum
    <3>. QED  BY <3>1, <3>2, <3>4, <3>5
  <2>. QED  BY <2>1, <2>2
<1>10. BitSum(bits) >= 1 <=> bits # {}
  <2>1. bits # {} => 1 \in bits \/ 2 \in bits \/ 4 \in bits
    BY <1>0
  <2>. QED  BY <2>1 DEF BitSum
<1>. QED  BY <1>4, <1>9, <1>10 DEF Read

\* What views come to, by the number of views that may be below.
LEMMA FirstResolved ==
  ASSUME NEW views, NEW v, NEW a, NEW b
  PROVE  ResolvedBy(views, 0, v, a) = ResolvedBy(views, 0, v, b)
  BY DEF ResolvedBy

ResolvedAt(f, n, views, names) == f[n] = [v \in names |-> ResolvedBy(views, n, v, f[n - 1])]
HasResolved(m, views, names) == \E f : \A n \in 0 .. m : ResolvedAt(f, n, views, names)

LEMMA ResolveExists ==
  ASSUME NEW views, Len(views) \in Nat, NEW names
  PROVE  \E f : IsResolve(f, views, names)
<1>1. PICK T : T = {m \in Nat : HasResolved(m, views, names)}
  OBVIOUS
<1>2. 0 \in T
  <2>1. PICK end : end = [v \in names |-> ResolvedBy(views, 0, v, <<>>)]
    OBVIOUS
  <2>2. PICK f : f = [n \in {0 - 1, 0} |-> IF n = 0 THEN end ELSE <<>>]
    OBVIOUS
  <2>3. f[0] = end /\ f[0 - 1] = <<>>
    BY <2>2
  <2>4. ResolvedAt(f, 0, views, names)
    BY <2>1, <2>3 DEF ResolvedAt
  <2>5. \A n \in 0 .. 0 : n = 0
    OBVIOUS
  <2>. QED  BY <1>1, <2>4, <2>5 DEF HasResolved
<1>3. ASSUME NEW m \in Nat, m \in T PROVE m + 1 \in T
  <2>1. PICK f : \A n \in 0 .. m : ResolvedAt(f, n, views, names)
    BY <1>1, <1>3 DEF HasResolved
  <2>2. PICK k : k = m + 1
    OBVIOUS
  <2>3. PICK last : last = [v \in names |-> ResolvedBy(views, k, v, f[m])]
    OBVIOUS
  <2>4. PICK g : g = [n \in (0 - 1) .. k |-> IF n = k THEN last ELSE f[n]]
    OBVIOUS
  <2>5. g[k] = last /\ \A n \in (0 - 1) .. m : g[n] = f[n]
    BY <2>2, <2>4
  <2>6. ASSUME NEW n \in 0 .. k PROVE ResolvedAt(g, n, views, names)
    <3>1. CASE n = k
      <4>1. k - 1 = m /\ g[m] = f[m]
        BY <2>2, <2>5
      <4>. QED  BY <2>3, <2>5, <3>1, <4>1 DEF ResolvedAt
    <3>2. CASE n # k
      <4>1. n \in 0 .. m /\ n - 1 \in (0 - 1) .. m /\ n \in (0 - 1) .. m
        BY <2>2, <3>2
      <4>2. g[n] = f[n] /\ g[n - 1] = f[n - 1]
        BY <2>5, <4>1
      <4>. QED  BY <2>1, <4>1, <4>2 DEF ResolvedAt
    <3>. QED  BY <3>1, <3>2
  <2>7. HasResolved(k, views, names)
    BY <2>6 DEF HasResolved
  <2>. QED  BY <1>1, <2>2, <2>7
<1>4. Len(views) \in T
  <2>1. \A m \in Nat : m \in T => m + 1 \in T
    BY <1>3
  <2>2. Nat \subseteq T
    BY <2>1, <1>2, Induction
  <2>. QED  BY <2>2
<1>5. PICK f : \A n \in 0 .. Len(views) : ResolvedAt(f, n, views, names)
  BY <1>1, <1>4 DEF HasResolved
<1>6. PICK g : g = [n \in 0 .. Len(views) |-> f[n]]
  OBVIOUS
<1>7. ASSUME NEW n \in 0 .. Len(views)
      PROVE  g[n] = [v \in names |-> ResolvedBy(views, n, v, g[n - 1])]
  <2>1. g[n] = f[n] /\ ResolvedAt(f, n, views, names)
    BY <1>5, <1>6
  <2>2. ASSUME NEW v \in names PROVE ResolvedBy(views, n, v, f[n - 1]) = ResolvedBy(views, n, v, g[n - 1])
    <3>1. CASE n = 0
      BY <3>1, FirstResolved
    <3>2. CASE n # 0
      <4>1. n - 1 \in 0 .. Len(views)
        BY <3>2
      <4>. QED  BY <1>6, <4>1
    <3>. QED  BY <3>1, <3>2
  <2>. QED  BY <2>1, <2>2 DEF ResolvedAt
<1>8. IsResolve(g, views, names)
  BY <1>6, <1>7 DEF IsResolve
<1>. QED  BY <1>8

\* The view of all rows is always there.
LEMMA AllIsResolved ==
  ASSUME NEW table, Len(table.views) \in Nat
  PROVE  ResolveView(table, AllView) = AllRows
<1>1. PICK views : views = table.views
  OBVIOUS
<1>2. PICK names : names = NamesIn(views, AllView)
  OBVIOUS
<1>3. AllView \in names
  BY <1>2 DEF NamesIn
<1>4. PICK f : IsResolve(f, views, names) /\ ResolveIn(views, AllView) = f[Len(views)][AllView]
  <2>1. \E f : IsResolve(f, views, names)
    BY <1>1, ResolveExists
  <2>. QED  BY <1>2, <2>1, Zenon DEF ResolveIn
<1>5. Len(views) \in 0 .. Len(views)
  BY <1>1
<1>6. f[Len(views)][AllView] = ResolvedBy(views, Len(views), AllView, f[Len(views) - 1])
  BY <1>3, <1>4, <1>5 DEF IsResolve
<1>7. ResolvedBy(views, Len(views), AllView, f[Len(views) - 1]) = AllRows
  BY DEF ResolvedBy
<1>. QED  BY <1>1, <1>4, <1>6, <1>7, ResolvedIn

\* The grants that count for a subject have levels of a grant, whatever role
\* they come by.
LEMMA PermsAreRanged ==
  ASSUME AccessInv, NEW s
  PROVE  \A g \in Perms(s) : g.level \in None .. FieldAll
<1> SUFFICES ASSUME NEW g \in Perms(s) PROVE Ranged(g.level)
  BY DEF Ranged
<1>1. CASE g \in grants
  BY <1>1 DEF AccessInv, Grounded
<1>2. CASE g \notin grants
  <2>1. PICK h \in grants : g = [h EXCEPT !.sub = s]
    BY <1>2 DEF Perms, EffectiveGrants, GrantListForSubject
  <2>2. "level" \in DOMAIN h /\ Ranged(h.level)
    BY DEF AccessInv, Grounded, HasResource
  <2>. QED  BY <2>1, <2>2
<1>. QED  BY <1>1, <1>2

\* Workflows and forms.
LEMMA ScriptsAgreeWithUse ==
  ASSUME AccessInv, NEW s, NEW i \in ScriptIds, Exists(i)
  PROVE  /\ i \in FilterReadable(s, {i}) <=> MayReadScript(s, i)
         /\ MayReadScript(s, i) => VisibleDatabase(s, scripts[i].db)
         /\ PermissionLevel(s, i) >= Write <=> MayWriteScript(s, i)
<1>1. PICK d : d = scripts[i].db
  OBVIOUS
<1>2. PICK all : all = ResourceLevel(Perms(s), s, SetScope(Kind(i)), <<d>>)
  OBVIOUS
<1>3. PICK one : one = ResourceLevel(Perms(s), s, Kind(i), IdResource(i))
  OBVIOUS
<1>4. i \in FilterReadable(s, {i}) <=> IsDatabaseOwner(s, d) \/ all >= Read \/ one >= Read
  BY <1>1, <1>2, <1>3 DEF FilterReadable, CanReadResource
<1>5. /\ MayReadScript(s, i) <=> IsDatabaseOwner(s, d) \/ all >= Read \/ one >= Read
      /\ MayWriteScript(s, i) <=> IsDatabaseOwner(s, d) \/ all >= Write \/ one >= Write
  BY <1>1, <1>2, <1>3 DEF MayReadScript, MayWriteScript, CanAccessScript
<1>6. ASSUME MayReadScript(s, i) PROVE VisibleDatabase(s, d)
  <2>1. CASE IsDatabaseOwner(s, d)
    BY <2>1 DEF VisibleDatabase
  <2>2. CASE all >= Read \/ one >= Read
    <3>1. Kind(i) \in ItemScopes /\ i \in ScriptsOf(Kind(i), d)
      BY <1>1 DEF Kind, ItemScopes, ScriptsOf
    <3>2. HasVisibleResource(s, d)
      BY <1>2, <1>3, <2>2, <3>1 DEF HasVisibleResource, CanReadResource
    <3>. QED  BY <3>2 DEF VisibleDatabase
  <2>. QED  BY <1>5, <1>6, <2>1, <2>2
<1>7. all \in None .. FieldAll /\ one \in None .. FieldAll
  <2>1. PICK these : these = {g \in Of(Perms(s), s, <<d>>) : g.scope = SetScope(Kind(i))}
    OBVIOUS
  <2>2. PICK those : those = {g \in Of(Perms(s), s, IdResource(i)) : g.scope = Kind(i)}
    OBVIOUS
  <2>3. \A g \in these \cup those : g.level \in None .. FieldAll
    BY <2>1, <2>2, PermsAreRanged DEF Of
  <2>4. all = Highest(these) /\ one = Highest(those)
    BY <1>2, <1>3, <2>1, <2>2 DEF ResourceLevel
  <2>. QED  BY <2>3, <2>4, HighestLevel
<1>8. PermissionLevel(s, i) >= Write <=> IsDatabaseOwner(s, d) \/ all >= Write \/ one >= Write
  <2>1. CASE IsDatabaseOwner(s, d)
    BY <1>1, <2>1 DEF PermissionLevel, Write
  <2>2. CASE ~IsDatabaseOwner(s, d)
    <3>1. PICK S : S = {all, one}
      OBVIOUS
    <3>2. PermissionLevel(s, i) = Max(S)
      BY <1>1, <1>2, <1>3, <2>2, <3>1 DEF PermissionLevel
    <3>3. S \subseteq None .. FieldAll /\ S # {}
      BY <1>7, <3>1
    <3>4. Max(S) \in S /\ \A m \in S : m <= Max(S)
      BY <3>3, HighestOf
    <3>5. Max(S) >= Write <=> all >= Write \/ one >= Write
      BY <1>7, <3>1, <3>4 DEF Write, None, FieldAll
    <3>. QED  BY <2>2, <3>2, <3>5
  <2>. QED  BY <2>1, <2>2
<1>. QED  BY <1>1, <1>4, <1>5, <1>6, <1>8

\* Fields.
LEMMA FieldsAgreeWithUse ==
  ASSUME NEW s, NEW d, NEW table, NEW f \in ActiveFields(table)
  PROVE  LET res == TableResource(d, table.name)
         IN  f.name \in VisibleFields(s, d, table)
               <=> \/ MayReadField(Actor(s, d), res, f.name)
                   \/ {FieldUpdate, FieldCreate} \cap FieldBits(Perms(s), s, res, f.name) # {}
<1>1. PICK res : res = TableResource(d, table.name)
  OBVIOUS
<1>2. PICK bits : bits = FieldBits(Perms(s), s, res, f.name)
  OBVIOUS
<1>3. bits \subseteq {FieldRead, FieldUpdate, FieldCreate}
  BY <1>2 DEF FieldBits, Bits
<1>4. FieldLevel(s, res, f.name) >= Read <=> bits # {}
  BY <1>2, <1>3, SumIsPositive DEF FieldLevel
<1>5. MayReadField(Actor(s, d), res, f.name) <=> IsDatabaseOwner(s, d) \/ FieldRead \in bits
  BY <1>2 DEF MayReadField, Actor, CanReadField
<1>6. f.name \in VisibleFields(s, d, table) <=> IsDatabaseOwner(s, d) \/ FieldLevel(s, res, f.name) >= Read
  BY <1>1 DEF VisibleFields, ActiveFields
<1>. QED  BY <1>1, <1>2, <1>3, <1>4, <1>5, <1>6

\* Views.
LEMMA ViewsAgreeWithUse ==
  ASSUME NEW s, NEW d, NEW table, IsTable(table), Viewable(table), NEW v \in VisibleViews(s, d, table)
  PROVE  MayList(table, Actor(s, d), TableResource(d, table.name),
           [view |-> v, query |-> Missing, sorts |-> <<>>, limit |-> 0, offset |-> 0, search |-> Null])
<1>1. PICK options : options = [view |-> v, query |-> Missing, sorts |-> <<>>, limit |-> 0, offset |-> 0,
                                search |-> Null]
  OBVIOUS
<1>2. PICK res : res = TableResource(d, table.name)
  OBVIOUS
<1>3. PICK actor : actor = Actor(s, d)
  OBVIOUS
<1>4. /\ actor.sub = s /\ actor.grants = Perms(s)
      /\ actor.owner <=> IsDatabaseOwner(s, d)
  BY <1>3 DEF Actor
<1>5. /\ options.query = Missing /\ options.sorts = <<>> /\ options.limit = 0 /\ options.offset = 0
      /\ options.view = v
  BY <1>1
<1>6. ValidSorts(table, <<>>) /\ ViewFieldsReadable(actor, res, Given(Missing), <<>>)
  <2>1. ToSet(<<>>) = {}
    BY DEF ToSet
  <2>2. UNION {QueryLeaves(q) : q \in Given(Missing)} = {}
    BY DEF Given
  <2>. QED  BY <2>1, <2>2 DEF ValidSorts, ViewFieldsReadable
<1>7. v # NoName /\ ResolveView(table, v) # Refused
  <2>1. CASE v = AllView
    <3>1. Len(table.views) \in Nat
      BY DEF IsTable
    <3>2. ResolveView(table, AllView) = AllRows
      BY <3>1, AllIsResolved
    <3>. QED  BY <2>1, <3>2, RefusedAssumption DEF AllRows, AllView, NoName
  <2>2. CASE v # AllView
    BY <2>2 DEF VisibleViews, Viewable
  <2>. QED  BY <2>1, <2>2
<1>8. ViewName(options) = v
  BY <1>5, <1>7 DEF ViewName
<1>9. PICK view : view = ResolveView(table, v)
  OBVIOUS
<1>10. \/ actor.owner
       \/ /\ CanReadView(actor.grants, actor.sub, res, v)
          /\ ViewFieldsReadable(actor, res, view.queries, view.sorts)
  <2>1. CASE IsDatabaseOwner(s, d)
    BY <1>4, <2>1
  <2>2. CASE ~IsDatabaseOwner(s, d)
    <3>1. PICK reader : reader = [sub |-> s, grants |-> Perms(s)]
      OBVIOUS
    <3>2. /\ CanReadView(Perms(s), s, res, v)
          /\ ViewFieldsReadable(reader, res, view.queries, view.sorts)
      BY <1>2, <1>9, <2>2, <3>1 DEF VisibleViews
    <3>3. reader.sub = actor.sub /\ reader.grants = actor.grants
      BY <1>4, <3>1
    <3>. QED  BY <1>4, <3>2, <3>3 DEF ViewFieldsReadable
  <2>. QED  BY <2>1, <2>2
<1>11. MayList(table, actor, res, options)
  <2>1. view # Refused
    BY <1>7, <1>9
  <2>2. options.limit >= 0 /\ options.offset >= 0 /\ (options.limit = 0 => options.offset = 0)
    BY <1>5
  <2>. QED  BY <1>5, <1>6, <1>8, <1>9, <1>10, <2>1, <2>2 DEF MayList
<1>. QED  BY <1>1, <1>2, <1>3, <1>11

\* What an actor is shown is what it may use: the listings and permission levels
\* of src/internal/api/authorization.go and server.go agree with what the
\* handlers decide, through any changes of grants, roles, tables and views, and
\* failures and restarts between them.
THEOREM ShownIsWhatMayBeUsed == Spec => []ListingAgrees
<1>1. PlaceInv /\ ChangesInv /\ AccessInv => ListingAgrees
  <2> SUFFICES ASSUME ChangesInv, AccessInv, NEW s \in Subjects
               PROVE  /\ \A i \in ScriptIds : Exists(i) =>
                           /\ i \in FilterReadable(s, {i}) <=> MayReadScript(s, i)
                           /\ MayReadScript(s, i) /\ scripts[i].db \in DOMAIN catalog
                                => VisibleDatabase(s, scripts[i].db)
                           /\ PermissionLevel(s, i) >= Write <=> MayWriteScript(s, i)
                      /\ \A d \in DOMAIN catalog : \A t \in VisibleTables(s, d) :
                           /\ \A f \in ActiveFields(catalog[d][t]) :
                                f.name \in VisibleFields(s, d, catalog[d][t])
                                  <=> \/ MayReadField(Actor(s, d), TableResource(d, t), f.name)
                                      \/ {FieldUpdate, FieldCreate} \cap
                                           FieldBits(Perms(s), s, TableResource(d, t), f.name) # {}
                           /\ \A v \in VisibleViews(s, d, catalog[d][t]) :
                                MayList(catalog[d][t], Actor(s, d), TableResource(d, t),
                                  [view |-> v, query |-> Missing, sorts |-> <<>>, limit |-> 0,
                                   offset |-> 0, search |-> Null])
    BY DEF ListingAgrees
  <2>1. ASSUME NEW d \in DOMAIN catalog, NEW t \in VisibleTables(s, d)
        PROVE  IsTable(catalog[d][t]) /\ catalog[d][t].name = t /\ Viewable(catalog[d][t])
    <3>1. t \in DOMAIN catalog[d]
      BY DEF VisibleTables
    <3>. QED  BY <3>1 DEF ChangesInv, CatalogsInv, IsCatalog, Distinct
  <2>2. ASSUME NEW i \in ScriptIds, Exists(i)
        PROVE  /\ i \in FilterReadable(s, {i}) <=> MayReadScript(s, i)
               /\ MayReadScript(s, i) => VisibleDatabase(s, scripts[i].db)
               /\ PermissionLevel(s, i) >= Write <=> MayWriteScript(s, i)
    BY <2>2, ScriptsAgreeWithUse
  <2>3. ASSUME NEW d \in DOMAIN catalog, NEW t \in VisibleTables(s, d),
               NEW f \in ActiveFields(catalog[d][t])
        PROVE  f.name \in VisibleFields(s, d, catalog[d][t])
                 <=> \/ MayReadField(Actor(s, d), TableResource(d, t), f.name)
                     \/ {FieldUpdate, FieldCreate} \cap
                          FieldBits(Perms(s), s, TableResource(d, t), f.name) # {}
    <3>1. PICK table : table = catalog[d][t]
      OBVIOUS
    <3>2. table.name = t /\ f \in ActiveFields(table)
      BY <2>1, <3>1
    <3>. QED  BY <3>1, <3>2, FieldsAgreeWithUse
  <2>4. ASSUME NEW d \in DOMAIN catalog, NEW t \in VisibleTables(s, d),
               NEW v \in VisibleViews(s, d, catalog[d][t])
        PROVE  MayList(catalog[d][t], Actor(s, d), TableResource(d, t),
                 [view |-> v, query |-> Missing, sorts |-> <<>>, limit |-> 0, offset |-> 0,
                  search |-> Null])
    <3>1. PICK table : table = catalog[d][t]
      OBVIOUS
    <3>2. IsTable(table) /\ table.name = t /\ Viewable(table) /\ v \in VisibleViews(s, d, table)
      BY <2>1, <3>1
    <3>. QED  BY <3>1, <3>2, ViewsAgreeWithUse
  <2>. QED  BY <2>2, <2>3, <2>4
<1>2. Spec => [](PlaceInv /\ ChangesInv /\ AccessInv)
  BY InitPlaced, NextPlaced, InitChanges, NextChanges, InitAccess, NextAccess, PTL DEF Spec
<1>. QED  BY <1>1, <1>2, PTL

-----------------------------------------------------------------------------
(* The rows that a request is given are in the actor's row set.            *)

\* A view other than "all" that comes to something is one of the table.
LEMMA ResolvedIsThere ==
  ASSUME NEW table, Len(table.views) \in Nat, NEW v, v # AllView, ResolveView(table, v) # Refused
  PROVE  ViewOf(table, v) # {}
<1>1. PICK views : views = table.views
  OBVIOUS
<1>2. PICK names : names = NamesIn(views, v)
  OBVIOUS
<1>3. v \in names
  BY <1>2 DEF NamesIn
<1>4. PICK f : IsResolve(f, views, names) /\ ResolveIn(views, v) = f[Len(views)][v]
  <2>1. \E f : IsResolve(f, views, names)
    BY <1>1, ResolveExists
  <2>. QED  BY <1>2, <2>1, Zenon DEF ResolveIn
<1>5. Len(views) \in 0 .. Len(views)
  BY <1>1
<1>6. f[Len(views)][v] = ResolvedBy(views, Len(views), v, f[Len(views) - 1])
  BY <1>3, <1>4, <1>5 DEF IsResolve
<1>7. Named(views, v) = {} => ResolvedBy(views, Len(views), v, f[Len(views) - 1]) = Refused
  BY DEF ResolvedBy
<1>. QED  BY <1>1, <1>4, <1>6, <1>7, ResolvedIn DEF ViewOf

\* The parts of RowInActorRowSet: the views in order, those that count for the
\* actor, what each says of the row, and where the search for it ends.
NamesOf(table) == <<AllView>> \o [i \in DOMAIN table.views |-> table.views[i].name]
AppliesTo(table, actor, res, n) ==
  /\ CanReadView(actor.grants, actor.sub, res, n)
  /\ ResolveView(table, n) # Refused
  /\ ViewFieldsReadable(actor, res, ResolveView(table, n).queries, <<>>)
FoundBy(table, actor, rows, id, n) ==
  RecordExists(table, rows, id, ResolveView(table, n).queries, actor.identity)
StopsAt(table, actor, res, rows, id) ==
  {i \in DOMAIN NamesOf(table) :
     /\ AppliesTo(table, actor, res, NamesOf(table)[i])
     /\ NamesOf(table)[i] = AllView \/ FoundBy(table, actor, rows, id, NamesOf(table)[i]) # FALSE}

LEMMA RowSetOf ==
  ASSUME NEW table, NEW actor, NEW res, NEW rows, NEW id
  PROVE  LET stop == StopsAt(table, actor, res, rows, id)
         IN  RowInActorRowSet(table, actor, res, rows, id)
               = IF actor.owner THEN TRUE
                 ELSE IF stop = {} THEN FALSE
                 ELSE FoundBy(table, actor, rows, id, NamesOf(table)[Min(stop)])
BY Zenon DEF RowInActorRowSet, StopsAt, NamesOf, AppliesTo, FoundBy

LEMMA NamesOfViews ==
  ASSUME NEW table, IsTable(table), NEW v, v = AllView \/ ViewOf(table, v) # {}
  PROVE  /\ DOMAIN NamesOf(table) \subseteq Nat
         /\ \E i \in DOMAIN NamesOf(table) : NamesOf(table)[i] = v
<1>1. PICK views : views = table.views /\ views \in Seq(ToSet(views))
  BY DEF IsTable
<1>2. PICK own : own = [i \in DOMAIN views |-> views[i].name]
  OBVIOUS
<1>3. PICK N : N = {own[i] : i \in DOMAIN views} \cup {AllView}
  OBVIOUS
<1>4. own \in Seq(N) /\ Len(own) = Len(views) /\ <<AllView>> \in Seq(N)
  BY <1>1, <1>2, <1>3
<1>5. NamesOf(table) = <<AllView>> \o own
  BY <1>1, <1>2 DEF NamesOf
<1>6. /\ DOMAIN NamesOf(table) = 1 .. 1 + Len(views)
      /\ NamesOf(table)[1] = AllView
      /\ \A i \in 1 .. Len(views) : NamesOf(table)[1 + i] = own[i]
  BY <1>1, <1>4, <1>5
<1>7. ASSUME v # AllView PROVE \E i \in 1 .. Len(views) : own[i] = v
  BY <1>1, <1>2, <1>7 DEF ViewOf, Named, ToSet
<1>8. \A i \in 1 .. Len(views) : 1 + i \in DOMAIN NamesOf(table)
  BY <1>1, <1>6
<1>9. \E i \in DOMAIN NamesOf(table) : NamesOf(table)[i] = v
  <2>1. CASE v = AllView
    BY <1>1, <1>6, <2>1
  <2>2. CASE v # AllView
    BY <1>6, <1>7, <1>8, <2>2
  <2>. QED  BY <2>1, <2>2
<1>10. DOMAIN NamesOf(table) \subseteq Nat
  BY <1>1, <1>6
<1>. QED  BY <1>9, <1>10

\* A view that selects the row says that it is there, or does not compile.
LEMMA SelectedIsFound ==
  ASSUME NEW table, NEW rows, NEW row \in rows, NEW queries, NEW identity,
         Selects(table, queries, identity, row)
  PROVE  RecordExists(table, rows, row.id, queries, identity) # FALSE
<1>1. row \in Selected(table, queries, identity, rows)
  BY DEF Selected
<1>. QED  BY <1>1, RefusedAssumption DEF RecordExists

\* Wherever the search for a row ends that some view selects which counts for
\* the actor, it does not end with the row out of the row set.
LEMMA SearchEnds ==
  ASSUME NEW table, IsTable(table), NEW actor, NEW res, NEW rows, NEW row \in rows,
         NEW v, v = AllView \/ ViewOf(table, v) # {}, AppliesTo(table, actor, res, v),
         Selects(table, ResolveView(table, v).queries, actor.identity, row)
  PROVE  RowInActorRowSet(table, actor, res, rows, row.id) # FALSE
<1>1. PICK stop : stop = StopsAt(table, actor, res, rows, row.id)
  OBVIOUS
<1>2. FoundBy(table, actor, rows, row.id, v) # FALSE
  BY SelectedIsFound DEF FoundBy
<1>3. PICK i \in DOMAIN NamesOf(table) : NamesOf(table)[i] = v
  BY NamesOfViews
<1>4. i \in stop
  BY <1>1, <1>2, <1>3 DEF StopsAt
<1>5. Min(stop) \in stop
  <2>1. stop \subseteq Nat
    BY <1>1, NamesOfViews DEF StopsAt
  <2>. QED  BY <1>4, <2>1, LeastIsMin
<1>6. PICK n : n = NamesOf(table)[Min(stop)]
  OBVIOUS
<1>7. FoundBy(table, actor, rows, row.id, n) # FALSE
  <2>1. CASE n # AllView
    BY <1>1, <1>5, <1>6, <2>1 DEF StopsAt
  <2>2. CASE n = AllView
    <3>1. ResolveView(table, n).queries = {}
      BY <2>2, AllIsResolved DEF AllRows, IsTable
    <3>2. Selects(table, {}, actor.identity, row)
      BY DEF Selects
    <3>. QED  BY <3>1, <3>2, SelectedIsFound DEF FoundBy
  <2>. QED  BY <2>1, <2>2
<1>. QED  BY <1>1, <1>4, <1>6, <1>7, RowSetOf

\* What narrows a view leaves its queries in place.
LEMMA ResolvedNarrowsView ==
  ASSUME NEW table, NEW actor, NEW res, NEW options, NEW row,
         MayList(table, actor, res, options),
         Selects(table, ResolveRowListOptions(table, actor, res, options).queries,
                 actor.identity, row)
  PROVE  Selects(table, ResolveView(table, ViewName(options)).queries, actor.identity, row)
<1>1. PICK view : view = ResolveView(table, ViewName(options))
  OBVIOUS
<1>2. view.queries \subseteq ResolveRowListOptions(table, actor, res, options).queries
  BY <1>1 DEF ResolveRowListOptions, CombineRuntimeQueries
<1>. QED  BY <1>1, <1>2 DEF Selects

\* A page of a table shows rows that the view and the request select.
LEMMA PageIsSelected ==
  ASSUME NEW table, NEW actor, NEW res, NEW rows, NEW options,
         RowsPageWithOptions(table, actor, res, rows, options) # Refused,
         NEW seen \in RowsPageWithOptions(table, actor, res, rows, options).rows
  PROVE  /\ MayList(table, actor, res, options)
         /\ \E row \in rows :
              /\ row.id = seen.id
              /\ Selects(table, ResolveRowListOptions(table, actor, res, options).queries,
                         actor.identity, row)
<1>1. PICK resolved : resolved = ResolveRowListOptions(table, actor, res, options)
  OBVIOUS
<1>2. resolved # Refused /\ MayList(table, actor, res, options)
  BY <1>1 DEF RowsPageWithOptions, ResolveRowListOptions
<1>3. PICK row \in RowsOf(table, actor.identity, rows, resolved) :
        seen = FilterReadableValues(actor, res, MapToRow(table, row))
  BY <1>1, <1>2 DEF RowsPageWithOptions
<1>4. row \in rows /\ Selects(table, resolved.queries, actor.identity, row)
  BY <1>3 DEF RowsOf, Page, Selected
<1>5. seen.id = row.id
  BY <1>3 DEF FilterReadableValues, MapToRow
<1>. QED  BY <1>1, <1>2, <1>4, <1>5

LEMMA PageInRowSet ==
  ASSUME NEW table, IsTable(table), NEW actor, NEW res, NEW rows, NEW options,
         RowsPageWithOptions(table, actor, res, rows, options) # Refused,
         NEW seen \in RowsPageWithOptions(table, actor, res, rows, options).rows
  PROVE  RowInActorRowSet(table, actor, res, rows, seen.id) # FALSE
<1>1. PICK row \in rows :
        /\ row.id = seen.id
        /\ Selects(table, ResolveRowListOptions(table, actor, res, options).queries,
                   actor.identity, row)
  BY PageIsSelected
<1>2. PICK v : v = ViewName(options)
  OBVIOUS
<1>3. MayList(table, actor, res, options)
  BY PageIsSelected
<1>4. Selects(table, ResolveView(table, v).queries, actor.identity, row)
  BY <1>1, <1>2, <1>3, ResolvedNarrowsView
<1>5. v = AllView \/ ViewOf(table, v) # {}
  BY <1>2, <1>3, ResolvedIsThere DEF MayList, IsTable
<1>6. CASE actor.owner
  BY <1>6, RowSetOf
<1>7. CASE ~actor.owner
  <2>1. ToSet(<<>>) = {}
    BY DEF ToSet
  <2>2. AppliesTo(table, actor, res, v)
    BY <1>2, <1>3, <1>7, <2>1 DEF MayList, AppliesTo, ViewFieldsReadable
  <2>. QED  BY <1>1, <1>4, <1>5, <2>2, SearchEnds
<1>. QED  BY <1>6, <1>7

\* A row that a request is given, whatever its view, query, search and page, is
\* one that RowInActorRowSet of src/internal/table/table.go lets its actor edit:
\* the listing and the search through all views agree, whatever views, grants
\* and rows there come to be.
THEOREM ListedRowsMayBeEdited == Spec => []ListedRowsInRowSet
<1>1. ChangesInv => ListedRowsInRowSet
  <2> SUFFICES ASSUME ChangesInv, NEW r \in Readers, NEW d \in DOMAIN catalog,
                      NEW t \in DOMAIN catalog[d], Listing(r, d, t) # Refused,
                      NEW seen \in Listing(r, d, t).rows
               PROVE  RowInActorRowSet(catalog[d][t], Actor(r.actor, d), TableResource(d, t),
                        Physical(<<d, t>>).rows, seen.id) # FALSE
    BY DEF ListedRowsInRowSet
  <2>1. IsTable(catalog[d][t])
    BY DEF ChangesInv, CatalogsInv, IsCatalog
  <2>. QED  BY <2>1, PageInRowSet DEF Listing
<1>2. Spec => []ChangesInv
  BY InitPlaced, NextPlaced, InitChanges, NextChanges, PTL DEF Spec
<1>. QED  BY <1>1, <1>2, PTL
=============================================================================
