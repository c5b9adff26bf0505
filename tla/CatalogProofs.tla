--------------------------- MODULE CatalogProofs ---------------------------
(***************************************************************************)
(* Theorems about the catalog and the physical tables in ApiServer.        *)
(*                                                                         *)
(* What a change saves is the catalog of then with one table or database   *)
(* changed, since from its reading to its saving the change holds the      *)
(* lock; a request that is under way keeps what it goes on with, and no    *)
(* other does so at the same time.                                         *)
(*                                                                         *)
(* Columns are only ever added.  A change adds those of the table that it  *)
(* saves, an edit those of a table that it has read, which is one that     *)
(* the file had; a table whose change did not come to its end is known.    *)
(*                                                                         *)
(* The operators on catalogs are folds over sequences.  They are reasoned  *)
(* about by the function that the fold is, on the sets of the first        *)
(* elements, and by the least number for which a claim would fail.         *)
(***************************************************************************)
EXTENDS ApiServerProofs, SequenceTheorems

-----------------------------------------------------------------------------
(* Folds.                                                                  *)

\* Every set of numbers has a least one.
LEMMA Least ==
  ASSUME NEW T, T \subseteq Nat, T # {}
  PROVE  \E n \in T : \A m \in T : n <= m
<1>1. PICK R : R = OpToRel(<, Nat)
  OBVIOUS
<1>2. IsWellFoundedOn(R, Nat)
  BY <1>1, NatLessThanWellFounded
<1>3. \A x, y \in Nat : x < y => <<x, y>> \in R
  BY <1>1 DEF OpToRel
<1>4. PICK x \in T : \A y \in T : ~ (<<y, x>> \in R)
  BY <1>2, WFMin
<1>5. \A y \in T : x <= y
  <2> TAKE y \in T
  <2>1. ~(y < x)
    BY <1>3, <1>4
  <2>2. x \in Nat /\ y \in Nat
    OBVIOUS
  <2>. QED  BY <2>1, <2>2
<1>. QED  BY <1>5

\* Induction: the sets of numbers it is about are given by their members.
LEMMA Induction ==
  ASSUME NEW T, 0 \in T, \A n \in Nat : n \in T => n + 1 \in T
  PROVE  Nat \subseteq T
<1> SUFFICES ASSUME Nat \ T # {} PROVE FALSE
  OBVIOUS
<1>1. PICK n \in Nat \ T : \A m \in Nat \ T : n <= m
  BY Least
<1>2. n - 1 \in Nat \ T
  OBVIOUS
<1>. QED  BY <1>1, <1>2

LEMMA LeastIsMin ==
  ASSUME NEW T, T \subseteq Nat, T # {}
  PROVE  Min(T) \in T /\ \A m \in T : Min(T) <= m
  BY Least DEF Min

LEMMA GreatestIsMax ==
  ASSUME NEW n \in Nat, NEW T, T \subseteq 1 .. n, T # {}
  PROVE  Max(T) \in T /\ \A m \in T : m <= Max(T)
<1>1. PICK L : L = {n - m : m \in T}
  OBVIOUS
<1>2. PICK l \in L : \A m \in L : l <= m
  <2>1. \A m \in T : m \in 1 .. n /\ n - m \in Nat
    OBVIOUS
  <2>2. PICK m \in T : TRUE
    OBVIOUS
  <2>3. L \subseteq Nat /\ n - m \in L
    BY <1>1, <2>1
  <2>. QED  BY <2>3, Least
<1>3. PICK x \in T : l = n - x
  BY <1>1
<1>4. \A m \in T : m <= x
  <2> TAKE m \in T
  <2>1. n - x <= n - m
    BY <1>1, <1>2, <1>3
  <2>. QED  BY <2>1
<1>. QED  BY <1>4 DEF Max

LEMMA MaxOfInterval ==
  ASSUME NEW n \in Nat, NEW T, T \subseteq 1 .. (n + 1), n + 1 \in T
  PROVE  Max(T) = n + 1
<1>1. n + 1 \in Nat /\ T # {}
  OBVIOUS
<1>2. Max(T) \in T /\ \A m \in T : m <= Max(T)
  BY <1>1, GreatestIsMax
<1>3. Max(T) \in 1 .. (n + 1) /\ n + 1 <= Max(T)
  BY <1>2
<1>. QED  BY <1>3

LEMMA LastIn ==
  ASSUME NEW X, NEW p \in Seq(X), NEW s \in SUBSET DOMAIN p, s # {}
  PROVE  p[Max(s)] \in X
<1>1. s \subseteq 1 .. Len(p) /\ Len(p) \in Nat
  OBVIOUS
<1>2. Max(s) \in s
  BY <1>1, GreatestIsMax
<1>. QED  BY <1>1, <1>2

\* The first numbers, and one more.
LEMMA FirstNumbers ==
  ASSUME NEW n \in Nat
  PROVE  /\ 1 .. 0 = {}
         /\ n + 1 \in 1 .. (n + 1)
         /\ 1 .. n = (1 .. (n + 1)) \ {n + 1}
OBVIOUS

\* A fold over a sequence, with a step that is a function on the values that
\* it may come to: the library's folds are functions on sets of indices.
IsFold(F, n, initial, step, p) ==
  \A s \in SUBSET (1 .. n) :
    F[s] = IF s = {} THEN initial ELSE step[F[s \ {Max(s)}]][p[Max(s)]]
HasFold(A, n, initial, step, p) ==
  \E F \in [SUBSET (1 .. n) -> A] : IsFold(F, n, initial, step, p)

LEMMA FoldExists ==
  ASSUME NEW A, NEW X, NEW p \in Seq(X), NEW initial \in A, NEW step \in [A -> [X -> A]]
  PROVE  \E F \in [SUBSET DOMAIN p -> A] : IsFold(F, Len(p), initial, step, p)
<1>0. \A m \in A, x \in X : step[m][x] \in A
  OBVIOUS
<1>1. PICK T : T = {n \in Nat : n <= Len(p) => HasFold(A, n, initial, step, p)}
  OBVIOUS
<1>2. 0 \in T
  <2>1. PICK I : I = 1 .. 0
    OBVIOUS
  <2>2. I = {}
    BY <2>1, FirstNumbers
  <2>3. PICK F : F = [s \in SUBSET I |-> initial]
    OBVIOUS
  <2>4. F \in [SUBSET I -> A] /\ \A s \in SUBSET I : s = {} /\ F[s] = initial
    BY <2>2, <2>3
  <2>5. IsFold(F, 0, initial, step, p)
    BY <2>1, <2>4 DEF IsFold
  <2>6. HasFold(A, 0, initial, step, p)
    BY <2>1, <2>4, <2>5 DEF HasFold
  <2>. QED  BY <1>1, <2>6
<1>3. ASSUME NEW n \in Nat, n \in T PROVE n + 1 \in T
  <2> SUFFICES ASSUME n + 1 <= Len(p)
               PROVE  HasFold(A, n + 1, initial, step, p)
    BY <1>1
  <2>1. HasFold(A, n, initial, step, p)
    BY <1>1, <1>3
  <2>2. PICK k, I, J : k = n + 1 /\ I = 1 .. n /\ J = 1 .. (n + 1)
    OBVIOUS
  <2>3. k \in J /\ I = J \ {k}
    BY <2>2, FirstNumbers
  <2>4. p[k] \in X
    BY <2>2
  <2>5. PICK F \in [SUBSET I -> A] : IsFold(F, n, initial, step, p)
    BY <2>1, <2>2 DEF HasFold
  <2>6. \A s \in SUBSET I :
          F[s] = IF s = {} THEN initial ELSE step[F[s \ {Max(s)}]][p[Max(s)]]
    BY <2>2, <2>5 DEF IsFold
  <2>7. PICK G : G = [s \in SUBSET J |-> IF k \in s THEN step[F[s \ {k}]][p[k]] ELSE F[s]]
    OBVIOUS
  <2>8. \A s \in SUBSET J : s \ {k} \in SUBSET I /\ (k \notin s => s \in SUBSET I)
    BY <2>3
  <2>9. \A s \in SUBSET J : k \in s => G[s] = step[F[s \ {k}]][p[k]] /\ G[s] \in A
    BY <1>0, <2>4, <2>7, <2>8
  <2>10. \A s \in SUBSET I : s \in SUBSET J /\ G[s] = F[s]
    BY <2>3, <2>7
  <2>11. G \in [SUBSET J -> A]
    <3>1. \A s \in SUBSET J : G[s] \in A
      BY <2>8, <2>9, <2>10
    <3>. QED  BY <3>1, <2>7
  <2>12. ASSUME NEW s \in SUBSET J
         PROVE  G[s] = IF s = {} THEN initial ELSE step[G[s \ {Max(s)}]][p[Max(s)]]
    <3>1. CASE k \in s
      <4>1. Max(s) = k
        BY <3>1, <2>2, MaxOfInterval
      <4>2. G[s \ {k}] = F[s \ {k}]
        BY <2>8, <2>10
      <4>. QED  BY <3>1, <4>1, <4>2, <2>9
    <3>2. CASE k \notin s
      <4>1. s \in SUBSET I /\ s \ {Max(s)} \in SUBSET I
        BY <3>2, <2>8
      <4>2. G[s] = F[s] /\ G[s \ {Max(s)}] = F[s \ {Max(s)}]
        BY <4>1, <2>10
      <4>. QED  BY <4>1, <4>2, <2>6
    <3>. QED  BY <3>1, <3>2
  <2>13. IsFold(G, n + 1, initial, step, p)
    BY <2>2, <2>12 DEF IsFold
  <2>. QED  BY <2>2, <2>11, <2>13 DEF HasFold
<1>4. Len(p) \in T
  <2>1. \A n \in Nat : n \in T => n + 1 \in T
    BY <1>3
  <2>2. Nat \subseteq T
    BY <2>1, <1>2, Induction
  <2>3. Len(p) \in Nat
    OBVIOUS
  <2>. QED  BY <2>2, <2>3
<1>5. HasFold(A, Len(p), initial, step, p) /\ DOMAIN p = 1 .. Len(p)
  BY <1>1, <1>4
<1>. QED  BY <1>5 DEF HasFold

\* Whatever f does as the fold does for values of A, comes to one of them.
FoldsIn(A, f, p) ==
  \A s \in SUBSET DOMAIN p : s # {} /\ f[s \ {Max(s)}] \in A => f[s] \in A

LEMMA FoldIn ==
  ASSUME NEW A, NEW X, NEW p \in Seq(X), NEW initial \in A, NEW f, f[{}] = initial,
         FoldsIn(A, f, p)
  PROVE  f[DOMAIN p] \in A
<1>1. PICK T : T = {n \in Nat : n <= Len(p) => f[1 .. n] \in A}
  OBVIOUS
<1>2. 0 \in T
  <2>1. 1 .. 0 = {}
    BY FirstNumbers
  <2>. QED  BY <1>1, <2>1
<1>3. ASSUME NEW n \in Nat, n \in T PROVE n + 1 \in T
  <2> SUFFICES ASSUME n + 1 <= Len(p) PROVE f[1 .. (n + 1)] \in A
    BY <1>1
  <2>1. PICK k, I, J : k = n + 1 /\ I = 1 .. n /\ J = 1 .. (n + 1)
    OBVIOUS
  <2>2. Max(J) = k
    BY <2>1, MaxOfInterval
  <2>3. k \in J /\ I = J \ {k}
    BY <2>1, FirstNumbers
  <2>4. J \in SUBSET DOMAIN p
    BY <2>1
  <2>5. f[I] \in A
    BY <1>1, <1>3, <2>1
  <2>6. f[J] \in A
    BY <2>2, <2>3, <2>4, <2>5 DEF FoldsIn
  <2>. QED  BY <2>1, <2>6
<1>4. Len(p) \in T
  <2>1. \A n \in Nat : n \in T => n + 1 \in T
    BY <1>3
  <2>2. Nat \subseteq T
    BY <2>1, <1>2, Induction
  <2>3. Len(p) \in Nat
    OBVIOUS
  <2>. QED  BY <2>2, <2>3
<1>5. f[1 .. Len(p)] \in A /\ DOMAIN p = 1 .. Len(p)
  BY <1>1, <1>4
<1>. QED  BY <1>5

-----------------------------------------------------------------------------
(* What the changes of Metadata make of sequences of fields and views.     *)

\* The first of a name.
LEMMA PlaceOfName ==
  ASSUME NEW X, NEW s \in Seq(X), NEW n
  PROVE  /\ PlaceOf(s, n) \in 0 .. Len(s)
         /\ PlaceOf(s, n) > 0 => s[PlaceOf(s, n)].name = n
         /\ Named(s, n) # {} => PlaceOf(s, n) > 0
<1>1. PICK I : I = {i \in 1 .. Len(s) : s[i].name = n}
  OBVIOUS
<1>2. PlaceOf(s, n) = IF I # {} THEN Min(I) ELSE 0
  BY <1>1 DEF PlaceOf, SelectInSeq
<1>3. I # {} => Min(I) \in I
  <2>1. I \subseteq Nat
    BY <1>1
  <2>. QED  BY <2>1, LeastIsMin
<1>4. Named(s, n) # {} => I # {}
  BY <1>1 DEF Named, ToSet
<1>. QED  BY <1>1, <1>2, <1>3, <1>4

MergeStep(merged, x) ==
  IF Named(merged, x.name) = {} THEN Append(merged, x)
  ELSE ReplaceAt(merged, PlaceOf(merged, x.name), x)

IsMerge(f, existing, patch) ==
  f = [s \in SUBSET DOMAIN patch |->
         IF s = {} THEN existing ELSE MergeStep(f[s \ {Max(s)}], patch[Max(s)])]

\* A merge stays in what its steps stay in.
LEMMA MergeIn ==
  ASSUME NEW A, NEW X, NEW e \in A, NEW p \in Seq(X),
         \A m \in A : \A x \in X : MergeStep(m, x) \in A
  PROVE  MergeByName(e, p) \in A
<1>1. PICK step : step = [m \in A |-> [x \in X |-> MergeStep(m, x)]]
  OBVIOUS
<1>2. step \in [A -> [X -> A]] /\ \A m \in A : \A x \in X : step[m][x] = MergeStep(m, x)
  BY <1>1
<1>3. PICK F \in [SUBSET DOMAIN p -> A] : IsFold(F, Len(p), e, step, p)
  BY <1>2, FoldExists
<1>4. \A s \in SUBSET DOMAIN p : s # {} => p[Max(s)] \in X
  BY LastIn
<1>5. IsMerge(F, e, p)
  <2>1. ASSUME NEW s \in SUBSET DOMAIN p
        PROVE  F[s] = IF s = {} THEN e ELSE MergeStep(F[s \ {Max(s)}], p[Max(s)])
    <3>1. F[s] = IF s = {} THEN e ELSE step[F[s \ {Max(s)}]][p[Max(s)]]
      <4>1. DOMAIN p = 1 .. Len(p)
        OBVIOUS
      <4>. QED  BY <4>1, <1>3 DEF IsFold
    <3>2. s \ {Max(s)} \in SUBSET DOMAIN p
      OBVIOUS
    <3>. QED  BY <3>1, <3>2, <1>2, <1>3, <1>4
  <2>. QED  BY <2>1, <1>3 DEF IsMerge
<1>6. PICK f : IsMerge(f, e, p) /\ MergeByName(e, p) = f[DOMAIN p]
  <2>1. IsMerge(CHOOSE f : IsMerge(f, e, p), e, p)
    BY <1>5
  <2>2. MergeByName(e, p) = (CHOOSE f : IsMerge(f, e, p))[DOMAIN p]
    BY DEF MergeByName, IsMerge, MergeStep, PlaceOf, FoldLeft, MapThenFoldSet
  <2>. QED  BY <2>1, <2>2
<1>7. f[{}] = e
  BY <1>6 DEF IsMerge
<1>8. FoldsIn(A, f, p)
  <2> SUFFICES ASSUME NEW s \in SUBSET DOMAIN p, s # {}, f[s \ {Max(s)}] \in A
               PROVE  f[s] \in A
    BY DEF FoldsIn
  <2>1. s # {} => f[s] = MergeStep(f[s \ {Max(s)}], p[Max(s)])
    BY <1>6 DEF IsMerge
  <2>. QED  BY <2>1, <1>4
<1>. QED  BY <1>6, <1>7, <1>8, FoldIn

LEMMA ReplaceKeeps ==
  ASSUME NEW X, NEW m \in Seq(X), NEW i \in 1 .. Len(m), NEW x \in X
  PROVE  /\ ReplaceAt(m, i, x) \in Seq(X) /\ Len(ReplaceAt(m, i, x)) = Len(m)
         /\ \A j \in 1 .. Len(m) : ReplaceAt(m, i, x)[j] = IF j = i THEN x ELSE m[j]
  BY DEF ReplaceAt

\* A merge keeps every name.
LEMMA MergeKeepsNames ==
  ASSUME NEW X, NEW e \in Seq(X), NEW p \in Seq(X)
  PROVE  /\ MergeByName(e, p) \in Seq(X)
         /\ \A x \in ToSet(e) : Named(MergeByName(e, p), x.name) # {}
<1>1. PICK A : A = {m \in Seq(X) : \A x \in ToSet(e) : Named(m, x.name) # {}}
  OBVIOUS
<1>2. e \in A
  BY <1>1 DEF Named
<1>3. ASSUME NEW m \in A, NEW x \in X PROVE MergeStep(m, x) \in A
  <2>0. m \in Seq(X) /\ \A y \in ToSet(e) : Named(m, y.name) # {}
    BY <1>1
  <2>1. CASE Named(m, x.name) = {}
    <3>1. Append(m, x) \in Seq(X) /\ ToSet(m) \subseteq ToSet(Append(m, x))
      BY <2>0 DEF ToSet
    <3>. QED  BY <1>1, <2>0, <2>1, <3>1 DEF MergeStep, Named
  <2>2. CASE Named(m, x.name) # {}
    <3>1. PICK i \in 1 .. Len(m) : i = PlaceOf(m, x.name) /\ m[i].name = x.name
      BY <2>0, <2>2, PlaceOfName
    <3>2. PICK n \in Seq(X) : n = ReplaceAt(m, i, x)
      BY <2>0, <3>1, ReplaceKeeps
    <3>3. Len(n) = Len(m) /\ \A j \in 1 .. Len(m) : n[j] = IF j = i THEN x ELSE m[j]
      BY <2>0, <3>2 DEF ReplaceAt
    <3>4. ASSUME NEW name, Named(m, name) # {} PROVE Named(n, name) # {}
      <4>1. PICK j \in 1 .. Len(m) : m[j].name = name
        BY <2>0, <3>4 DEF Named, ToSet
      <4>2. n[j].name = name /\ j \in DOMAIN n
        BY <2>0, <3>1, <3>2, <3>3, <4>1
      <4>. QED  BY <4>2 DEF Named, ToSet
    <3>. QED  BY <1>1, <2>0, <2>2, <3>1, <3>2, <3>4 DEF MergeStep
  <2>. QED  BY <2>1, <2>2
<1>4. MergeByName(e, p) \in A
  BY <1>2, <1>3, MergeIn
<1>. QED  BY <1>1, <1>4

\* A merge with what is there changes nothing.
LEMMA MergeWithItself ==
  ASSUME NEW X, NEW v \in Seq(X), NoDuplicates(v)
  PROVE  MergeByName(v, v) = v
<1>1. ASSUME NEW x \in ToSet(v) PROVE MergeStep(v, x) = v
  <2>1. x \in Named(v, x.name) /\ x \in X
    BY DEF Named, ToSet
  <2>2. PICK i \in 1 .. Len(v) : i = PlaceOf(v, x.name) /\ v[i].name = x.name
    BY <2>1, PlaceOfName
  <2>3. v[i] = x
    BY <2>2 DEF NoDuplicates, ToSet
  <2>4. ReplaceAt(v, i, x) = v
    BY <2>3 DEF ReplaceAt
  <2>. QED  BY <2>1, <2>2, <2>4 DEF MergeStep
<1>2. v \in Seq(ToSet(v))
  BY DEF ToSet
<1>3. MergeByName(v, v) \in {v}
  BY <1>1, <1>2, MergeIn
<1>. QED  BY <1>3

\* The patch without the "all" view.
KeepStep(kept, v) == IF v.name = AllView THEN kept ELSE Append(kept, v)
WithoutAll(views) ==
  FoldLeft(LAMBDA kept, v : IF v.name = AllView THEN kept ELSE Append(kept, v), <<>>, views)
IsKept(f, views) ==
  f = [s \in SUBSET DOMAIN views |->
         IF s = {} THEN <<>> ELSE KeepStep(f[s \ {Max(s)}], views[Max(s)])]

LEMMA KeptViews ==
  ASSUME NEW X, NEW p \in Seq(X)
  PROVE  WithoutAll(p) \in Seq(X)
<1>0. PICK A : A = Seq(X)
  OBVIOUS
<1>1. PICK step : step = [m \in A |-> [x \in X |-> KeepStep(m, x)]]
  OBVIOUS
<1>a. \A m \in A : \A x \in X : KeepStep(m, x) \in A
  BY <1>0 DEF KeepStep
<1>2. step \in [A -> [X -> A]] /\ \A m \in A : \A x \in X : step[m][x] = KeepStep(m, x)
  BY <1>a, <1>1
<1>3. PICK F \in [SUBSET DOMAIN p -> A] : IsFold(F, Len(p), <<>>, step, p)
  <2>1. <<>> \in A
    BY <1>0
  <2>. QED  BY <2>1, <1>2, FoldExists
<1>4. \A s \in SUBSET DOMAIN p : s # {} => p[Max(s)] \in X
  BY LastIn
<1>5. IsKept(F, p)
  <2>1. ASSUME NEW s \in SUBSET DOMAIN p
        PROVE  F[s] = IF s = {} THEN <<>> ELSE KeepStep(F[s \ {Max(s)}], p[Max(s)])
    <3>1. F[s] = IF s = {} THEN <<>> ELSE step[F[s \ {Max(s)}]][p[Max(s)]]
      <4>1. DOMAIN p = 1 .. Len(p)
        OBVIOUS
      <4>. QED  BY <4>1, <1>3 DEF IsFold
    <3>2. s \ {Max(s)} \in SUBSET DOMAIN p
      OBVIOUS
    <3>. QED  BY <3>1, <3>2, <1>2, <1>3, <1>4
  <2>. QED  BY <2>1, <1>3 DEF IsKept
<1>6. PICK f : IsKept(f, p) /\ WithoutAll(p) = f[DOMAIN p]
  <2>1. IsKept(CHOOSE f : IsKept(f, p), p)
    BY <1>5
  <2>2. WithoutAll(p) = (CHOOSE f : IsKept(f, p))[DOMAIN p]
    BY DEF WithoutAll, IsKept, KeepStep, FoldLeft, MapThenFoldSet
  <2>. QED  BY <2>1, <2>2
<1>7. f[{}] = <<>> /\ <<>> \in A
  BY <1>0, <1>6 DEF IsKept
<1>8. FoldsIn(A, f, p)
  <2> SUFFICES ASSUME NEW s \in SUBSET DOMAIN p, s # {}, f[s \ {Max(s)}] \in A
               PROVE  f[s] \in A
    BY DEF FoldsIn
  <2>1. s # {} => f[s] = KeepStep(f[s \ {Max(s)}], p[Max(s)])
    BY <1>6 DEF IsKept
  <2>. QED  BY <2>1, <1>a, <1>4
<1>9. f[DOMAIN p] \in A
  BY <1>7, <1>8, FoldIn
<1>. QED  BY <1>0, <1>6, <1>9

\* The fields of addTableFields.
WithStep(acc, f, moves) ==
  LET at == SameColumn(acc.fields, f.name)
  IN  CASE acc.stop -> acc
        [] ~acc.stop /\ at = 0 ->
             [acc EXCEPT !.fields = Append(@, f), !.own = @ \/ moves]
        [] ~acc.stop /\ at > 0 /\ acc.fields[at].type # f.type ->
             [acc EXCEPT !.stop = TRUE]
        [] OTHER ->
             [acc EXCEPT !.fields[at].deleted = FALSE,
                         !.memory = IF acc.own \/ at > Len(@) THEN @
                                    ELSE [@ EXCEPT ![at].deleted = FALSE]]
WithBase(table) == [fields |-> table.fields, memory |-> table.fields, own |-> FALSE, stop |-> FALSE]
IsWith(f, table, fields, moves) ==
  f = [s \in SUBSET DOMAIN fields |->
         IF s = {} THEN WithBase(table) ELSE WithStep(f[s \ {Max(s)}], fields[Max(s)], moves)]

LEMMA WithFieldsIn ==
  ASSUME NEW A, NEW X, NEW table, NEW p \in Seq(X), NEW moves, WithBase(table) \in A,
         \A m \in A : \A x \in X : WithStep(m, x, moves) \in A
  PROVE  WithFields(table, p, moves) \in A
<1>0. PICK e : e = WithBase(table)
  OBVIOUS
<1>1. PICK step : step = [m \in A |-> [x \in X |-> WithStep(m, x, moves)]]
  OBVIOUS
<1>2. step \in [A -> [X -> A]] /\ \A m \in A : \A x \in X : step[m][x] = WithStep(m, x, moves)
  BY <1>1
<1>3. PICK F \in [SUBSET DOMAIN p -> A] : IsFold(F, Len(p), e, step, p)
  BY <1>0, <1>2, FoldExists
<1>4. \A s \in SUBSET DOMAIN p : s # {} => p[Max(s)] \in X
  BY LastIn
<1>5. IsWith(F, table, p, moves)
  <2>1. ASSUME NEW s \in SUBSET DOMAIN p
        PROVE  F[s] = IF s = {} THEN WithBase(table) ELSE WithStep(F[s \ {Max(s)}], p[Max(s)], moves)
    <3>1. F[s] = IF s = {} THEN e ELSE step[F[s \ {Max(s)}]][p[Max(s)]]
      <4>1. DOMAIN p = 1 .. Len(p)
        OBVIOUS
      <4>. QED  BY <4>1, <1>3 DEF IsFold
    <3>2. s \ {Max(s)} \in SUBSET DOMAIN p
      OBVIOUS
    <3>. QED  BY <3>1, <3>2, <1>0, <1>2, <1>3, <1>4
  <2>. QED  BY <2>1, <1>3 DEF IsWith
<1>6. PICK f : IsWith(f, table, p, moves) /\ WithFields(table, p, moves) = f[DOMAIN p]
  <2>1. IsWith(CHOOSE f : IsWith(f, table, p, moves), table, p, moves)
    BY <1>5
  <2>2. WithFields(table, p, moves) = (CHOOSE f : IsWith(f, table, p, moves))[DOMAIN p]
    BY DEF WithFields, IsWith, WithStep, WithBase, FoldLeft, MapThenFoldSet
  <2>. QED  BY <2>1, <2>2
<1>7. f[{}] = e
  BY <1>0, <1>6 DEF IsWith
<1>8. FoldsIn(A, f, p)
  <2> SUFFICES ASSUME NEW s \in SUBSET DOMAIN p, s # {}, f[s \ {Max(s)}] \in A
               PROVE  f[s] \in A
    BY DEF FoldsIn
  <2>1. s # {} => f[s] = WithStep(f[s \ {Max(s)}], p[Max(s)], moves)
    BY <1>6 DEF IsWith
  <2>. QED  BY <2>1, <1>4
<1>9. f[DOMAIN p] \in A
  BY <1>0, <1>7, <1>8, FoldIn
<1>. QED  BY <1>6, <1>9

Undeleted(f) == [f EXCEPT !.deleted = FALSE]
UndeletedAt(s, i) == [s EXCEPT ![i] = Undeleted(@)]

\* Fields of a table as they are or not deleted any more, and others after them.
Grown(prior, fields) ==
  Len(fields) >= Len(prior) /\ \A i \in 1 .. Len(prior) : fields[i] \in {prior[i], Undeleted(prior[i])}

LEMMA UndeletedIn ==
  ASSUME NEW X, NEW b \in Seq(X), NEW s \in Seq(X), Grown(b, s), NEW i \in 1 .. Len(s),
         Undeleted(s[i]) \in X
  PROVE  /\ UndeletedAt(s, i) \in Seq(X) /\ Len(UndeletedAt(s, i)) = Len(s)
         /\ Grown(b, UndeletedAt(s, i))
<1>0. PICK t : t = UndeletedAt(s, i)
  OBVIOUS
<1>1. s[i] \in X /\ Undeleted(s[i]) \in X
  OBVIOUS
<1>2. t \in Seq(X) /\ Len(t) = Len(s) /\ \A j \in 1 .. Len(s) : t[j] = IF j = i THEN Undeleted(s[i]) ELSE s[j]
  BY <1>0, <1>1 DEF UndeletedAt
<1>3. \A f : Undeleted(Undeleted(f)) = Undeleted(f)
  BY DEF Undeleted
<1>4. Grown(b, t)
  BY <1>2, <1>3 DEF Grown
<1>. QED  BY <1>0, <1>2, <1>4

LEMMA AppendedIn ==
  ASSUME NEW X, NEW b \in Seq(X), NEW s \in Seq(X), Grown(b, s), NEW x \in X
  PROVE  Append(s, x) \in Seq(X) /\ Grown(b, Append(s, x))
<1>1. PICK t : t = Append(s, x)
  OBVIOUS
<1>2. t \in Seq(X) /\ Len(t) = Len(s) + 1 /\ \A i \in 1 .. Len(s) : t[i] = s[i]
  BY <1>1
<1>3. Grown(b, t)
  <2>1. Len(b) \in Nat /\ Len(s) \in Nat /\ Len(s) >= Len(b)
    BY DEF Grown
  <2>2. Len(t) >= Len(b) /\ \A i \in 1 .. Len(b) : i \in 1 .. Len(s)
    BY <2>1, <1>2
  <2>. QED  BY <2>2, <1>2 DEF Grown
<1>. QED  BY <1>1, <1>2, <1>3

LEMMA SameColumnIn ==
  ASSUME NEW X, NEW s \in Seq(X), NEW n
  PROVE  SameColumn(s, n) \in 0 .. Len(s)
<1>1. PICK I : I = {i \in 1 .. Len(s) : Column(s[i].name) = Column(n)}
  OBVIOUS
<1>2. SameColumn(s, n) = IF I # {} THEN Min(I) ELSE 0
  BY <1>1 DEF SameColumn, SelectInSeq
<1>3. I # {} => Min(I) \in I
  <2>1. I \subseteq Nat
    BY <1>1
  <2>. QED  BY <2>1, LeastIsMin
<1>. QED  BY <1>1, <1>2, <1>3

\* Fields that are added: those of the table stay, in what is to be saved and
\* in memory.
LEMMA WithFieldsGrow ==
  ASSUME NEW X, NEW table, table.fields \in Seq(X), NEW p \in Seq(X), NEW moves \in BOOLEAN,
         \A x \in X : Undeleted(x) \in X
  PROVE  LET given == WithFields(table, p, moves)
         IN  /\ given.fields \in Seq(X) /\ Grown(table.fields, given.fields)
             /\ given.memory \in Seq(X) /\ Grown(table.fields, given.memory)
             /\ Len(given.memory) = Len(table.fields)
<1>0. PICK b : b = table.fields
  OBVIOUS
<1>1. PICK A : A = {acc \in [fields : Seq(X), memory : Seq(X), own : BOOLEAN, stop : BOOLEAN] :
                      Grown(b, acc.fields) /\ Grown(b, acc.memory) /\ Len(acc.memory) = Len(b)}
  OBVIOUS
<1>2. WithBase(table) \in A
  BY <1>0, <1>1 DEF WithBase, Grown
<1>3. ASSUME NEW acc \in A, NEW x \in X PROVE WithStep(acc, x, moves) \in A
  <2>1. /\ acc \in [fields : Seq(X), memory : Seq(X), own : BOOLEAN, stop : BOOLEAN]
        /\ Grown(b, acc.fields) /\ Grown(b, acc.memory) /\ Len(acc.memory) = Len(b)
    BY <1>1
  <2>2. PICK at : at = SameColumn(acc.fields, x.name) /\ at \in 0 .. Len(acc.fields)
    BY <2>1, SameColumnIn
  <2>3. CASE acc.stop
    BY <2>3, <2>2 DEF WithStep
  <2>4. CASE ~acc.stop /\ at = 0
    <3>1. PICK n : n = [acc EXCEPT !.fields = Append(@, x), !.own = @ \/ moves]
      OBVIOUS
    <3>2. Append(acc.fields, x) \in Seq(X) /\ Grown(b, Append(acc.fields, x))
      <4>1. b \in Seq(X) /\ acc.fields \in Seq(X)
        BY <1>0, <2>1
      <4>. QED  BY <2>1, <4>1, AppendedIn
    <3>3. n = [fields |-> Append(acc.fields, x), memory |-> acc.memory, own |-> acc.own \/ moves, stop |-> acc.stop]
      BY <2>1, <3>1
    <3>4. n \in A
      BY <2>1, <3>2, <3>3, <1>1
    <3>5. WithStep(acc, x, moves) = n
      BY <2>2, <2>4, <3>1 DEF WithStep
    <3>. QED  BY <3>4, <3>5
  <2>5. CASE ~acc.stop /\ at > 0 /\ acc.fields[at].type # x.type
    <3>1. PICK n : n = [acc EXCEPT !.stop = TRUE]
      OBVIOUS
    <3>2. n = [fields |-> acc.fields, memory |-> acc.memory, own |-> acc.own, stop |-> TRUE]
      BY <2>1, <3>1
    <3>3. n \in A
      BY <2>1, <3>2, <1>1
    <3>4. WithStep(acc, x, moves) = n
      BY <2>2, <2>5, <3>1 DEF WithStep
    <3>. QED  BY <3>3, <3>4
  <2>6. CASE ~acc.stop /\ at > 0 /\ acc.fields[at].type = x.type
    <3>0. PICK fs : fs = UndeletedAt(acc.fields, at)
      OBVIOUS
    <3>1. fs \in Seq(X) /\ Grown(b, fs)
      <4>1. at \in 1 .. Len(acc.fields) /\ b \in Seq(X) /\ acc.fields \in Seq(X)
        BY <1>0, <2>1, <2>2, <2>6
      <4>2. Undeleted(acc.fields[at]) \in X
        BY <4>1
      <4>. QED  BY <2>1, <3>0, <4>1, <4>2, UndeletedIn
    <3>2. PICK ms : ms = IF acc.own \/ at > Len(acc.memory) THEN acc.memory
                         ELSE UndeletedAt(acc.memory, at)
      OBVIOUS
    <3>3. ms \in Seq(X) /\ Grown(b, ms) /\ Len(ms) = Len(b)
      <4>1. CASE acc.own \/ at > Len(acc.memory)
        BY <4>1, <2>1, <3>2
      <4>2. CASE ~(acc.own \/ at > Len(acc.memory))
        <5>1. at \in 1 .. Len(acc.memory)
          BY <4>2, <2>1, <2>2, <2>6
        <5>2. PICK m : m = acc.memory
          OBVIOUS
        <5>3. ms = UndeletedAt(m, at)
          BY <3>2, <4>2, <5>2
        <5>4. b \in Seq(X) /\ m \in Seq(X) /\ Grown(b, m) /\ Len(m) = Len(b) /\ at \in 1 .. Len(m)
          BY <1>0, <2>1, <5>1, <5>2
        <5>6. Undeleted(m[at]) \in X
          BY <5>4
        <5>5. ms \in Seq(X) /\ Grown(b, ms) /\ Len(ms) = Len(m)
          BY <5>3, <5>4, <5>6, UndeletedIn
        <5>. QED  BY <5>4, <5>5
      <4>. QED  BY <4>1, <4>2
    <3>4. PICK n : n = [acc EXCEPT !.fields = fs, !.memory = ms]
      OBVIOUS
    <3>5. n = [fields |-> fs, memory |-> ms, own |-> acc.own, stop |-> acc.stop]
      BY <2>1, <3>4
    <3>6. n \in A
      BY <2>1, <3>1, <3>3, <3>5, <1>1
    <3>7. WithStep(acc, x, moves) = n
      BY <2>1, <2>2, <2>6, <3>0, <3>2, <3>4 DEF WithStep, Undeleted, UndeletedAt
    <3>. QED  BY <3>6, <3>7
  <2>. QED  BY <2>2, <2>3, <2>4, <2>5, <2>6
<1>4. WithFields(table, p, moves) \in A
  BY <1>2, <1>3, WithFieldsIn
<1>. QED  BY <1>0, <1>1, <1>4

\* A field that is moved is the only one to move.
LEMMA Slice ==
  ASSUME NEW X, NEW s \in Seq(X), NEW m \in 1 .. (Len(s) + 1), NEW n \in 0 .. Len(s), m <= n + 1
  PROVE  /\ SubSeq(s, m, n) \in Seq(X)
         /\ Len(SubSeq(s, m, n)) = n - m + 1
         /\ \A j \in 1 .. (n - m + 1) : SubSeq(s, m, n)[j] = s[m + j - 1]
<1>1. \A j \in m .. n : s[j] \in X
  OBVIOUS
<1>2. m \in Int /\ n \in Int /\ (IF m <= n THEN n - m + 1 ELSE 0) = n - m + 1
  OBVIOUS
<1>. QED  BY <1>1, <1>2, SubSeqProperties

LEMMA RemovedAt ==
  ASSUME NEW X, NEW s \in Seq(X), NEW i \in 1 .. Len(s)
  PROVE  /\ RemoveAt(s, i) \in Seq(X)
         /\ Len(RemoveAt(s, i)) = Len(s) - 1
         /\ \A j \in 1 .. (Len(s) - 1) : RemoveAt(s, i)[j] = IF j < i THEN s[j] ELSE s[j + 1]
<1>1. PICK a : a = SubSeq(s, 1, i - 1)
  OBVIOUS
<1>2. PICK c : c = SubSeq(s, i + 1, Len(s))
  OBVIOUS
<1>3. a \in Seq(X) /\ Len(a) = i - 1 /\ \A j \in 1 .. (i - 1) : a[j] = s[j]
  <2>1. 1 \in 1 .. (Len(s) + 1) /\ i - 1 \in 0 .. Len(s) /\ 1 <= i - 1 + 1
    OBVIOUS
  <2>2. /\ SubSeq(s, 1, i - 1) \in Seq(X) /\ Len(SubSeq(s, 1, i - 1)) = i - 1 - 1 + 1
        /\ \A j \in 1 .. (i - 1 - 1 + 1) : SubSeq(s, 1, i - 1)[j] = s[1 + j - 1]
    BY <2>1, Slice
  <2>. QED  BY <1>1, <2>2
<1>4. c \in Seq(X) /\ Len(c) = Len(s) - i /\ \A j \in 1 .. (Len(s) - i) : c[j] = s[j + i]
  <2>1. i + 1 \in 1 .. (Len(s) + 1) /\ Len(s) \in 0 .. Len(s) /\ i + 1 <= Len(s) + 1
    OBVIOUS
  <2>2. /\ SubSeq(s, i + 1, Len(s)) \in Seq(X)
        /\ Len(SubSeq(s, i + 1, Len(s))) = Len(s) - (i + 1) + 1
        /\ \A j \in 1 .. (Len(s) - (i + 1) + 1) : SubSeq(s, i + 1, Len(s))[j] = s[i + 1 + j - 1]
    BY <2>1, Slice
  <2>. QED  BY <1>2, <2>2
<1>5. RemoveAt(s, i) = a \o c
  BY <1>1, <1>2 DEF RemoveAt
<1>6. PICK b : b = a \o c
  OBVIOUS
<1>7. /\ b \in Seq(X) /\ Len(b) = Len(a) + Len(c)
      /\ \A j \in 1 .. (Len(a) + Len(c)) : b[j] = IF j <= Len(a) THEN a[j] ELSE c[j - Len(a)]
  BY <1>3, <1>4, <1>6, ConcatProperties
<1>8. Len(b) = Len(s) - 1 /\ \A j \in 1 .. (Len(s) - 1) : b[j] = IF j <= i - 1 THEN a[j] ELSE c[j - (i - 1)]
  BY <1>3, <1>4, <1>7
<1>9. ASSUME NEW j \in 1 .. (Len(s) - 1) PROVE b[j] = IF j < i THEN s[j] ELSE s[j + 1]
  <2>1. CASE j < i
    <3>1. j <= i - 1 /\ j \in 1 .. (i - 1)
      BY <2>1
    <3>. QED  BY <1>3, <1>8, <2>1, <3>1
  <2>2. CASE ~(j < i)
    <3>1. j - (i - 1) \in 1 .. (Len(s) - i) /\ j - (i - 1) + i = j + 1
      BY <2>2
    <3>. QED  BY <1>4, <1>8, <2>2, <3>1
  <2>. QED  BY <2>1, <2>2
<1>. QED  BY <1>5, <1>6, <1>7, <1>8, <1>9

LEMMA InsertedAt ==
  ASSUME NEW X, NEW s \in Seq(X), NEW i \in 1 .. (Len(s) + 1), NEW e \in X
  PROVE  /\ InsertAt(s, i, e) \in Seq(X)
         /\ Len(InsertAt(s, i, e)) = Len(s) + 1
         /\ \A j \in 1 .. (Len(s) + 1) :
              InsertAt(s, i, e)[j] = IF j < i THEN s[j] ELSE IF j = i THEN e ELSE s[j - 1]
<1>1. PICK a : a = SubSeq(s, 1, i - 1)
  OBVIOUS
<1>2. PICK c : c = SubSeq(s, i, Len(s))
  OBVIOUS
<1>3. a \in Seq(X) /\ Len(a) = i - 1 /\ \A j \in 1 .. (i - 1) : a[j] = s[j]
  <2>1. 1 \in 1 .. (Len(s) + 1) /\ i - 1 \in 0 .. Len(s) /\ 1 <= i - 1 + 1
    OBVIOUS
  <2>2. /\ SubSeq(s, 1, i - 1) \in Seq(X) /\ Len(SubSeq(s, 1, i - 1)) = i - 1 - 1 + 1
        /\ \A j \in 1 .. (i - 1 - 1 + 1) : SubSeq(s, 1, i - 1)[j] = s[1 + j - 1]
    BY <2>1, Slice
  <2>. QED  BY <1>1, <2>2
<1>4. c \in Seq(X) /\ Len(c) = Len(s) - i + 1 /\ \A j \in 1 .. (Len(s) - i + 1) : c[j] = s[j + i - 1]
  <2>1. i \in 1 .. (Len(s) + 1) /\ Len(s) \in 0 .. Len(s) /\ i <= Len(s) + 1
    OBVIOUS
  <2>2. /\ SubSeq(s, i, Len(s)) \in Seq(X) /\ Len(SubSeq(s, i, Len(s))) = Len(s) - i + 1
        /\ \A j \in 1 .. (Len(s) - i + 1) : SubSeq(s, i, Len(s))[j] = s[i + j - 1]
    BY <2>1, Slice
  <2>. QED  BY <1>2, <2>2
<1>5. PICK o : o = <<e>>
  OBVIOUS
<1>6. o \in Seq(X) /\ Len(o) = 1 /\ o[1] = e
  BY <1>5
<1>7. PICK b : b = a \o o
  OBVIOUS
<1>8. /\ b \in Seq(X) /\ Len(b) = Len(a) + Len(o)
      /\ \A j \in 1 .. (Len(a) + Len(o)) : b[j] = IF j <= Len(a) THEN a[j] ELSE o[j - Len(a)]
  BY <1>3, <1>6, <1>7, ConcatProperties
<1>9. Len(b) = i /\ b[i] = e /\ \A j \in 1 .. (i - 1) : b[j] = s[j]
  <2>1. Len(b) = i
    BY <1>3, <1>6, <1>8
  <2>2. i \in 1 .. (Len(a) + Len(o)) /\ ~(i <= Len(a)) /\ i - Len(a) = 1
    BY <1>3, <1>6
  <2>3. \A j \in 1 .. (i - 1) : j \in 1 .. (Len(a) + Len(o)) /\ j <= Len(a)
    BY <1>3, <1>6
  <2>. QED  BY <1>3, <1>6, <1>8, <2>1, <2>2, <2>3
<1>10. InsertAt(s, i, e) = b \o c
  BY <1>1, <1>2, <1>5, <1>7 DEF InsertAt
<1>11. PICK d : d = b \o c
  OBVIOUS
<1>12. /\ d \in Seq(X) /\ Len(d) = Len(b) + Len(c)
       /\ \A j \in 1 .. (Len(b) + Len(c)) : d[j] = IF j <= Len(b) THEN b[j] ELSE c[j - Len(b)]
  <2>1. b \in Seq(X) /\ c \in Seq(X)
    BY <1>4, <1>8
  <2>2. /\ b \o c \in Seq(X) /\ Len(b \o c) = Len(b) + Len(c)
        /\ \A j \in 1 .. (Len(b) + Len(c)) : (b \o c)[j] = IF j <= Len(b) THEN b[j] ELSE c[j - Len(b)]
    BY <2>1, ConcatProperties
  <2>. QED  BY <1>11, <2>2
<1>13. Len(d) = Len(s) + 1 /\ \A j \in 1 .. (Len(s) + 1) : d[j] = IF j <= i THEN b[j] ELSE c[j - i]
  BY <1>4, <1>9, <1>12
<1>14. ASSUME NEW j \in 1 .. (Len(s) + 1)
       PROVE  d[j] = IF j < i THEN s[j] ELSE IF j = i THEN e ELSE s[j - 1]
  <2>1. CASE j <= i
    BY <1>9, <1>13, <2>1
  <2>2. CASE ~(j <= i)
    <3>1. j - i \in 1 .. (Len(s) - i + 1) /\ j - i + i - 1 = j - 1
      BY <2>2
    <3>. QED  BY <1>4, <1>13, <2>2, <3>1
  <2>. QED  BY <2>1, <2>2
<1>. QED  BY <1>10, <1>11, <1>12, <1>13, <1>14

LEMMA MoveKeeps ==
  ASSUME NEW X, NEW s \in Seq(X), NEW from \in 1 .. Len(s), NEW to \in 1 .. Len(s)
  PROVE  /\ InsertAt(RemoveAt(s, from), to, s[from]) \in Seq(X)
         /\ ToSet(InsertAt(RemoveAt(s, from), to, s[from])) = ToSet(s)
<1>1. PICK r \in Seq(X) : r = RemoveAt(s, from)
  BY RemovedAt
<1>2. Len(r) = Len(s) - 1 /\ \A j \in 1 .. (Len(s) - 1) : r[j] = IF j < from THEN s[j] ELSE s[j + 1]
  BY <1>1, RemovedAt
<1>3. PICK e \in X : e = s[from]
  OBVIOUS
<1>4. to \in 1 .. (Len(r) + 1)
  BY <1>2
<1>5. PICK m \in Seq(X) : m = InsertAt(r, to, e)
  BY <1>4, InsertedAt
<1>6. /\ Len(m) = Len(s)
      /\ \A j \in 1 .. Len(s) : m[j] = IF j < to THEN r[j] ELSE IF j = to THEN e ELSE r[j - 1]
  <2>1. /\ Len(InsertAt(r, to, e)) = Len(r) + 1
        /\ \A j \in 1 .. (Len(r) + 1) :
             InsertAt(r, to, e)[j] = IF j < to THEN r[j] ELSE IF j = to THEN e ELSE r[j - 1]
    BY <1>4, InsertedAt
  <2>2. Len(r) + 1 = Len(s)
    BY <1>2
  <2>. QED  BY <1>5, <2>1, <2>2
<1>7. ASSUME NEW j \in 1 .. Len(s) PROVE \E i \in 1 .. Len(s) : m[j] = s[i]
  <2>1. CASE j = to
    BY <1>3, <1>6, <2>1
  <2>2. CASE j < to
    <3>1. j \in 1 .. (Len(s) - 1) /\ m[j] = r[j]
      BY <1>6, <2>2
    <3>. QED  BY <1>2, <3>1
  <2>3. CASE j > to
    <3>1. j - 1 \in 1 .. (Len(s) - 1) /\ m[j] = r[j - 1]
      BY <1>6, <2>3
    <3>2. r[j - 1] = s[j - 1] \/ r[j - 1] = s[j]
      BY <1>2, <3>1
    <3>. QED  BY <3>1, <3>2
  <2>. QED  BY <2>1, <2>2, <2>3
<1>8. ASSUME NEW i \in 1 .. Len(s) PROVE \E j \in 1 .. Len(s) : m[j] = s[i]
  <2>1. CASE i = from
    BY <1>3, <1>6, <2>1
  <2>2. CASE i # from
    <3>1. PICK k \in 1 .. (Len(s) - 1) : r[k] = s[i]
      <4>1. CASE i < from
        <5>1. i \in 1 .. (Len(s) - 1)
          BY <4>1
        <5>. QED  BY <1>2, <4>1, <5>1
      <4>2. CASE i > from
        <5>1. i - 1 \in 1 .. (Len(s) - 1) /\ ~(i - 1 < from) /\ i - 1 + 1 = i
          BY <4>2
        <5>. QED  BY <1>2, <5>1
      <4>. QED  BY <2>2, <4>1, <4>2
    <3>2. CASE k < to
      <4>1. k \in 1 .. Len(s)
        OBVIOUS
      <4>. QED  BY <1>6, <3>1, <3>2, <4>1
    <3>3. CASE ~(k < to)
      <4>1. k + 1 \in 1 .. Len(s) /\ ~(k + 1 < to) /\ k + 1 # to /\ k + 1 - 1 = k
        BY <3>3
      <4>. QED  BY <1>6, <3>1, <4>1
    <3>. QED  BY <3>2, <3>3
  <2>. QED  BY <2>1, <2>2
<1>9. ToSet(m) = ToSet(s)
  <2>1. DOMAIN m = 1 .. Len(s) /\ DOMAIN s = 1 .. Len(s)
    BY <1>6
  <2>2. ToSet(m) = {m[j] : j \in 1 .. Len(s)} /\ ToSet(s) = {s[j] : j \in 1 .. Len(s)}
    BY <2>1 DEF ToSet
  <2>3. ASSUME NEW x \in ToSet(m) PROVE x \in ToSet(s)
    BY <1>7, <2>2, <2>3
  <2>4. ASSUME NEW x \in ToSet(s) PROVE x \in ToSet(m)
    <3>1. PICK i \in 1 .. Len(s) : x = s[i]
      BY <2>2, <2>4
    <3>2. PICK j \in 1 .. Len(s) : m[j] = s[i]
      BY <1>8
    <3>. QED  BY <2>2, <3>1, <3>2
  <2>. QED  BY <2>3, <2>4
<1>. QED  BY <1>1, <1>3, <1>5, <1>9

-----------------------------------------------------------------------------
(* Changes of the catalog.                                                 *)

\* The fields stay, with the types of their values.
KeepsTable(old, new) ==
  \A f \in ToSet(old.fields) : \E g \in Named(new.fields, f.name) : StorageType(g) = StorageType(f)
Keeps(old, new) ==
  \A d \in DOMAIN old : d \in DOMAIN new /\ \A t \in DOMAIN old[d] :
    t \in DOMAIN new[d] /\ KeepsTable(old[d][t], new[d][t])

\* What a view comes to is a matter of the views of its table.
AllRows == [queries |-> {}, sorts |-> <<>>]
Narrowed(under, view) ==
  IF under = Refused THEN Refused
  ELSE [queries |-> CombineViewQueries(under.queries, Given(view.query)),
        sorts |-> under.sorts \o view.sorts]
BaseIn(view, below) == IF view.base = NoName THEN AllRows ELSE below[view.base]
ResolvedBy(views, n, v, below) ==
  CASE v = AllView -> AllRows
    [] v # AllView /\ (Named(views, v) = {} \/ n = 0) -> Refused
    [] OTHER -> LET view == CHOOSE w \in Named(views, v) : TRUE
                IN  Narrowed(BaseIn(view, below), view)
IsResolve(f, views, names) ==
  f = [n \in 0 .. Len(views) |-> [v \in names |-> ResolvedBy(views, n, v, f[n - 1])]]

NamesIn(views, name) == {AllView, name} \cup {w.base : w \in ToSet(views)}
ResolveIn(views, name) ==
  (CHOOSE f : IsResolve(f, views, NamesIn(views, name)))[Len(views)][name]

LEMMA ResolvedIn == \A table, name : ResolveView(table, name) = ResolveIn(table.views, name)
  BY Zenon DEF ResolveView, ResolveIn, IsResolve, NamesIn, ResolvedBy, Narrowed, BaseIn, AllRows, ViewOf

\* Every view has a name and comes to something.
Viewable(table) ==
  \A v \in ToSet(table.views) : v.name # NoName /\ ResolveView(table, v.name) # Refused

LEMMA SameViews ==
  ASSUME NEW old, NEW new, new.views = old.views, Viewable(old)
  PROVE  Viewable(new)
  BY ResolvedIn DEF Viewable

Distinct(c) ==
  \A d \in DOMAIN c : \A t \in DOMAIN c[d] :
    NoDuplicates(c[d][t].fields) /\ NoDuplicates(c[d][t].views) /\ Viewable(c[d][t])

LEMMA KeepsItself == \A c, table : KeepsTable(table, table) /\ Keeps(c, c)
  BY DEF Keeps, KeepsTable, Named

LEMMA KeepsTableOn ==
  ASSUME NEW a, NEW b, NEW c, KeepsTable(a, b), KeepsTable(b, c)
  PROVE  KeepsTable(a, c)
<1> SUFFICES ASSUME NEW f \in ToSet(a.fields)
             PROVE  \E h \in Named(c.fields, f.name) : StorageType(h) = StorageType(f)
  BY DEF KeepsTable
<1>1. PICK g \in Named(b.fields, f.name) : StorageType(g) = StorageType(f)
  BY DEF KeepsTable
<1>2. g \in ToSet(b.fields) /\ g.name = f.name
  BY DEF Named
<1>. QED  BY <1>1, <1>2 DEF KeepsTable

LEMMA KeepsOn ==
  ASSUME NEW a, NEW b, NEW c, Keeps(a, b), Keeps(b, c)
  PROVE  Keeps(a, c)
<1> SUFFICES ASSUME NEW d \in DOMAIN a
             PROVE  d \in DOMAIN c /\ \A t \in DOMAIN a[d] : t \in DOMAIN c[d] /\ KeepsTable(a[d][t], c[d][t])
  BY DEF Keeps
<1>1. d \in DOMAIN b /\ d \in DOMAIN c
  BY DEF Keeps
<1>2. ASSUME NEW t \in DOMAIN a[d] PROVE t \in DOMAIN c[d] /\ KeepsTable(a[d][t], c[d][t])
  <2>1. t \in DOMAIN b[d] /\ KeepsTable(a[d][t], b[d][t])
    BY DEF Keeps
  <2>2. t \in DOMAIN c[d] /\ KeepsTable(b[d][t], c[d][t])
    BY <1>1, <2>1 DEF Keeps
  <2>. QED  BY <2>1, <2>2, KeepsTableOn
<1>. QED  BY <1>1, <1>2

LEMMA ValidDistinct == \A c : Validate(c) => Distinct(c)
  BY DEF Validate, Distinct, ValidTable, ValidViews, Viewable

LEMMA OwnElements ==
  ASSUME NEW X, NEW s \in Seq(X)
  PROVE  s \in Seq(ToSet(s)) /\ ToSet(s) \subseteq X
  BY DEF ToSet

LEMMA MoreElements ==
  ASSUME NEW X, NEW s \in Seq(X), NEW Y, X \subseteq Y
  PROVE  s \in Seq(Y)
  OBVIOUS

\* A table is there instead of another one or of none, and all else is the same.
Replaces(old, new, d, table) ==
  /\ d \in DOMAIN old /\ DOMAIN new = DOMAIN old
  /\ table.name \in DOMAIN new[d] /\ new[d][table.name] = table
  /\ \A e \in DOMAIN new : \A t \in DOMAIN new[e] :
       <<e, t>> # <<d, table.name>> => t \in DOMAIN old[e] /\ new[e][t] = old[e][t]
  /\ \A e \in DOMAIN old : DOMAIN old[e] \subseteq DOMAIN new[e]

LEMMA WithTableReplaces ==
  ASSUME NEW c, NEW d \in DOMAIN c, NEW table
  PROVE  Replaces(c, WithTable(c, d, table), d, table)
<1>1. PICK n : n = WithTable(c, d, table)
  OBVIOUS
<1>2. PICK p : p = Put(c[d], table.name, table)
  OBVIOUS
<1>3. n = [c EXCEPT ![d] = p]
  BY <1>1, <1>2 DEF WithTable
<1>4. DOMAIN n = DOMAIN c /\ n[d] = p /\ \A e \in DOMAIN c : e # d => n[e] = c[e]
  BY <1>3
<1>5. /\ DOMAIN p = DOMAIN c[d] \cup {table.name} /\ p[table.name] = table
      /\ \A t \in DOMAIN c[d] : t # table.name => p[t] = c[d][t]
  BY <1>2 DEF Put
<1>6. ASSUME NEW e \in DOMAIN n, NEW t \in DOMAIN n[e], <<e, t>> # <<d, table.name>>
      PROVE  t \in DOMAIN c[e] /\ n[e][t] = c[e][t]
  <2>1. CASE e = d
    BY <1>4, <1>5, <1>6, <2>1
  <2>2. CASE e # d
    BY <1>4, <1>6, <2>2
  <2>. QED  BY <2>1, <2>2
<1>7. \A e \in DOMAIN c : DOMAIN c[e] \subseteq DOMAIN n[e]
  BY <1>4, <1>5
<1>. QED  BY <1>1, <1>4, <1>5, <1>6, <1>7 DEF Replaces

LEMMA ReplacesKeeps ==
  ASSUME NEW c, NEW n, NEW d, NEW table, IsCatalog(c), IsTable(table), Replaces(c, n, d, table),
         Known(c, d, table.name) => KeepsTable(c[d][table.name], table)
  PROVE  IsCatalog(n) /\ Keeps(c, n)
<1>1. ASSUME NEW e \in DOMAIN n, NEW t \in DOMAIN n[e]
      PROVE  IsTable(n[e][t]) /\ n[e][t].name = t
  <2>1. CASE <<e, t>> = <<d, table.name>>
    BY <2>1 DEF Replaces
  <2>2. CASE <<e, t>> # <<d, table.name>>
    <3>1. e \in DOMAIN c /\ t \in DOMAIN c[e] /\ n[e][t] = c[e][t]
      BY <2>2 DEF Replaces
    <3>. QED  BY <3>1 DEF IsCatalog
  <2>. QED  BY <2>1, <2>2
<1>2. ASSUME NEW e \in DOMAIN c
      PROVE  e \in DOMAIN n /\ \A t \in DOMAIN c[e] : t \in DOMAIN n[e] /\ KeepsTable(c[e][t], n[e][t])
  <2>1. e \in DOMAIN n /\ DOMAIN c[e] \subseteq DOMAIN n[e]
    BY DEF Replaces
  <2>2. ASSUME NEW t \in DOMAIN c[e] PROVE KeepsTable(c[e][t], n[e][t])
    <3>1. CASE <<e, t>> = <<d, table.name>>
      BY <3>1, <2>2 DEF Replaces, Known
    <3>2. CASE <<e, t>> # <<d, table.name>>
      <4>1. n[e][t] = c[e][t]
        BY <2>1, <3>2 DEF Replaces
      <4>. QED  BY <4>1, KeepsItself
    <3>. QED  BY <3>1, <3>2
  <2>. QED  BY <2>1, <2>2
<1>. QED  BY <1>1, <1>2 DEF IsCatalog, Keeps

\* All names of the fields stay.
KeepsNames(old, new) == \A f \in ToSet(old.fields) : Named(new.fields, f.name) # {}

LEMMA TypesKeepTable ==
  ASSUME NEW old, NEW new, KeepsNames(old, new), FieldTypesUnchanged(old, new)
  PROVE  KeepsTable(old, new)
<1> SUFFICES ASSUME NEW f \in ToSet(old.fields)
             PROVE  \E g \in Named(new.fields, f.name) : StorageType(g) = StorageType(f)
  BY DEF KeepsTable
<1>1. PICK g \in Named(new.fields, f.name) : TRUE
  BY DEF KeepsNames
<1>2. g \in ToSet(new.fields) /\ g.name = f.name
  BY DEF Named
<1>3. f.type = g.type /\ (g.type = "formula" => f.vtype = g.vtype)
  BY <1>2 DEF FieldTypesUnchanged
<1>. QED  BY <1>1, <1>3 DEF StorageType

LEMMA UpdateTableKeeps ==
  ASSUME NEW c, NEW d, NEW table, NEW n, IsCatalog(c), IsTable(table),
         n = UpdateTable(c, d, table), n # Refused,
         Known(c, d, table.name) => KeepsNames(c[d][table.name], table)
  PROVE  /\ Known(c, d, table.name) /\ FieldTypesUnchanged(c[d][table.name], table)
         /\ Validate(n) /\ IsCatalog(n) /\ Keeps(c, n) /\ Replaces(c, n, d, table)
<1>1. Known(c, d, table.name) /\ FieldTypesUnchanged(c[d][table.name], table)
  BY DEF UpdateTable
<1>2. n = WithTable(c, d, table) /\ Validate(n)
  BY <1>1 DEF UpdateTable, IfValid
<1>3. Replaces(c, n, d, table)
  BY <1>1, <1>2, WithTableReplaces DEF Known
<1>4. KeepsTable(c[d][table.name], table)
  BY <1>1, TypesKeepTable
<1>. QED  BY <1>1, <1>2, <1>3, <1>4, ReplacesKeeps

LEMMA AddTableKeeps ==
  ASSUME NEW c, NEW d, NEW table, NEW n, IsCatalog(c), IsTable(table),
         n = AddTable(c, d, table), n # Refused
  PROVE  /\ ~Known(c, d, table.name)
         /\ Validate(n) /\ IsCatalog(n) /\ Keeps(c, n) /\ Replaces(c, n, d, table)
<1>1. d \in DOMAIN c /\ ~Known(c, d, table.name)
  BY DEF AddTable
<1>2. n = WithTable(c, d, table) /\ Validate(n)
  BY <1>1 DEF AddTable, IfValid
<1>3. Replaces(c, n, d, table)
  BY <1>1, <1>2, WithTableReplaces
<1>. QED  BY <1>1, <1>2, <1>3, ReplacesKeeps

LEMMA AddDatabaseKeeps ==
  ASSUME NEW c, NEW d, NEW n, IsCatalog(c), n = AddDatabase(c, d), n # Refused
  PROVE  /\ Validate(n) /\ IsCatalog(n) /\ Keeps(c, n)
         /\ \A e \in DOMAIN n : \A t \in DOMAIN n[e] : Known(c, e, t) /\ n[e][t] = c[e][t]
<1>1. d \notin DOMAIN c
  BY DEF AddDatabase
<1>2. n = Put(c, d, <<>>) /\ Validate(n)
  BY DEF AddDatabase, IfValid
<1>3. DOMAIN n = DOMAIN c \cup {d} /\ n[d] = <<>> /\ \A e \in DOMAIN c : n[e] = c[e]
  BY <1>1, <1>2 DEF Put
<1>4. DOMAIN n[d] = {}
  BY <1>3
<1>5. \A e \in DOMAIN n : \A t \in DOMAIN n[e] : Known(c, e, t) /\ n[e][t] = c[e][t]
  BY <1>3, <1>4 DEF Known
<1>6. IsCatalog(n)
  BY <1>5 DEF IsCatalog, Known
<1>7. Keeps(c, n)
  BY <1>3, KeepsItself DEF Keeps
<1>. QED  BY <1>2, <1>5, <1>6, <1>7

\* A patch as its request is decoded, with or without the "all" view.
IsPatch(patch) ==
  /\ DOMAIN patch = {"name", "fields", "views"}
  /\ patch.fields = Missing \/ IsFields(patch.fields)
  /\ patch.views = Missing \/ patch.views \in Seq(ToSet(patch.views))

MergedTable(old, patch) ==
  [old EXCEPT
     !.fields = IF patch.fields = Missing THEN @ ELSE MergeByName(@, patch.fields),
     !.views  = IF patch.views = Missing THEN @ ELSE MergeByName(@, patch.views)]

LEMMA MergedFields ==
  ASSUME NEW e, IsFields(e), NEW p, IsFields(p)
  PROVE  /\ IsFields(MergeByName(e, p))
         /\ ToSet(MergeByName(e, p)) \subseteq ToSet(e) \cup ToSet(p)
         /\ \A x \in ToSet(e) : Named(MergeByName(e, p), x.name) # {}
<1>1. PICK X : X = ToSet(e) \cup ToSet(p)
  OBVIOUS
<1>2. e \in Seq(X) /\ p \in Seq(X)
  BY <1>1, MoreElements DEF IsFields
<1>3. /\ MergeByName(e, p) \in Seq(X)
      /\ \A x \in ToSet(e) : Named(MergeByName(e, p), x.name) # {}
  BY <1>2, MergeKeepsNames
<1>4. /\ MergeByName(e, p) \in Seq(ToSet(MergeByName(e, p)))
      /\ ToSet(MergeByName(e, p)) \subseteq X
  BY <1>3, OwnElements
<1>. QED  BY <1>1, <1>3, <1>4 DEF IsFields

LEMMA MergedTableIs ==
  ASSUME NEW old, IsTable(old), NEW patch, IsPatch(patch)
  PROVE  LET new == MergedTable(old, patch)
         IN  /\ IsTable(new) /\ new.name = old.name /\ KeepsNames(old, new)
             /\ new.fields = IF patch.fields = Missing THEN old.fields ELSE MergeByName(old.fields, patch.fields)
             /\ new.views = IF patch.views = Missing THEN old.views ELSE MergeByName(old.views, patch.views)
<1>1. PICK new : new = MergedTable(old, patch)
  OBVIOUS
<1>2. /\ DOMAIN new = {"name", "fields", "views"} /\ new.name = old.name
      /\ new.fields = IF patch.fields = Missing THEN old.fields ELSE MergeByName(old.fields, patch.fields)
      /\ new.views = IF patch.views = Missing THEN old.views ELSE MergeByName(old.views, patch.views)
  BY <1>1 DEF MergedTable, IsTable
<1>3. IsFields(new.fields) /\ KeepsNames(old, new)
  <2>1. CASE patch.fields = Missing
    BY <1>2, <2>1 DEF IsTable, KeepsNames, Named
  <2>2. CASE patch.fields # Missing
    BY <1>2, <2>2, MergedFields DEF IsTable, IsPatch, KeepsNames
  <2>. QED  BY <2>1, <2>2
<1>4. new.views \in Seq(ToSet(new.views))
  <2>1. CASE patch.views = Missing
    BY <1>2, <2>1 DEF IsTable
  <2>2. CASE patch.views # Missing
    <3>1. PICK X : X = ToSet(old.views) \cup ToSet(patch.views)
      OBVIOUS
    <3>2. old.views \in Seq(X) /\ patch.views \in Seq(X)
      BY <2>2, <3>1, MoreElements DEF IsTable, IsPatch
    <3>3. MergeByName(old.views, patch.views) \in Seq(X)
      BY <3>2, MergeKeepsNames
    <3>. QED  BY <1>2, <2>2, <3>3, OwnElements
  <2>. QED  BY <2>1, <2>2
<1>5. IsTable(new)
  BY <1>2, <1>3, <1>4 DEF IsTable
<1>. QED  BY <1>1, <1>2, <1>3, <1>5

LEMMA MergeTableKeeps ==
  ASSUME NEW c, NEW d, NEW t, NEW patch, NEW n, IsCatalog(c), IsPatch(patch),
         n = MergeTable(c, d, t, patch), n # Refused
  PROVE  /\ Known(c, d, t) /\ MergedTable(c[d][t], patch).name = t
         /\ Validate(n) /\ IsCatalog(n) /\ Keeps(c, n)
         /\ Replaces(c, n, d, MergedTable(c[d][t], patch))
<1>1. Known(c, d, t)
  BY DEF MergeTable
<1>2. IsTable(c[d][t]) /\ c[d][t].name = t
  BY <1>1 DEF IsCatalog, Known
<1>3. PICK new : new = MergedTable(c[d][t], patch)
  OBVIOUS
<1>4. IsTable(new) /\ new.name = t /\ KeepsNames(c[d][t], new)
  BY <1>2, <1>3, MergedTableIs
<1>5. n = UpdateTable(c, d, new)
  BY <1>1, <1>3 DEF MergeTable, MergedTable
<1>. QED  BY <1>1, <1>3, <1>4, <1>5, UpdateTableKeeps

\* A move of a field changes nothing but the order.
LEMMA MovedKeeps ==
  ASSUME NEW c, NEW d, NEW t, NEW name, NEW side \in {"start", "before", "after"}, NEW target, NEW n,
         IsCatalog(c), n = Moved(c, d, t, name, side, target), n # Refused
  PROVE  /\ Known(c, d, t) /\ Validate(n) /\ IsCatalog(n) /\ Keeps(c, n)
         /\ \E table : /\ table.name = t /\ Replaces(c, n, d, table)
                       /\ ToSet(table.fields) = ToSet(c[d][t].fields)
<1>1. Known(c, d, t) /\ PlaceOf(c[d][t].fields, name) # 0
  BY DEF Moved
<1>2. PICK old : old = c[d][t]
  OBVIOUS
<1>3. IsTable(old) /\ old.name = t
  BY <1>1, <1>2 DEF IsCatalog, Known
<1>4. PICK X : X = ToSet(old.fields)
  OBVIOUS
<1>5. old.fields \in Seq(X)
  BY <1>3, <1>4 DEF IsTable, IsFields
<1>6. PICK from \in 1 .. Len(old.fields) : from = PlaceOf(old.fields, name)
  <2>1. PlaceOf(old.fields, name) \in 0 .. Len(old.fields)
    BY <1>5, PlaceOfName
  <2>. QED  BY <1>1, <1>2, <2>1
<1>7. PICK rest \in Seq(X) : rest = RemoveAt(old.fields, from) /\ Len(rest) = Len(old.fields) - 1
  BY <1>5, RemovedAt
<1>8. PICK to : to = Destination(rest, side, target)
  OBVIOUS
<1>9. PICK new : new = [old EXCEPT !.fields = InsertAt(rest, to, old.fields[from])]
  OBVIOUS
<1>10. to # 0 /\ n = UpdateTable(c, d, new)
  BY <1>1, <1>2, <1>6, <1>7, <1>8, <1>9 DEF Moved
<1>11. to \in 1 .. Len(old.fields)
  <2>1. PlaceOf(rest, target) \in 0 .. Len(rest)
    BY PlaceOfName
  <2>2. Len(old.fields) \in Nat /\ Len(rest) = Len(old.fields) - 1
    BY <1>5, <1>7
  <2>. QED  BY <1>8, <1>10, <2>1, <2>2 DEF Destination
<1>12. PICK fields : fields = InsertAt(rest, to, old.fields[from])
  OBVIOUS
<1>13. fields \in Seq(X) /\ ToSet(fields) = X
  BY <1>4, <1>5, <1>7, <1>11, <1>12, MoveKeeps
<1>14. DOMAIN new = DOMAIN old /\ new.fields = fields /\ new.views = old.views /\ new.name = t
  BY <1>3, <1>9, <1>12 DEF IsTable
<1>15. IsTable(new) /\ KeepsNames(old, new)
  BY <1>3, <1>4, <1>13, <1>14 DEF IsTable, IsFields, KeepsNames, Named
<1>16. /\ Validate(n) /\ IsCatalog(n) /\ Keeps(c, n) /\ Replaces(c, n, d, new)
  BY <1>1, <1>2, <1>10, <1>14, <1>15, UpdateTableKeeps
<1>. QED  BY <1>1, <1>2, <1>4, <1>13, <1>14, <1>16

\* The fields of a table that some are added to, as they are to be saved and as
\* they are in memory.
LEMMA AddedFields ==
  ASSUME NEW table, IsTable(table), NEW p, IsFields(p), NEW moves \in BOOLEAN
  PROVE  LET given == WithFields(table, p, moves)
             next  == [table EXCEPT !.fields = given.fields]
             now   == [table EXCEPT !.fields = given.memory]
         IN  /\ IsTable(next) /\ next.name = table.name /\ KeepsNames(now, next)
             /\ IsTable(now) /\ now.name = table.name /\ now.views = table.views
             /\ KeepsTable(table, now) /\ KeepsTable(now, table)
             /\ NoDuplicates(table.fields) => NoDuplicates(now.fields)
<1>1. PICK b : b = table.fields
  OBVIOUS
<1>2. PICK Y : Y = ToSet(b) \cup ToSet(p)
  OBVIOUS
<1>3. PICK X : X = Y \cup {Undeleted(f) : f \in Y}
  OBVIOUS
<1>4. IsFields(b)
  BY <1>1 DEF IsTable
<1>5. \A f \in Y : DOMAIN f = DOMAIN RecordIdField
  BY <1>2, <1>4 DEF IsFields
<1>6. \A f \in Y : /\ DOMAIN Undeleted(f) = DOMAIN RecordIdField /\ Undeleted(f).name = f.name
                    /\ Undeleted(f).type = f.type /\ Undeleted(f).vtype = f.vtype
                    /\ Undeleted(Undeleted(f)) = Undeleted(f)
  BY <1>5 DEF Undeleted, RecordIdField
<1>7. \A f \in X : DOMAIN f = DOMAIN RecordIdField /\ Undeleted(f) \in X
  BY <1>3, <1>5, <1>6
<1>8. b \in Seq(X) /\ p \in Seq(X)
  BY <1>2, <1>3, <1>4, MoreElements DEF IsFields
<1>9. PICK given : given = WithFields(table, p, moves)
  OBVIOUS
<1>10. /\ given.fields \in Seq(X) /\ Grown(b, given.fields)
       /\ given.memory \in Seq(X) /\ Grown(b, given.memory) /\ Len(given.memory) = Len(b)
  BY <1>1, <1>7, <1>8, <1>9, WithFieldsGrow
<1>11. PICK next : next = [table EXCEPT !.fields = given.fields]
  OBVIOUS
<1>12. PICK now : now = [table EXCEPT !.fields = given.memory]
  OBVIOUS
<1>13. /\ DOMAIN next = {"name", "fields", "views"} /\ next.fields = given.fields
       /\ next.name = table.name /\ next.views = table.views
       /\ DOMAIN now = {"name", "fields", "views"} /\ now.fields = given.memory
       /\ now.name = table.name /\ now.views = table.views
  BY <1>11, <1>12 DEF IsTable
<1>14. IsFields(given.fields) /\ IsFields(given.memory)
  BY <1>7, <1>10, OwnElements DEF IsFields
<1>15. IsTable(next) /\ IsTable(now)
  BY <1>13, <1>14 DEF IsTable
<1>16. \A i \in 1 .. Len(b) : b[i] \in Y
  BY <1>2, <1>8 DEF ToSet
<1>17. \A i \in 1 .. Len(b) : /\ given.fields[i].name = b[i].name /\ given.memory[i].name = b[i].name
                              /\ StorageType(given.memory[i]) = StorageType(b[i])
  BY <1>6, <1>10, <1>16 DEF Grown, StorageType
<1>18. DOMAIN b = 1 .. Len(b) /\ DOMAIN given.memory = 1 .. Len(b) /\ 1 .. Len(b) \subseteq DOMAIN given.fields
  BY <1>8, <1>10 DEF Grown
<1>19. KeepsNames(now, next)
  <2> SUFFICES ASSUME NEW f \in ToSet(given.memory) PROVE Named(given.fields, f.name) # {}
    BY <1>13 DEF KeepsNames
  <2>1. PICK i \in 1 .. Len(b) : f = given.memory[i]
    BY <1>18 DEF ToSet
  <2>2. given.fields[i] \in ToSet(given.fields) /\ given.fields[i].name = f.name
    BY <1>17, <1>18, <2>1 DEF ToSet
  <2>. QED  BY <2>2 DEF Named
<1>20. KeepsTable(table, now)
  <2> SUFFICES ASSUME NEW f \in ToSet(b)
               PROVE  \E g \in Named(given.memory, f.name) : StorageType(g) = StorageType(f)
    BY <1>1, <1>13 DEF KeepsTable
  <2>1. PICK i \in 1 .. Len(b) : f = b[i]
    BY <1>18 DEF ToSet
  <2>2. given.memory[i] \in ToSet(given.memory)
    BY <1>18 DEF ToSet
  <2>. QED  BY <1>17, <2>1, <2>2 DEF Named
<1>21. KeepsTable(now, table)
  <2> SUFFICES ASSUME NEW f \in ToSet(given.memory)
               PROVE  \E g \in Named(b, f.name) : StorageType(g) = StorageType(f)
    BY <1>1, <1>13 DEF KeepsTable
  <2>1. PICK i \in 1 .. Len(b) : f = given.memory[i]
    BY <1>18 DEF ToSet
  <2>2. b[i] \in ToSet(b)
    BY <1>18 DEF ToSet
  <2>. QED  BY <1>17, <2>1, <2>2 DEF Named
<1>22. NoDuplicates(b) => NoDuplicates(given.memory)
  BY <1>17, <1>18 DEF NoDuplicates
<1>. QED  BY <1>1, <1>9, <1>11, <1>12, <1>13, <1>15, <1>19, <1>20, <1>21, <1>22

-----------------------------------------------------------------------------
(* Who changes the catalog, its file, the tables and the owners.           *)

LEMMA CatalogUntouched ==
  ASSUME NEW r \in due, AccessSteps(r) \/ ScriptsSteps(r) \/ CliSyncSteps(r)
  PROVE  UNCHANGED <<catalog, owners>>
<1> USE DEF storeVars, accessVars, accessHistory
<1>1. CASE AccessSteps(r)
  BY <1>1 DEF AccessSteps, HandleSaveGrant, FindConflicts, DeleteConflictingGrant, WriteGrant,
     HandleRole, WriteRole, WriteRoleGrants, WriteRoleMembers, RoleResponse, ListRoles
<1>2. CASE ScriptsSteps(r)
  BY <1>2 DEF ScriptsSteps, HandleSaveScript, FindPrevious, CreateScript, MergeScript, WriteScriptRow,
     WriteScriptFile, RemoveOldFile, GrantResourceOwner, HandleDeleteScript, FindDeleted,
     DeleteRowOfScript, RemoveScriptFile, HandlePublish, ReadForm, WriteToken, GetScript,
     GetPublishedForm, HandleWorkflowWebhook
<1>3. CASE CliSyncSteps(r)
  BY <1>3, CliSyncLeavesServer DEF storeVars, accessVars, accessHistory
<1>. QED  BY <1>1, <1>2, <1>3

LEMMA OwnersUntouched ==
  ASSUME AccountsNext
  PROVE  owners' = owners
<1> USE DEF storeVars, accessVars
<1>1. ASSUME NEW r \in due, SignInSteps(r) PROVE owners' = owners
  <2>1. ASSUME Register(r) \/ Upsert(r) \/ Login(r) \/ OpenSession(r) \/ Me(r) \/ Logout(r)
               \/ OIDCStart(r) \/ OIDCCallback(r)
        PROVE  owners' = owners
    BY <2>1 DEF Register, Upsert, Login, OpenSession, Me, Logout, OIDCStart, OIDCCallback
  <2>2. ASSUME BrowserLogin(r) \/ LoginTimesOut(r) \/ ResendToken(r) \/ Redeem(r) \/ IssueToken(r)
               \/ SaveCredentials(r) \/ CliLogout(r) \/ RemoveCredentials(r)
        PROVE  owners' = owners
    BY <2>2 DEF BrowserLogin, LoginTimesOut, ResendToken, Redeem, IssueToken, SaveCredentials,
       CliLogout, RemoveCredentials
  <2>. QED  BY <1>1, <2>1, <2>2 DEF SignInSteps
<1>. QED  BY <1>1 DEF AccountsNext, SignInSteps, Tick, AuthorizePage, Authorize, Callback

\* Nothing of the catalog changes, and its requests stay where they are or end.
Still ==
  /\ due' = due /\ UNCHANGED <<catalog, file, tables, ahead, owners>>
  /\ \A q \in due : q.op \in CatalogOps =>
       (pc'[q] = pc[q] /\ held'[q] = held[q]) \/ pc'[q] = "done"

LEMMA CatalogStep ==
  ASSUME PlaceInv, [Next]_vars
  PROVE  \/ Still \/ Restart
         \/ \E r \in due : CatalogSteps(r) /\ Steps(r, CatalogOps)
<1>0. Progressing /\ Placed
  BY DEF PlaceInv
<1> USE DEF catalogVars, tableVars, catalogHistory
<1>a. ASSUME NEW r \in due, NEW ops, Steps(r, ops), ops \cap CatalogOps = {}
      PROVE  due' = due /\ \A q \in due : q.op \in CatalogOps => pc'[q] = pc[q] /\ held'[q] = held[q]
  BY <1>a DEF Steps, Moves
<1>b. SignInOps \cap CatalogOps = {} /\ AccessOps \cap CatalogOps = {}
  BY DEF SignInOps, AccessOps, CatalogOps
<1>c. ScriptsOps \cap CatalogOps = {} /\ CliSyncOps \cap CatalogOps = {}
  BY DEF ScriptsOps, CliSyncOps, CatalogOps, ChangeOps, SaveOps, PublishOps
<1>1. CASE AccountsNext /\ UNCHANGED <<doubled, catalogVars, codeVars, dirVars>>
  <2>1. owners' = owners
    BY <1>1, OwnersUntouched
  <2>2. ASSUME NEW r \in due, SignInSteps(r) PROVE Steps(r, SignInOps)
    BY <1>0, <2>2, SignInMoves
  <2>3. ASSUME NEW r \in due, Steps(r, SignInOps) PROVE Still
    BY <1>1, <1>a, <1>b, <2>1, <2>3 DEF Still
  <2>4. ASSUME UNCHANGED requestVars PROVE Still
    BY <1>1, <2>1, <2>4 DEF Still, requestVars
  <2>5. ASSUME NEW c \in callbacks, Callback(c) PROVE Still
    <3>1. PICK r \in Listening(c.port) : Awaited(c, r) /\ Goto(r, "redeem", [code |-> c.code])
      BY <2>5 DEF Callback
    <3>2. TakesCallback(r, c) /\ r \in due
      BY <3>1 DEF Listening, TakesCallback
    <3>3. Steps(r, SignInOps)
      BY <1>0, <3>1, <3>2, GotoSteps DEF SignInOps, PlacedAt, TakesCallback
    <3>. QED  BY <2>3, <3>2, <3>3
  <2>. QED  BY <1>1, <2>2, <2>3, <2>4, <2>5 DEF AccountsNext, SignInSteps, Tick, AuthorizePage, Authorize
<1>2. CASE AccessNext /\ UNCHANGED <<signInVars, file, tables, catalogHistory, codeVars, dirVars>>
  <2>1. PICK r \in due : AccessSteps(r)
    BY <1>2 DEF AccessNext, AccessSteps
  <2>2. Steps(r, AccessOps) /\ UNCHANGED <<catalog, owners>>
    BY <1>0, <2>1, AccessMoves, CatalogUntouched
  <2>. QED  BY <1>2, <1>a, <1>b, <2>2 DEF Still
<1>3. CASE CatalogNext /\ UNCHANGED <<signInVars, codeVars, dirVars>>
  BY <1>0, <1>3, CatalogMoves DEF CatalogNext, CatalogSteps
<1>4. CASE ScriptsNext /\ UNCHANGED <<signInVars, file, tables, catalogHistory, dirVars>>
  <2>1. PICK r \in due : ScriptsSteps(r)
    BY <1>4 DEF ScriptsNext, ScriptsSteps
  <2>2. Steps(r, ScriptsOps) /\ UNCHANGED <<catalog, owners>>
    BY <1>0, <2>1, ScriptsMoves, CatalogUntouched
  <2>. QED  BY <1>4, <1>a, <1>c, <2>2 DEF Still
<1>5. CASE CliSyncNext /\ UNCHANGED <<signInVars, file, tables, catalogHistory>>
  <2>1. PICK r \in due : CliSyncSteps(r)
    BY <1>5 DEF CliSyncNext, CliSyncSteps
  <2>2. Steps(r, CliSyncOps) /\ UNCHANGED <<catalog, owners>>
    BY <1>0, <2>1, CliSyncMoves, CatalogUntouched
  <2>. QED  BY <1>5, <1>a, <1>c, <2>2 DEF Still
<1>6. ASSUME NEW r \in due, Fail(r) PROVE Still
  <2>1. Moves(r) /\ (pc'[r] = "done" \/ r.op \in {"push", "workflowSet"})
    BY <1>0, <1>6, FailSteps
  <2>2. r.op \in CatalogOps => pc'[r] = "done"
    BY <2>1 DEF CatalogOps
  <2>. QED  BY <1>6, <2>1, <2>2 DEF Fail, Still, Moves, storeVars, accessVars
<1>7. CASE UNCHANGED vars
  BY <1>7 DEF vars, Still, requestVars, storeVars, accessVars
<1>. QED  BY <1>1, <1>2, <1>3, <1>4, <1>5, <1>6, <1>7 DEF Next, Idle

-----------------------------------------------------------------------------
(* The catalog, its file, and the change under way.                        *)

CatalogsInv ==
  /\ IsCatalog(file) /\ Validate(file)
  /\ IsCatalog(catalog) /\ Distinct(catalog)
  /\ Keeps(file, catalog) /\ Keeps(catalog, file)

LockInv == \A q, r \in due : pc[q] \in LockLabels /\ pc[r] \in LockLabels => q = r

Working(r) == pc[r] \in {"read", "sync", "save"}

\* What a change goes on with is the catalog with one table changed, or with a
\* new database.
Fits(next, r, now, saved) ==
  /\ IsCatalog(next) /\ Validate(next) /\ Keeps(saved, next) /\ Keeps(now, next)
  /\ r.op # "createDatabase" => Known(next, Key(r)[1], Key(r)[2])
  /\ \A d \in DOMAIN next : \A t \in DOMAIN next[d] :
       (r.op = "createDatabase" \/ <<d, t>> # Key(r)) => Known(now, d, t) /\ next[d][t] = now[d][t]

NextInv == \A r \in due : Working(r) => Fits(held[r].next, r, catalog, file)

ChangesInv == CatalogsInv /\ LockInv /\ NextInv

LEMMA ReplacesFits ==
  ASSUME NEW now, NEW saved, NEW next, NEW r, NEW table,
         Replaces(now, next, Key(r)[1], table), table.name = Key(r)[2], r.op # "createDatabase",
         IsCatalog(next), Validate(next), Keeps(now, next), Keeps(saved, now)
  PROVE  Fits(next, r, now, saved)
<1>1. Keeps(saved, next)
  BY KeepsOn
<1>2. Known(next, Key(r)[1], Key(r)[2])
  BY DEF Known, Replaces
<1>3. Key(r) = <<Key(r)[1], Key(r)[2]>>
  BY DEF Key
<1>4. ASSUME NEW d \in DOMAIN next, NEW t \in DOMAIN next[d], <<d, t>> # Key(r)
      PROVE  Known(now, d, t) /\ next[d][t] = now[d][t]
  BY <1>3, <1>4 DEF Replaces, Known
<1>. QED  BY <1>1, <1>2, <1>4 DEF Fits

LEMMA PatchIsDecoded ==
  ASSUME Progressing, NEW r \in due, r.op = "updateTable"
  PROVE  IsPatch(PatchOf(r))
<1>1. IsPatch(r.patch)
  BY CatalogAssumption DEF Progressing, IsPatch
<1>2. CASE r.patch.views = Missing
  BY <1>1, <1>2 DEF PatchOf
<1>3. CASE r.patch.views # Missing
  <2>1. PICK X : X = ToSet(r.patch.views)
    OBVIOUS
  <2>2. PICK kept \in Seq(X) : kept = WithoutAll(r.patch.views)
    BY <1>1, <1>3, <2>1, KeptViews DEF IsPatch
  <2>3. kept \in Seq(ToSet(kept))
    BY <2>2, OwnElements
  <2>4. PatchOf(r) = [r.patch EXCEPT !.views = kept]
    BY <1>3, <2>2 DEF PatchOf, WithoutAll
  <2>. QED  BY <1>1, <2>3, <2>4 DEF IsPatch
<1>. QED  BY <1>2, <1>3

\* A step aside of the catalog.
Aside(r) == pc'[r] \notin LockLabels /\ UNCHANGED <<catalog, file>>

\* A step of who has the lock, or takes it.
Holding(r) ==
  /\ CatalogFree \/ pc[r] \in LockLabels
  /\ CatalogsInv'
  /\ pc'[r] \in {"read", "sync", "save"} => Fits(held'[r].next, r, catalog', file')

\* Who goes on holding the next catalog.
LEMMA BeginsHolding ==
  ASSUME Progressing, CatalogsInv, NEW r \in due, CatalogFree, UNCHANGED <<catalog, file>>,
         NEW next, Fits(next, r, catalog, file),
         NEW label, NEW value, value.next = next, Goto(r, label, value)
  PROVE  Holding(r)
<1>1. held'[r].next = next
  BY DEF Goto, Progressing
<1>2. CatalogsInv'
  BY DEF CatalogsInv
<1>. QED  BY <1>1, <1>2 DEF Holding

LEMMA ProceedHolding ==
  ASSUME Progressing, CatalogsInv, NEW r \in due, CatalogFree, UNCHANGED <<catalog, file>>,
         NEW next, next # Refused => Fits(next, r, catalog, file),
         NEW label, Proceed(r, next, label)
  PROVE  Aside(r) \/ Holding(r)
<1>1. CASE next = Refused
  BY <1>1 DEF Proceed, Answer, Progressing, Aside, LockLabels
<1>2. CASE next # Refused
  <2>1. PICK value : value = [next |-> next, seen |-> held[r].seen, rows |-> {}]
    OBVIOUS
  <2>2. value.next = next /\ Goto(r, label, value)
    BY <1>2, <2>1 DEF Proceed
  <2>. QED  BY <1>2, <2>2, BeginsHolding
<1>. QED  BY <1>1, <1>2

LEMMA UpToDateHolding ==
  ASSUME Progressing, CatalogsInv, NEW r \in due, CatalogFree, UNCHANGED <<catalog, file>>,
         NEW next, next # Refused, Fits(next, r, catalog, file),
         NEW sync, BringUpToDate(r, next, sync)
  PROVE  Aside(r) \/ Holding(r)
<1>1. ASSUME NEW outcome, Answer(r, outcome) PROVE Aside(r)
  BY <1>1 DEF Answer, Progressing, Aside, LockLabels
<1>2. \/ Answer(r, "invalid")
      \/ \E label : Proceed(r, next, label)
  BY DEF BringUpToDate
<1>. QED  BY <1>1, <1>2, ProceedHolding

LEMMA ChangeTablesHolds ==
  ASSUME Progressing, CatalogsInv, NEW r \in due, ChangeTables(r)
  PROVE  Aside(r) \/ Holding(r)
<1>1. r.op = "addTable" /\ CatalogFree /\ UNCHANGED <<catalog, file>> /\ IsTable(r.table)
  BY CatalogAssumption DEF ChangeTables, At, storeVars, accessVars, accessHistory, Progressing
<1>2. PICK next : next = AddTable(catalog, r.db, r.table)
  OBVIOUS
<1>3. CASE next = Refused
  BY <1>1, <1>2, <1>3 DEF ChangeTables, Answer, Progressing, Aside, LockLabels
<1>4. CASE next # Refused
  <2>1. /\ Validate(next) /\ IsCatalog(next) /\ Keeps(catalog, next)
        /\ Replaces(catalog, next, r.db, r.table)
    BY <1>1, <1>2, <1>4, AddTableKeeps DEF CatalogsInv
  <2>2. Key(r)[1] = r.db /\ Key(r)[2] = r.table.name
    BY <1>1 DEF Key
  <2>3. Fits(next, r, catalog, file)
    BY <1>1, <2>1, <2>2, ReplacesFits DEF CatalogsInv
  <2>4. BringUpToDate(r, next, TRUE)
    BY <1>2, <1>4 DEF ChangeTables
  <2>. QED  BY <1>1, <1>4, <2>3, <2>4, UpToDateHolding
<1>. QED  BY <1>3, <1>4

LEMMA ChangeTableHolds ==
  ASSUME Progressing, CatalogsInv, NEW r \in due, ChangeTable(r)
  PROVE  Aside(r) \/ Holding(r)
<1>1. r.op = "updateTable" /\ CatalogFree /\ UNCHANGED <<catalog, file>>
  BY DEF ChangeTable, At, storeVars, accessVars, accessHistory
<1>2. PICK patch : patch = PatchOf(r) /\ IsPatch(patch)
  BY <1>1, PatchIsDecoded
<1>3. PICK next : next = MergeTable(catalog, r.db, r.table, patch)
  OBVIOUS
<1>4. CASE next = Refused
  BY <1>1, <1>2, <1>3, <1>4 DEF ChangeTable, Answer, Progressing, Aside, LockLabels
<1>5. CASE next # Refused
  <2>1. PICK table : /\ Validate(next) /\ IsCatalog(next) /\ Keeps(catalog, next)
                     /\ Replaces(catalog, next, r.db, table) /\ table.name = r.table
    BY <1>2, <1>3, <1>5, MergeTableKeeps DEF CatalogsInv
  <2>2. Key(r)[1] = r.db /\ Key(r)[2] = r.table
    BY <1>1 DEF Key
  <2>3. Fits(next, r, catalog, file)
    BY <1>1, <2>1, <2>2, ReplacesFits DEF CatalogsInv
  <2>4. \E sync : BringUpToDate(r, next, sync)
    BY <1>2, <1>3, <1>5 DEF ChangeTable
  <2>. QED  BY <1>1, <1>5, <2>3, <2>4, UpToDateHolding
<1>. QED  BY <1>4, <1>5

\* The next catalog of a move of a field.
MovedCatalog(r) ==
  CASE r.to = "start"  -> MoveFieldToStart(catalog, r.db, r.table, r.field)
    [] r.to = "before" -> MoveFieldBefore(catalog, r.db, r.table, r.field, r.target)
    [] r.to = "after"  -> MoveFieldAfter(catalog, r.db, r.table, r.field, r.target)

LEMMA MovedCatalogFits ==
  ASSUME Progressing, CatalogsInv, NEW r \in due, r.op = "moveField",
         NEW next, next = MovedCatalog(r), next # Refused
  PROVE  /\ Fits(next, r, catalog, file) /\ Known(catalog, r.db, r.table)
         /\ ToSet(next[r.db][r.table].fields) = ToSet(catalog[r.db][r.table].fields)
<1>1. r.to \in {"start", "before", "after"}
  BY CatalogAssumption DEF Progressing
<1>2. PICK side \in {"start", "before", "after"}, target \in {r.field, r.target} :
        next = Moved(catalog, r.db, r.table, r.field, side, target)
  <2>1. CASE r.to = "start"
    BY <2>1 DEF MovedCatalog, MoveFieldToStart
  <2>2. CASE r.to = "before"
    BY <2>2 DEF MovedCatalog, MoveFieldBefore, MoveFieldRelative
  <2>3. CASE r.to = "after"
    BY <2>3 DEF MovedCatalog, MoveFieldAfter, MoveFieldRelative
  <2>. QED  BY <1>1, <2>1, <2>2, <2>3
<1>3. PICK table : /\ Known(catalog, r.db, r.table) /\ Validate(next) /\ IsCatalog(next)
                   /\ Keeps(catalog, next)
                   /\ table.name = r.table /\ Replaces(catalog, next, r.db, table)
                   /\ ToSet(table.fields) = ToSet(catalog[r.db][r.table].fields)
  BY <1>2, MovedKeeps DEF CatalogsInv
<1>4. Key(r)[1] = r.db /\ Key(r)[2] = r.table
  BY DEF Key
<1>5. Fits(next, r, catalog, file)
  BY <1>3, <1>4, ReplacesFits DEF CatalogsInv
<1>. QED  BY <1>3, <1>5 DEF Replaces

LEMMA MoveFieldHolds ==
  ASSUME Progressing, CatalogsInv, NEW r \in due, MoveField(r)
  PROVE  Aside(r) \/ Holding(r)
<1>1. r.op = "moveField" /\ CatalogFree /\ UNCHANGED <<catalog, file>>
  BY DEF MoveField, At, catalogVars, tableVars
<1>2. PICK next : next = MovedCatalog(r) /\ Proceed(r, next, "save")
  BY DEF MoveField, MovedCatalog
<1>. QED  BY <1>1, <1>2, MovedCatalogFits, ProceedHolding

\* The table in memory after fields were added, and the one that is to be saved.
LEMMA AddingFields ==
  ASSUME Progressing, CatalogsInv, NEW r \in due, r.op = "createFields", Known(catalog, r.db, r.table),
         NEW moves \in BOOLEAN, NEW given, given = WithFields(catalog[r.db][r.table], r.fields, moves),
         NEW memory, memory = WithTable(catalog, r.db, [catalog[r.db][r.table] EXCEPT !.fields = given.memory]),
         NEW next,
         next = UpdateTable(memory, r.db, [catalog[r.db][r.table] EXCEPT !.fields = given.fields])
  PROVE  /\ IsCatalog(memory) /\ Distinct(memory) /\ Keeps(catalog, memory) /\ Keeps(memory, catalog)
         /\ Known(memory, r.db, r.table)
         /\ Replaces(catalog, memory, r.db, [catalog[r.db][r.table] EXCEPT !.fields = given.memory])
         /\ next # Refused => Fits(next, r, memory, file)
<1>1. PICK table : table = catalog[r.db][r.table]
  OBVIOUS
<1>2. IsTable(table) /\ table.name = r.table
  BY <1>1 DEF CatalogsInv, IsCatalog, Known
<1>3. NoDuplicates(table.fields) /\ NoDuplicates(table.views) /\ Viewable(table)
  BY <1>1 DEF CatalogsInv, Distinct, Known
<1>4. IsFields(r.fields)
  BY CatalogAssumption DEF Progressing
<1>5. PICK now : now = [table EXCEPT !.fields = given.memory]
  OBVIOUS
<1>6. PICK later : later = [table EXCEPT !.fields = given.fields]
  OBVIOUS
<1>7. /\ IsTable(later) /\ later.name = r.table /\ KeepsNames(now, later)
      /\ IsTable(now) /\ now.name = r.table /\ now.views = table.views
      /\ KeepsTable(table, now) /\ KeepsTable(now, table)
      /\ NoDuplicates(now.fields)
  <2>1. given = WithFields(table, r.fields, moves)
    BY <1>1
  <2>. QED  BY <1>2, <1>3, <1>4, <1>5, <1>6, <2>1, AddedFields
<1>8. memory = WithTable(catalog, r.db, now) /\ next = UpdateTable(memory, r.db, later)
  BY <1>1, <1>5, <1>6
<1>9. Replaces(catalog, memory, r.db, now)
  BY <1>8, WithTableReplaces DEF Known
<1>10. IsCatalog(memory) /\ Keeps(catalog, memory)
  BY <1>1, <1>7, <1>9, ReplacesKeeps DEF CatalogsInv
<1>11. memory[r.db][r.table] = now /\ Known(memory, r.db, r.table)
  BY <1>7, <1>9 DEF Replaces, Known
<1>12. ASSUME NEW d \in DOMAIN memory, NEW t \in DOMAIN memory[d]
       PROVE  /\ NoDuplicates(memory[d][t].fields) /\ NoDuplicates(memory[d][t].views)
              /\ Viewable(memory[d][t]) /\ t \in DOMAIN catalog[d] /\ KeepsTable(memory[d][t], catalog[d][t])
  <2>1. CASE <<d, t>> = <<r.db, r.table>>
    BY <1>1, <1>3, <1>7, <1>11, <2>1, SameViews DEF Known
  <2>2. CASE <<d, t>> # <<r.db, r.table>>
    <3>1. d \in DOMAIN catalog /\ t \in DOMAIN catalog[d] /\ memory[d][t] = catalog[d][t]
      BY <1>7, <1>9, <2>2 DEF Replaces
    <3>. QED  BY <3>1, KeepsItself DEF CatalogsInv, Distinct
  <2>. QED  BY <2>1, <2>2
<1>13. Distinct(memory)
  <2> SUFFICES ASSUME NEW d \in DOMAIN memory, NEW t \in DOMAIN memory[d]
               PROVE  /\ NoDuplicates(memory[d][t].fields) /\ NoDuplicates(memory[d][t].views)
                      /\ Viewable(memory[d][t])
    BY DEF Distinct
  <2>. QED  BY <1>12
<1>14. Keeps(memory, catalog)
  BY <1>9, <1>12 DEF Keeps, Replaces
<1>15. Keeps(file, memory)
  BY <1>10, KeepsOn DEF CatalogsInv
<1>16. ASSUME next # Refused PROVE Fits(next, r, memory, file)
  <2>1. /\ Validate(next) /\ IsCatalog(next) /\ Keeps(memory, next)
        /\ Replaces(memory, next, r.db, later)
    BY <1>7, <1>8, <1>10, <1>11, <1>16, UpdateTableKeeps
  <2>2. Key(r)[1] = r.db /\ Key(r)[2] = r.table
    BY DEF Key
  <2>. QED  BY <1>7, <1>15, <2>1, <2>2, ReplacesFits
<1>. QED  BY <1>1, <1>5, <1>9, <1>10, <1>11, <1>13, <1>14, <1>16

LEMMA CreateFieldsHolds ==
  ASSUME Progressing, CatalogsInv, NEW r \in due, CreateFields(r)
  PROVE  Aside(r) \/ Holding(r)
<1>1. r.op = "createFields" /\ CatalogFree /\ file' = file
  BY DEF CreateFields, At
<1>2. CASE ~Known(catalog, r.db, r.table)
  BY <1>1, <1>2 DEF CreateFields, Answer, Progressing, Aside, LockLabels
<1>3. CASE Known(catalog, r.db, r.table)
  <2>1. PICK moves \in BOOLEAN :
          LET table == catalog[r.db][r.table]
              given == WithFields(table, r.fields, moves)
          IN  /\ catalog' = WithTable(catalog, r.db, [table EXCEPT !.fields = given.memory])
              /\ \/ \E outcome : Answer(r, outcome)
                 \/ Proceed(r, UpdateTable(catalog', r.db, [table EXCEPT !.fields = given.fields]), "save")
    BY <1>3 DEF CreateFields
  <2>2. PICK table : table = catalog[r.db][r.table]
    OBVIOUS
  <2>3. PICK given : given = WithFields(table, r.fields, moves)
    OBVIOUS
  <2>4. PICK next : next = UpdateTable(catalog', r.db, [table EXCEPT !.fields = given.fields])
    OBVIOUS
  <2>5. /\ catalog' = WithTable(catalog, r.db, [table EXCEPT !.fields = given.memory])
        /\ (\E outcome : Answer(r, outcome)) \/ Proceed(r, next, "save")
    BY <2>1, <2>2, <2>3, <2>4
  <2>6. PICK memory : memory = catalog'
    OBVIOUS
  <2>7. /\ IsCatalog(memory) /\ Distinct(memory) /\ Keeps(catalog, memory) /\ Keeps(memory, catalog)
        /\ next # Refused => Fits(next, r, memory, file)
    BY <1>1, <1>3, <2>2, <2>3, <2>4, <2>5, <2>6, AddingFields
  <2>8. Keeps(file, memory) /\ Keeps(memory, file)
    BY <2>7, KeepsOn DEF CatalogsInv
  <2>9. CatalogsInv'
    BY <1>1, <2>6, <2>7, <2>8 DEF CatalogsInv
  <2>10. pc'[r] = "done" \/ (next # Refused /\ held'[r].next = next)
    <3>1. CASE next = Refused
      BY <2>5, <3>1 DEF Proceed, Answer, Progressing
    <3>2. CASE next # Refused
      BY <2>5, <3>2 DEF Proceed, Answer, Goto, Progressing
    <3>. QED  BY <3>1, <3>2
  <2>. QED  BY <1>1, <2>6, <2>7, <2>9, <2>10 DEF Holding
<1>. QED  BY <1>2, <1>3

LEMMA CreateDatabaseHolds ==
  ASSUME Progressing, CatalogsInv, NEW r \in due, CreateDatabase(r)
  PROVE  Aside(r) \/ Holding(r)
<1>1. r.op = "createDatabase" /\ CatalogFree /\ UNCHANGED <<catalog, file>>
  BY DEF CreateDatabase, At, accessHistory
<1>2. PICK next : next = AddDatabase(catalog, r.db)
  OBVIOUS
<1>3. CASE next = Refused
  BY <1>1, <1>2, <1>3 DEF CreateDatabase, Answer, Progressing, Aside, LockLabels
<1>4. CASE next # Refused
  <2>1. /\ Validate(next) /\ IsCatalog(next) /\ Keeps(catalog, next)
        /\ \A d \in DOMAIN next : \A t \in DOMAIN next[d] : Known(catalog, d, t) /\ next[d][t] = catalog[d][t]
    BY <1>2, <1>4, AddDatabaseKeeps DEF CatalogsInv
  <2>2. Keeps(file, next)
    BY <2>1, KeepsOn DEF CatalogsInv
  <2>3. Fits(next, r, catalog, file)
    BY <1>1, <2>1, <2>2 DEF Fits
  <2>4. PICK value : value = [next |-> next]
    OBVIOUS
  <2>5. value.next = next /\ Goto(r, "save", value)
    BY <1>2, <1>4, <2>4 DEF CreateDatabase
  <2>. QED  BY <1>1, <2>3, <2>5, BeginsHolding
<1>. QED  BY <1>3, <1>4

\* The rows change the formulas only, and the next catalog is saved as it was made.
LEMMA RowsHold ==
  ASSUME Progressing, ChangesInv, NEW r \in due, ReadRows(r) \/ SyncRow(r)
  PROVE  Aside(r) \/ Holding(r)
<1>1. pc[r] \in {"read", "sync"} /\ UNCHANGED <<catalog, file>>
  BY DEF ReadRows, SyncRow, accessHistory
<1>2. Fits(held[r].next, r, catalog, file)
  BY <1>1 DEF ChangesInv, NextInv, Working
<1>3. \/ \E outcome : Answer(r, outcome)
      \/ \E rows : Synchronise(r, rows)
  <2>1. CASE ReadRows(r)
    BY <2>1 DEF ReadRows
  <2>2. CASE SyncRow(r)
    BY <2>2 DEF SyncRow
  <2>. QED  BY <2>1, <2>2
<1>4. ASSUME NEW outcome, Answer(r, outcome) PROVE Aside(r)
  BY <1>1, <1>4 DEF Answer, Progressing, Aside, LockLabels
<1>5. ASSUME NEW rows, Synchronise(r, rows) PROVE Holding(r)
  <2>1. PICK value : value = [held[r] EXCEPT !.rows = rows]
    OBVIOUS
  <2>2. value.next = held[r].next
    BY <2>1
  <2>3. held'[r] = value
    BY <1>5, <2>1 DEF Synchronise, Goto, Progressing
  <2>4. held'[r].next = held[r].next
    BY <2>2, <2>3
  <2>5. CatalogsInv'
    BY <1>1 DEF ChangesInv, CatalogsInv
  <2>. QED  BY <1>1, <1>2, <2>4, <2>5 DEF Holding, LockLabels
<1>. QED  BY <1>3, <1>4, <1>5

LEMMA SaveHolds ==
  ASSUME Progressing, ChangesInv, NEW r \in due, SaveCatalog(r)
  PROVE  Holding(r)
<1>1. pc[r] = "save" /\ file' = held[r].next /\ catalog' = held[r].next
  BY DEF SaveCatalog
<1>2. PICK next : next = held[r].next
  OBVIOUS
<1>3. IsCatalog(next) /\ Validate(next)
  BY <1>1, <1>2 DEF ChangesInv, NextInv, Working, Fits
<1>4. CatalogsInv'
  BY <1>1, <1>2, <1>3, KeepsItself, ValidDistinct DEF CatalogsInv
<1>5. pc'[r] \notin {"read", "sync", "save"}
  BY DEF SaveCatalog, Goto, Answer, Progressing
<1>. QED  BY <1>1, <1>4, <1>5 DEF Holding, LockLabels

LEMMA CatalogStepHolds ==
  ASSUME Progressing, ChangesInv, NEW r \in due, CatalogSteps(r)
  PROVE  Aside(r) \/ Holding(r)
<1> USE DEF storeVars, accessVars, accessHistory, catalogVars, tableVars, Progressing, Aside, LockLabels
<1>1. ASSUME NEW outcome, Answer(r, outcome), UNCHANGED <<catalog, file>> PROVE Aside(r)
  BY <1>1 DEF Answer
<1>2. ASSUME NEW label, NEW value, label \notin LockLabels, Goto(r, label, value), UNCHANGED <<catalog, file>>
      PROVE  Aside(r)
  BY <1>2 DEF Goto
<1>3. ASSUME OwnDatabase(r) \/ AuthorizeTable(r) \/ AuthorizePatch(r) \/ AuthorizeFields(r) \/ EnsureFields(r)
      PROVE  Aside(r)
  BY <1>1, <1>2, <1>3 DEF OwnDatabase, AuthorizeTable, AuthorizePatch, AuthorizeFields, EnsureFields
<1>4. ASSUME QueryRows(r) \/ AuthorizeRow(r) \/ ReadRow(r) PROVE Aside(r)
  BY <1>1, <1>2, <1>4 DEF QueryRows, AuthorizeRow, ReadRow, FoundRow
<1>5. ASSUME AddRow(r) \/ WriteTableRow(r) \/ AuthorizeDelete(r) \/ DeleteTableRow(r) PROVE Aside(r)
  BY <1>1, <1>2, <1>5 DEF AddRow, WriteTableRow, AuthorizeDelete, DeleteTableRow, FoundRow
<1>6. CatalogsInv
  BY DEF ChangesInv
<1>7. ASSUME CreateDatabase(r) \/ ChangeTables(r) \/ ChangeTable(r) \/ MoveField(r) \/ CreateFields(r)
      PROVE  Aside(r) \/ Holding(r)
  BY <1>6, <1>7, CreateDatabaseHolds, ChangeTablesHolds, ChangeTableHolds, MoveFieldHolds, CreateFieldsHolds
<1>. QED  BY <1>3, <1>4, <1>5, <1>7, RowsHold, SaveHolds DEF CatalogSteps

LEMMA InitChanges == Init => ChangesInv
<1> SUFFICES ASSUME Init PROVE ChangesInv
  OBVIOUS
<1>1. catalog = FirstCatalog /\ file = FirstCatalog /\ \A r \in due : pc[r] = "start"
  BY DEF Init, CatalogInit, RequestsInit
<1>2. CatalogsInv
  BY <1>1, CatalogAssumption, KeepsItself, ValidDistinct DEF CatalogsInv
<1>. QED  BY <1>1, <1>2 DEF ChangesInv, LockInv, NextInv, LockLabels, Working

LEMMA NextChanges == PlaceInv /\ ChangesInv /\ [Next]_vars => ChangesInv'
<1> SUFFICES ASSUME PlaceInv, ChangesInv, [Next]_vars PROVE ChangesInv'
  OBVIOUS
<1>0. Progressing /\ Placed /\ CatalogsInv /\ LockInv /\ NextInv
  BY DEF PlaceInv, ChangesInv
<1>a. \A q \in due : pc[q] \in LockLabels => q.op \in CatalogOps /\ UnderWay(q) /\ pc[q] \notin ClientLabels
  BY <1>0 DEF Placed, PlacedAt, LockLabels, CatalogOps, UnderWay, ClientLabels
<1>1. CASE Still
  <2>1. \A q \in due : pc'[q] \in LockLabels => pc'[q] = pc[q] /\ held'[q] = held[q]
    <3> TAKE q \in due
    <3>1. PlacedAt(q.op, pc'[q])
      BY <1>1, NextPlaced DEF PlaceInv, Placed, Still
    <3>2. pc'[q] \in LockLabels => q.op \in CatalogOps
      BY <3>1 DEF PlacedAt, LockLabels, CatalogOps
    <3>. QED  BY <1>1, <3>2 DEF Still, LockLabels
  <2>2. LockInv'
    BY <1>0, <1>1, <2>1 DEF LockInv, Still, LockLabels
  <2>3. NextInv'
    BY <1>0, <1>1, <2>1 DEF NextInv, Still, LockLabels, Working
  <2>4. CatalogsInv'
    BY <1>0, <1>1 DEF CatalogsInv, Still
  <2>. QED  BY <2>2, <2>3, <2>4 DEF ChangesInv
<1>2. CASE Restart
  <2>1. due' = due /\ \A q \in due : pc'[q] \notin LockLabels
    <3>1. /\ due' = due
          /\ \A q \in due : (pc'[q] = pc[q] /\ ~Handled(q)) \/ pc'[q] \in {"done", "reply"}
      BY <1>0, <1>2, RestartSteps
    <3>. QED  BY <1>a, <3>1 DEF Handled, LockLabels
  <2>2. catalog' = file /\ file' = file
    BY <1>2 DEF Restart
  <2>3. CatalogsInv'
    BY <1>0, <2>2, KeepsItself, ValidDistinct DEF CatalogsInv
  <2>. QED  BY <2>1, <2>3 DEF ChangesInv, LockInv, NextInv, Working, LockLabels
<1>3. ASSUME NEW r \in due, CatalogSteps(r), Steps(r, CatalogOps) PROVE ChangesInv'
  <2>1. due' = due /\ \A q \in due \ {r} : pc'[q] = pc[q] /\ held'[q] = held[q]
    BY <1>3 DEF Steps, Moves
  <2>2. CASE Aside(r)
    <3>1. CatalogsInv'
      BY <1>0, <2>2 DEF CatalogsInv, Aside
    <3>2. LockInv'
      BY <1>0, <2>1, <2>2 DEF LockInv, LockLabels, Aside
    <3>3. NextInv'
      BY <1>0, <2>1, <2>2 DEF NextInv, Working, LockLabels, Aside
    <3>. QED  BY <3>1, <3>2, <3>3 DEF ChangesInv
  <2>3. CASE Holding(r)
    <3>1. \A q \in due \ {r} : pc'[q] \notin LockLabels
      BY <1>0, <2>1, <2>3 DEF Holding, CatalogFree, LockInv, LockLabels
    <3>2. LockInv'
      BY <2>1, <3>1 DEF LockInv, LockLabels
    <3>3. NextInv'
      BY <2>1, <2>3, <3>1 DEF NextInv, Working, Holding, LockLabels
    <3>. QED  BY <2>3, <3>2, <3>3 DEF ChangesInv, Holding
  <2>. QED  BY <1>0, <1>3, <2>2, <2>3, CatalogStepHolds
<1>. QED  BY <1>1, <1>2, <1>3, CatalogStep

\* Only saving writes the file.
LEMMA WhoSaves ==
  ASSUME NEW r \in due, CatalogSteps(r)
  PROVE  file' = file \/ SaveCatalog(r)
<1> USE DEF catalogVars, tableVars
<1>1. ASSUME OwnDatabase(r) \/ AuthorizeTable(r) \/ AuthorizePatch(r) \/ AuthorizeFields(r) \/ EnsureFields(r)
             \/ QueryRows(r) \/ AuthorizeRow(r) \/ ReadRow(r)
      PROVE  file' = file
  BY <1>1 DEF OwnDatabase, AuthorizeTable, AuthorizePatch, AuthorizeFields, EnsureFields, QueryRows,
     AuthorizeRow, ReadRow
<1>2. ASSUME AddRow(r) \/ WriteTableRow(r) \/ AuthorizeDelete(r) \/ DeleteTableRow(r)
             \/ CreateDatabase(r) \/ ChangeTables(r) \/ ChangeTable(r) \/ MoveField(r) \/ CreateFields(r)
             \/ ReadRows(r) \/ SyncRow(r)
      PROVE  file' = file
  BY <1>2 DEF AddRow, WriteTableRow, AuthorizeDelete, DeleteTableRow, CreateDatabase, ChangeTables,
     ChangeTable, MoveField, CreateFields, ReadRows, SyncRow
<1>. QED  BY <1>1, <1>2 DEF CatalogSteps

LEMMA FileKeeps ==
  ASSUME PlaceInv, ChangesInv, [Next]_vars
  PROVE  Keeps(file, file')
<1>1. CASE file' = file
  BY <1>1, KeepsItself
<1>2. ASSUME NEW r \in due, SaveCatalog(r) PROVE Keeps(file, file')
  BY <1>2 DEF SaveCatalog, ChangesInv, NextInv, Working, Fits
<1>. QED  BY <1>1, <1>2, CatalogStep, WhoSaves DEF Still, Restart

\* What no change loses: tables and fields stay, with the types of their values,
\* whatever changes of the catalog run at one time, fail or are cut off by a
\* restart: each holds the catalog lock from its read to its write, in
\* src/internal/api/metadata_service.go.
THEOREM FieldsAreKept == Spec => FieldsKept
<1>1. Spec => [](PlaceInv /\ ChangesInv)
  BY InitPlaced, NextPlaced, InitChanges, NextChanges, PTL DEF Spec
<1>2. ASSUME PlaceInv, ChangesInv, [Next]_vars
      PROVE  [\A d \in DOMAIN file : d \in DOMAIN file' /\
                \A t \in DOMAIN file[d] : t \in DOMAIN file'[d] /\
                  \A f \in ToSet(file[d][t].fields) :
                    \E g \in FieldOf(file'[d][t], f.name) : StorageType(g) = StorageType(f)]_vars
  <2>1. Keeps(file, file')
    BY <1>2, FileKeeps
  <2>2. ASSUME NEW d \in DOMAIN file, NEW t \in DOMAIN file[d], NEW f \in ToSet(file[d][t].fields)
        PROVE  f.name # RecordId
    BY <1>2, CatalogAssumption DEF ChangesInv, CatalogsInv, Validate, ValidTable, ValidField
  <2>. QED  BY <2>1, <2>2 DEF Keeps, KeepsTable, FieldOf
<1>. QED  BY <1>1, <1>2, PTL DEF Spec, FieldsKept

-----------------------------------------------------------------------------
(* Columns.                                                                *)

\* What EnsureTable makes of the columns: those that were there stay as they
\* were, and all that the table wants are there.
LEMMA EnsuredColumns ==
  ASSUME NEW p, DOMAIN p = DOMAIN NoTable, NEW table, NEW q, q = EnsureTable(p, table)
  PROVE  /\ DOMAIN q = DOMAIN NoTable
         /\ DOMAIN p.columns \subseteq DOMAIN q.columns
         /\ \A c \in DOMAIN p.columns : q.columns[c] = p.columns[c]
         /\ \A f \in ActiveFields(table) : Column(f.name) \in DOMAIN q.columns
         /\ \A c \in DOMAIN q.columns \ DOMAIN p.columns : \E f \in ActiveFields(table) :
              Column(f.name) = c /\ q.columns[c] = StorageType(f)
<1>1. PICK wanted : wanted = Wanted(p, table)
  OBVIOUS
<1>2. PICK new : new = [c \in {Column(f.name) : f \in wanted} |->
                          StorageType(CHOOSE f \in wanted : Column(f.name) = c)]
  OBVIOUS
<1>3. PICK all : all = Over(p.columns, new)
  OBVIOUS
<1>4. q = [p EXCEPT !.columns = all]
  BY <1>1, <1>2, <1>3 DEF EnsureTable
<1>5. "columns" \in DOMAIN p
  BY DEF NoTable
<1>6. DOMAIN q = DOMAIN NoTable /\ q.columns = all
  BY <1>4, <1>5
<1>7. /\ DOMAIN all = DOMAIN p.columns \cup DOMAIN new
      /\ \A c \in DOMAIN p.columns : all[c] = p.columns[c]
      /\ \A c \in DOMAIN all \ DOMAIN p.columns : c \in DOMAIN new /\ all[c] = new[c]
  BY <1>3 DEF Over
<1>8. \A f \in ActiveFields(table) : Column(f.name) \in DOMAIN all
  BY <1>1, <1>2, <1>7 DEF Wanted
<1>9. ASSUME NEW c \in DOMAIN new
      PROVE  \E f \in ActiveFields(table) : Column(f.name) = c /\ new[c] = StorageType(f)
  <2>1. \E f \in wanted : Column(f.name) = c
    BY <1>2
  <2>2. PICK g : g = CHOOSE f \in wanted : Column(f.name) = c
    OBVIOUS
  <2>3. g \in wanted /\ Column(g.name) = c
    BY <2>1, <2>2
  <2>4. new[c] = StorageType(g)
    BY <1>2, <2>2
  <2>5. g \in ActiveFields(table)
    BY <1>1, <2>3 DEF Wanted
  <2>. QED  BY <2>3, <2>4, <2>5
<1>. QED  BY <1>6, <1>7, <1>8, <1>9

\* Columns that one table wants serve another one that has its fields.
LEMMA EnsuredServes ==
  ASSUME NEW p, DOMAIN p = DOMAIN NoTable, NEW table,
         NEW q, q.columns = EnsureTable(p, table).columns
  PROVE  /\ Complete(q, table)
         /\ \A other : Complete(p, other) => Complete(q, other)
         /\ \A other : Founded(p, other) /\ KeepsTable(table, other) => Founded(q, other)
<1>1. PICK e : e = EnsureTable(p, table)
  OBVIOUS
<1>2. /\ DOMAIN p.columns \subseteq DOMAIN q.columns
      /\ \A c \in DOMAIN p.columns : q.columns[c] = p.columns[c]
      /\ \A f \in ActiveFields(table) : Column(f.name) \in DOMAIN q.columns
      /\ \A c \in DOMAIN q.columns \ DOMAIN p.columns : \E f \in ActiveFields(table) :
           Column(f.name) = c /\ q.columns[c] = StorageType(f)
  <2>1. q.columns = e.columns
    BY <1>1
  <2>. QED  BY <1>1, <2>1, EnsuredColumns
<1>3. Complete(q, table)
  BY <1>2 DEF Complete, Wanted
<1>4. \A other : Complete(p, other) => Complete(q, other)
  BY <1>2 DEF Complete, Wanted
<1>5. ASSUME NEW other, Founded(p, other), KeepsTable(table, other) PROVE Founded(q, other)
  <2> SUFFICES ASSUME NEW c \in DOMAIN q.columns
               PROVE  \E f \in ToSet(other.fields) : Column(f.name) = c /\ StorageType(f) = q.columns[c]
    BY DEF Founded
  <2>1. CASE c \in DOMAIN p.columns
    BY <1>2, <1>5, <2>1 DEF Founded
  <2>2. CASE c \notin DOMAIN p.columns
    <3>1. PICK f \in ActiveFields(table) : Column(f.name) = c /\ q.columns[c] = StorageType(f)
      BY <1>2, <2>2
    <3>2. PICK g \in Named(other.fields, f.name) : StorageType(g) = StorageType(f)
      BY <1>5 DEF KeepsTable, ActiveFields
    <3>. QED  BY <3>1, <3>2 DEF Named
  <2>. QED  BY <2>1, <2>2
<1>. QED  BY <1>3, <1>4, <1>5

LEMMA SameFieldsServe ==
  ASSUME NEW p, NEW table, NEW other, ToSet(table.fields) = ToSet(other.fields)
  PROVE  /\ Complete(p, table) <=> Complete(p, other)
         /\ Founded(p, table) <=> Founded(p, other)
  BY DEF Complete, Founded, Wanted, ActiveFields

-----------------------------------------------------------------------------
(* Columns and metadata.                                                   *)

TableIn(c, key) == c[key[1]][key[2]]
KnownIn(c, key) == Known(c, key[1], key[2])

Ahead(key) == \E a \in ahead : a[1] = key
Alone(r) == \A a \in ahead : a[1] = Key(r) => a[2] = r.id

UpToDate(key, table) == Complete(Physical(key), table) /\ Founded(Physical(key), table)

\* Who has not begun, or moves a field, has left no table half changed.
FreshInv ==
  \A r \in due : r.op \in CatalogOps /\ (pc[r] \in {"start", "change"} \/ r.op = "moveField") =>
    \A a \in ahead : a[2] # r.id

ColumnsInv ==
  /\ \A key \in DOMAIN tables : DOMAIN tables[key] = DOMAIN NoTable
  /\ \A key \in DOMAIN tables : ~Ahead(key) => KnownIn(file, key)
  /\ \A d \in DOMAIN file : \A t \in DOMAIN file[d] : ~Ahead(<<d, t>>) =>
       UpToDate(<<d, t>>, file[d][t]) /\ catalog[d][t].fields = file[d][t].fields

\* What the change that has the lock has made of the columns.
ChangeInv(r) ==
  /\ r.op \in {"addTable", "updateTable"} /\ Working(r) =>
       /\ Key(r) \in DOMAIN tables /\ <<Key(r), r.id>> \in ahead
       /\ Alone(r) => UpToDate(Key(r), TableIn(held[r].next, Key(r)))
  /\ r.op = "moveField" /\ Working(r) =>
       /\ KnownIn(catalog, Key(r))
       /\ ToSet(TableIn(held[r].next, Key(r)).fields) = ToSet(TableIn(catalog, Key(r)).fields)
  /\ r.op = "createFields" /\ pc[r] \in LockLabels =>
       /\ KnownIn(catalog, Key(r))
       /\ Alone(r) => Founded(Physical(Key(r)), TableIn(file, Key(r)))
       /\ pc[r] = "ensure" => catalog = file /\ <<Key(r), r.id>> \in ahead

\* The snapshot of who edits a row: its fields are in the file.
EditInv(r) ==
  r.op \in {"addRow", "editRow", "deleteRow"} /\ pc[r] \in {"insert", "write", "row", "delete"} =>
    KnownIn(file, Key(r)) /\ KeepsTable(held[r].table, TableIn(file, Key(r)))

TablesInv == FreshInv /\ ColumnsInv /\ \A r \in due : ChangeInv(r) /\ EditInv(r)

\* A physical table gets the columns that a table wants.
Writes(key, table) ==
  \E q : /\ tables' = Put(tables, key, q)
         /\ DOMAIN q = DOMAIN NoTable
         /\ q.columns = EnsureTable(Physical(key), table).columns

LEMMA WrittenColumns ==
  ASSUME ColumnsInv, NEW key, NEW table, Writes(key, table)
  PROVE  /\ DOMAIN tables' = DOMAIN tables \cup {key}
         /\ \A k \in DOMAIN tables' : DOMAIN tables'[k] = DOMAIN NoTable
         /\ \A k : k # key => Physical(k)' = Physical(k)
         /\ UpToDate(key, table)' <=> Founded(Physical(key)', table)
         /\ \A other : Complete(Physical(key), other) => Complete(Physical(key)', other)
         /\ \A other : Founded(Physical(key), other) /\ KeepsTable(table, other) => Founded(Physical(key)', other)
<1>1. PICK p : p = Physical(key)
  OBVIOUS
<1>2. PICK q : /\ tables' = Put(tables, key, q) /\ DOMAIN q = DOMAIN NoTable
               /\ q.columns = EnsureTable(p, table).columns
  BY <1>1 DEF Writes
<1>3. DOMAIN p = DOMAIN NoTable
  BY <1>1 DEF ColumnsInv, Physical
<1>4. /\ DOMAIN tables' = DOMAIN tables \cup {key} /\ tables'[key] = q
      /\ \A k \in DOMAIN tables : k # key => tables'[k] = tables[k]
  BY <1>2 DEF Put
<1>5. Physical(key)' = q /\ \A k : k # key => Physical(k)' = Physical(k)
  BY <1>4 DEF Physical
<1>6. \A k \in DOMAIN tables' : DOMAIN tables'[k] = DOMAIN NoTable
  BY <1>2, <1>4 DEF ColumnsInv
<1>7. /\ Complete(q, table)
      /\ \A other : Complete(p, other) => Complete(q, other)
      /\ \A other : Founded(p, other) /\ KeepsTable(table, other) => Founded(q, other)
  BY <1>2, <1>3, EnsuredServes
<1>8. Physical(key)' = q /\ Complete(Physical(key)', table)
  BY <1>5, <1>7
<1>9. UpToDate(key, table)' <=> Founded(Physical(key)', table)
  <2>1. UpToDate(key, table)' <=> Complete(Physical(key)', table) /\ Founded(Physical(key)', table)
    BY DEF UpToDate
  <2>. QED  BY <1>8, <2>1
<1>. QED  BY <1>1, <1>4, <1>5, <1>6, <1>7, <1>9

\* The columns of all tables stay and serve whom they served, and whoever has
\* them more.
Lasting ==
  \A key, table : (KnownIn(file, key) => KeepsTable(TableIn(file, key), table)) =>
    /\ Complete(Physical(key), table) => Complete(Physical(key)', table)
    /\ Founded(Physical(key), table) => Founded(Physical(key)', table)
Growing ==
  /\ Lasting
  /\ DOMAIN tables \subseteq DOMAIN tables'
  /\ \A key \in DOMAIN tables' :
       DOMAIN tables'[key] = DOMAIN NoTable /\ (key \in DOMAIN tables \/ KnownIn(file, key))

LEMMA SameTablesGrow ==
  ASSUME ColumnsInv, tables' = tables
  PROVE  Growing
<1>1. \A key : Physical(key)' = Physical(key)
  BY DEF Physical
<1>. QED  BY <1>1 DEF Growing, Lasting, ColumnsInv

LEMMA WritesGrow ==
  ASSUME ColumnsInv, NEW key, NEW table, Writes(key, table), KnownIn(file, key),
         KeepsTable(table, TableIn(file, key))
  PROVE  Growing
<1>1. /\ DOMAIN tables' = DOMAIN tables \cup {key}
      /\ \A k \in DOMAIN tables' : DOMAIN tables'[k] = DOMAIN NoTable
      /\ \A k : k # key => Physical(k)' = Physical(k)
      /\ \A other : Complete(Physical(key), other) => Complete(Physical(key)', other)
      /\ \A other : Founded(Physical(key), other) /\ KeepsTable(table, other) => Founded(Physical(key)', other)
  BY WrittenColumns
<1>2. ASSUME NEW k, NEW other, KnownIn(file, k) => KeepsTable(TableIn(file, k), other)
      PROVE  /\ Complete(Physical(k), other) => Complete(Physical(k)', other)
             /\ Founded(Physical(k), other) => Founded(Physical(k)', other)
  <2>1. CASE k = key
    <3>1. KeepsTable(table, other)
      BY <1>2, <2>1, KeepsTableOn
    <3>. QED  BY <1>1, <2>1, <3>1
  <2>2. CASE k # key
    BY <1>1, <2>2
  <2>. QED  BY <2>1, <2>2
<1>3. Lasting
  BY <1>2 DEF Lasting
<1>. QED  BY <1>1, <1>3 DEF Growing

LEMMA GrowingColumns ==
  ASSUME CatalogsInv, ColumnsInv, Growing, file' = file, ahead \subseteq ahead',
         \A d \in DOMAIN file : \A t \in DOMAIN file[d] :
           ~Ahead(<<d, t>>)' => catalog'[d][t].fields = catalog[d][t].fields
  PROVE  ColumnsInv'
<1>1. \A key : ~Ahead(key)' => ~Ahead(key)
  BY DEF Ahead
<1>2. \A key \in DOMAIN tables' : DOMAIN tables'[key] = DOMAIN NoTable
  BY DEF Growing
<1>3. ASSUME NEW key \in DOMAIN tables', ~Ahead(key)' PROVE KnownIn(file', key)
  BY <1>1, <1>3 DEF Growing, ColumnsInv
<1>4. ASSUME NEW d \in DOMAIN file, NEW t \in DOMAIN file[d], ~Ahead(<<d, t>>)'
      PROVE  UpToDate(<<d, t>>, file[d][t])' /\ catalog'[d][t].fields = file[d][t].fields
  <2>1. UpToDate(<<d, t>>, file[d][t]) /\ catalog[d][t].fields = file[d][t].fields
    BY <1>1, <1>4 DEF ColumnsInv
  <2>2. PICK table : table = file[d][t] /\ table = TableIn(file, <<d, t>>)
    BY DEF TableIn
  <2>3. Complete(Physical(<<d, t>>)', table) /\ Founded(Physical(<<d, t>>)', table)
    BY <2>1, <2>2, KeepsItself DEF Growing, Lasting, UpToDate
  <2>4. file'[d][t] = table
    BY <2>2
  <2>5. UpToDate(<<d, t>>, file[d][t])' <=> Complete(Physical(<<d, t>>)', table) /\ Founded(Physical(<<d, t>>)', table)
    BY <2>4 DEF UpToDate
  <2>. QED  BY <1>4, <2>1, <2>3, <2>5
<1>5. \A d \in DOMAIN file : \A t \in DOMAIN file[d] : ~Ahead(<<d, t>>)' =>
        UpToDate(<<d, t>>, file[d][t])' /\ catalog'[d][t].fields = file'[d][t].fields
  BY <1>4
<1>. QED  BY <1>2, <1>3, <1>5 DEF ColumnsInv

\* A change whose request is not at the lock has no part in it.
LEMMA NotChanging ==
  ASSUME NEW r, pc'[r] \notin LockLabels
  PROVE  ChangeInv(r)'
  BY DEF ChangeInv, Working, LockLabels

LEMMA GrowingChange ==
  ASSUME CatalogsInv, NextInv, Growing, UNCHANGED <<file, catalog, ahead>>, NEW r \in due,
         ChangeInv(r), pc'[r] = pc[r], held'[r] = held[r]
  PROVE  ChangeInv(r)'
<1>1. PICK key : key = Key(r)
  OBVIOUS
<1>2. Alone(r)' <=> Alone(r)
  BY DEF Alone
<1>3. (Working(r)' <=> Working(r)) /\ (pc'[r] \in LockLabels' <=> pc[r] \in LockLabels)
  BY DEF Working, LockLabels
<1>4. ASSUME r.op \in {"addTable", "updateTable"}, Working(r)
      PROVE  /\ key \in DOMAIN tables' /\ <<key, r.id>> \in ahead'
             /\ Alone(r)' => UpToDate(key, TableIn(held[r].next, key))'
  <2>1. /\ key \in DOMAIN tables /\ <<key, r.id>> \in ahead
        /\ Alone(r) => UpToDate(key, TableIn(held[r].next, key))
    BY <1>1, <1>4 DEF ChangeInv
  <2>2. PICK table : table = TableIn(held[r].next, key)
    OBVIOUS
  <2>3. KnownIn(file, key) => KeepsTable(TableIn(file, key), table)
    BY <1>4, <2>2 DEF NextInv, Fits, Keeps, KnownIn, Known, TableIn
  <2>4. UpToDate(key, table) => Complete(Physical(key)', table) /\ Founded(Physical(key)', table)
    BY <2>3 DEF Growing, Lasting, UpToDate
  <2>5. TableIn(held[r].next, key)' = table
    BY <2>2 DEF TableIn
  <2>6. UpToDate(key, TableIn(held[r].next, key))'
          <=> Complete(Physical(key)', table) /\ Founded(Physical(key)', table)
    BY <2>5 DEF UpToDate
  <2>. QED  BY <1>2, <2>1, <2>2, <2>4, <2>6 DEF Growing
<1>5. ASSUME r.op = "createFields", pc[r] \in LockLabels
      PROVE  Alone(r)' => Founded(Physical(key), TableIn(file, key))'
  <2>1. PICK table : table = TableIn(file, key)
    OBVIOUS
  <2>2. Founded(Physical(key), table) => Founded(Physical(key)', table)
    BY <2>1, KeepsItself DEF Growing, Lasting
  <2>3. TableIn(file, key)' = table
    BY <2>1 DEF TableIn
  <2>4. Founded(Physical(key), TableIn(file, key))' <=> Founded(Physical(key)', table)
    BY <2>3
  <2>. QED  BY <1>1, <1>2, <1>5, <2>1, <2>2, <2>4 DEF ChangeInv
<1>6. /\ r.op = "moveField" /\ Working(r) =>
           /\ KnownIn(catalog, key)
           /\ ToSet(TableIn(held[r].next, key).fields) = ToSet(TableIn(catalog, key).fields)
      /\ r.op = "createFields" /\ pc[r] \in LockLabels =>
           KnownIn(catalog, key) /\ (pc[r] = "ensure" => catalog = file /\ <<key, r.id>> \in ahead)
  BY <1>1 DEF ChangeInv
<1>7. Key(r)' = key
  BY <1>1 DEF Key
<1>8. /\ r.op \in {"addTable", "updateTable"} /\ Working(r)' =>
           /\ Key(r)' \in DOMAIN tables' /\ <<Key(r)', r.id>> \in ahead'
           /\ Alone(r)' => UpToDate(key, TableIn(held[r].next, key))'
  BY <1>3, <1>4, <1>7
<1>9. r.op = "moveField" /\ Working(r)' =>
        /\ KnownIn(catalog', key)
        /\ ToSet(TableIn(held'[r].next, key).fields) = ToSet(TableIn(catalog', key).fields)
  BY <1>3, <1>6
<1>10. r.op = "createFields" /\ pc'[r] \in LockLabels =>
         /\ KnownIn(catalog', key)
         /\ Alone(r)' => Founded(Physical(key), TableIn(file, key))'
         /\ pc'[r] = "ensure" => catalog' = file' /\ <<key, r.id>> \in ahead'
  BY <1>3, <1>5, <1>6 DEF LockLabels
<1>. QED  BY <1>1, <1>8, <1>9, <1>10 DEF ChangeInv

\* Edits go on with a snapshot that the file has kept.
LEMMA EditsGoOn ==
  ASSUME Keeps(file, file'), NEW r, EditInv(r), pc'[r] = pc[r], held'[r] = held[r]
  PROVE  EditInv(r)'
<1> SUFFICES ASSUME r.op \in {"addRow", "editRow", "deleteRow"}, pc[r] \in {"insert", "write", "row", "delete"}
             PROVE  KnownIn(file', Key(r)) /\ KeepsTable(held[r].table, TableIn(file', Key(r)))
  BY DEF EditInv, Key
<1>1. KnownIn(file, Key(r)) /\ KeepsTable(held[r].table, TableIn(file, Key(r)))
  BY DEF EditInv
<1>2. KnownIn(file', Key(r)) /\ KeepsTable(TableIn(file, Key(r)), TableIn(file', Key(r)))
  BY <1>1 DEF Keeps, KnownIn, Known, TableIn
<1>. QED  BY <1>1, <1>2, KeepsTableOn

\* What is founded on the fields of a table is so on those of one that keeps them.
LEMMA FoundedOn ==
  ASSUME NEW p, NEW old, NEW new, Founded(p, old), KeepsTable(old, new)
  PROVE  Founded(p, new)
<1> SUFFICES ASSUME NEW c \in DOMAIN p.columns
             PROVE  \E g \in ToSet(new.fields) : Column(g.name) = c /\ StorageType(g) = p.columns[c]
  BY DEF Founded
<1>1. PICK f \in ToSet(old.fields) : Column(f.name) = c /\ StorageType(f) = p.columns[c]
  BY DEF Founded
<1>2. PICK g \in Named(new.fields, f.name) : StorageType(g) = StorageType(f)
  BY DEF KeepsTable
<1>. QED  BY <1>1, <1>2 DEF Named

\* A step that takes no part in a change.
LEMMA GrowingStep ==
  ASSUME CatalogsInv, NextInv, TablesInv, Growing, UNCHANGED <<file, catalog, ahead>>,
         \A q \in due : (pc'[q] = pc[q] /\ held'[q] = held[q]) \/ pc'[q] \notin LockLabels
  PROVE  ColumnsInv' /\ \A q \in due : ChangeInv(q)'
<1>1. ColumnsInv'
  BY GrowingColumns DEF TablesInv
<1>2. ASSUME NEW q \in due PROVE ChangeInv(q)'
  BY GrowingChange, NotChanging DEF TablesInv
<1>. QED  BY <1>1, <1>2

LEMMA MoveFieldColumns ==
  ASSUME Progressing, CatalogsInv, TablesInv, NEW r \in due, MoveField(r)
  PROVE  ColumnsInv' /\ ChangeInv(r)'
<1>1. r.op = "moveField" /\ UNCHANGED <<catalog, file, tables, ahead>>
  BY DEF MoveField, At, catalogVars, tableVars, catalogHistory
<1>2. PICK next : next = MovedCatalog(r) /\ Proceed(r, next, "save")
  BY DEF MoveField, MovedCatalog
<1>3. ColumnsInv'
  BY <1>1, SameTablesGrow, GrowingColumns DEF TablesInv
<1>4. CASE next = Refused
  <2>1. pc'[r] \notin LockLabels
    BY <1>2, <1>4 DEF Proceed, Answer, Progressing, LockLabels
  <2>. QED  BY <1>3, <2>1, NotChanging
<1>5. CASE next # Refused
  <2>1. /\ KnownIn(catalog, Key(r))
        /\ ToSet(TableIn(next, Key(r)).fields) = ToSet(TableIn(catalog, Key(r)).fields)
    <3>1. Key(r) = <<r.db, r.table>>
      BY <1>1 DEF Key
    <3>. QED  BY <1>1, <1>2, <1>5, <3>1, MovedCatalogFits DEF KnownIn, TableIn
  <2>2. held'[r].next = next
    BY <1>2, <1>5 DEF Proceed, Goto, Progressing
  <2>3. Key(r)' = Key(r)
    BY DEF Key
  <2>4. ChangeInv(r)'
    BY <1>1, <2>1, <2>2, <2>3 DEF ChangeInv, KnownIn, TableIn
  <2>. QED  BY <1>3, <2>4
<1>. QED  BY <1>4, <1>5

LEMMA UpToDateColumns ==
  ASSUME Progressing, CatalogsInv, TablesInv, NEW r \in due,
         r.op \in {"addTable", "updateTable"}, pc[r] = "change", UNCHANGED <<catalog, file>>,
         NEW next, next # Refused, Fits(next, r, catalog, file),
         r.op = "addTable" => ~KnownIn(catalog, Key(r)),
         r.op = "updateTable" => KnownIn(catalog, Key(r)),
         NEW sync, BringUpToDate(r, next, sync)
  PROVE  ColumnsInv' /\ ChangeInv(r)'
<1>1. PICK key : key = Key(r) /\ key[1] = r.db
  BY DEF Key
<1>2. PICK table : table = TableIn(next, key) /\ table = next[r.db][Key(r)[2]]
  BY <1>1 DEF TableIn
<1>3. /\ tables' = Put(tables, key, EnsureTable(Physical(key), table))
      /\ ahead' = ahead \cup {<<key, r.id>>}
      /\ \/ Answer(r, "invalid")
         \/ \E label : Proceed(r, next, label)
  BY <1>1, <1>2 DEF BringUpToDate, SetTable
<1>4. Writes(key, table)
  <2>1. PICK q : q = EnsureTable(Physical(key), table)
    OBVIOUS
  <2>2. DOMAIN Physical(key) = DOMAIN NoTable
    BY DEF TablesInv, ColumnsInv, Physical
  <2>3. DOMAIN q = DOMAIN NoTable
    BY <2>1, <2>2, EnsuredColumns
  <2>. QED  BY <1>3, <2>1, <2>3 DEF Writes
<1>5. /\ DOMAIN tables' = DOMAIN tables \cup {key}
      /\ \A k \in DOMAIN tables' : DOMAIN tables'[k] = DOMAIN NoTable
      /\ \A k : k # key => Physical(k)' = Physical(k)
      /\ UpToDate(key, table)' <=> Founded(Physical(key)', table)
      /\ Founded(Physical(key), table) => Founded(Physical(key)', table)
  BY <1>4, WrittenColumns, KeepsItself DEF TablesInv
<1>6. Ahead(key)' /\ \A k : Ahead(k) => Ahead(k)'
  <2>1. PICK a : a = <<key, r.id>>
    OBVIOUS
  <2>2. a \in ahead' /\ a[1] = key /\ ahead \subseteq ahead'
    BY <1>3, <2>1
  <2>. QED  BY <2>2 DEF Ahead
<1>7. ASSUME NEW d \in DOMAIN file, NEW t \in DOMAIN file[d], ~Ahead(<<d, t>>)'
      PROVE  UpToDate(<<d, t>>, file[d][t])' /\ catalog'[d][t].fields = file'[d][t].fields
  <2>1. UpToDate(<<d, t>>, file[d][t]) /\ catalog[d][t].fields = file[d][t].fields
    BY <1>6, <1>7 DEF TablesInv, ColumnsInv
  <2>2. Physical(<<d, t>>)' = Physical(<<d, t>>)
    BY <1>5, <1>6, <1>7
  <2>3. file'[d][t] = file[d][t]
    OBVIOUS
  <2>. QED  BY <2>1, <2>2, <2>3 DEF UpToDate
<1>8. ASSUME NEW k \in DOMAIN tables', ~Ahead(k)' PROVE KnownIn(file', k)
  BY <1>5, <1>6, <1>8 DEF TablesInv, ColumnsInv
<1>9. ColumnsInv'
  BY <1>5, <1>7, <1>8 DEF ColumnsInv
<1>10. CASE Answer(r, "invalid")
  <2>1. pc'[r] \notin LockLabels
    BY <1>10 DEF Answer, Progressing, LockLabels
  <2>. QED  BY <1>9, <2>1, NotChanging
<1>11. ASSUME NEW label, Proceed(r, next, label) PROVE ChangeInv(r)'
  <2>1. held'[r].next = next
    BY <1>11 DEF Proceed, Goto, Progressing
  <2>2. ASSUME Alone(r)' PROVE UpToDate(key, table)'
    <3>1. ~Ahead(key)
      <4>1. \A a \in ahead : a[2] # r.id
        BY DEF TablesInv, FreshInv, CatalogOps
      <4>2. \A a \in ahead : a[1] = key => a[2] = r.id
        BY <1>1, <1>3, <2>2 DEF Alone, Key
      <4>. QED  BY <4>1, <4>2 DEF Ahead
    <3>2. Founded(Physical(key), table)
      <4>1. CASE r.op = "addTable"
        <5>1. ~KnownIn(file, key)
          BY <1>1, <4>1 DEF CatalogsInv, Keeps, KnownIn, Known
        <5>2. Physical(key).columns = <<>>
          BY <3>1, <5>1 DEF TablesInv, ColumnsInv, Physical, NoTable
        <5>3. DOMAIN Physical(key).columns = {}
          BY <5>2
        <5>. QED  BY <5>3 DEF Founded
      <4>2. CASE r.op = "updateTable"
        <5>1. KnownIn(file, key)
          BY <1>1, <4>2 DEF CatalogsInv, Keeps, KnownIn, Known
        <5>2. PICK old : old = TableIn(file, key)
          OBVIOUS
        <5>3. key = <<key[1], key[2]>>
          BY <1>1 DEF Key
        <5>4. Founded(Physical(key), old)
          BY <3>1, <5>1, <5>2, <5>3 DEF TablesInv, ColumnsInv, UpToDate, KnownIn, Known, TableIn
        <5>5. KeepsTable(old, table)
          BY <1>2, <5>1, <5>2 DEF Fits, Keeps, KnownIn, Known, TableIn
        <5>. QED  BY <5>4, <5>5, FoundedOn
      <4>. QED  BY <4>1, <4>2
    <3>. QED  BY <1>5, <3>2
  <2>3. TableIn(held[r].next, key)' = table
    BY <1>2, <2>1 DEF TableIn
  <2>4. UpToDate(key, TableIn(held[r].next, key))' <=> UpToDate(key, table)'
    BY <2>3 DEF UpToDate
  <2>5. Key(r)' = key
    BY <1>1 DEF Key
  <2>6. key \in DOMAIN tables' /\ <<key, r.id>> \in ahead'
    BY <1>3, <1>5
  <2>. QED  BY <1>1, <2>2, <2>4, <2>5, <2>6 DEF ChangeInv
<1>. QED  BY <1>3, <1>9, <1>10, <1>11

LEMMA ChangeTablesColumns ==
  ASSUME Progressing, CatalogsInv, TablesInv, NEW r \in due, ChangeTables(r) \/ ChangeTable(r)
  PROVE  ColumnsInv' /\ ChangeInv(r)'
<1>1. UNCHANGED <<catalog, file>> /\ pc[r] = "change"
  BY DEF ChangeTables, ChangeTable, At, storeVars, accessVars, accessHistory
<1>2. ASSUME NEW outcome, Answer(r, outcome), UNCHANGED <<tables, ahead>>
      PROVE  ColumnsInv' /\ ChangeInv(r)'
  <2>1. pc'[r] \notin LockLabels
    BY <1>2 DEF Answer, Progressing, LockLabels
  <2>2. ColumnsInv'
    BY <1>1, <1>2, SameTablesGrow, GrowingColumns DEF TablesInv
  <2>. QED  BY <2>1, <2>2, NotChanging
<1>3. CASE ChangeTables(r)
  <2>1. r.op = "addTable" /\ IsTable(r.table)
    BY <1>3, CatalogAssumption DEF ChangeTables, At, Progressing
  <2>2. PICK next : next = AddTable(catalog, r.db, r.table)
    OBVIOUS
  <2>3. CASE next = Refused
    BY <1>2, <1>3, <2>2, <2>3 DEF ChangeTables
  <2>4. CASE next # Refused
    <3>1. /\ ~Known(catalog, r.db, r.table.name)
          /\ Validate(next) /\ IsCatalog(next) /\ Keeps(catalog, next)
          /\ Replaces(catalog, next, r.db, r.table)
      BY <2>1, <2>2, <2>4, AddTableKeeps DEF CatalogsInv
    <3>2. Key(r)[1] = r.db /\ Key(r)[2] = r.table.name
      BY <2>1 DEF Key
    <3>3. Fits(next, r, catalog, file)
      BY <2>1, <3>1, <3>2, ReplacesFits DEF CatalogsInv
    <3>4. BringUpToDate(r, next, TRUE)
      BY <1>3, <2>2, <2>4 DEF ChangeTables
    <3>. QED  BY <1>1, <2>1, <2>4, <3>1, <3>2, <3>3, <3>4, UpToDateColumns DEF KnownIn
  <2>. QED  BY <2>3, <2>4
<1>4. CASE ChangeTable(r)
  <2>1. r.op = "updateTable"
    BY <1>4 DEF ChangeTable, At
  <2>2. PICK patch : patch = PatchOf(r) /\ IsPatch(patch)
    BY <2>1, PatchIsDecoded
  <2>3. PICK next : next = MergeTable(catalog, r.db, r.table, patch)
    OBVIOUS
  <2>4. CASE next = Refused
    BY <1>2, <1>4, <2>2, <2>3, <2>4 DEF ChangeTable
  <2>5. CASE next # Refused
    <3>1. PICK table : /\ Known(catalog, r.db, r.table)
                       /\ Validate(next) /\ IsCatalog(next) /\ Keeps(catalog, next)
                       /\ Replaces(catalog, next, r.db, table) /\ table.name = r.table
      BY <2>2, <2>3, <2>5, MergeTableKeeps DEF CatalogsInv
    <3>2. Key(r)[1] = r.db /\ Key(r)[2] = r.table
      BY <2>1 DEF Key
    <3>3. Fits(next, r, catalog, file)
      BY <2>1, <3>1, <3>2, ReplacesFits DEF CatalogsInv
    <3>4. \E sync : BringUpToDate(r, next, sync)
      BY <1>4, <2>2, <2>3, <2>5 DEF ChangeTable
    <3>. QED  BY <1>1, <2>1, <2>5, <3>1, <3>2, <3>3, <3>4, UpToDateColumns DEF KnownIn
  <2>. QED  BY <2>4, <2>5
<1>. QED  BY <1>3, <1>4

LEMMA KeyIsPair == \A r : Key(r) = <<Key(r)[1], Key(r)[2]>>
  BY DEF Key

LEMMA SaveColumns ==
  ASSUME PlaceInv, ChangesInv, TablesInv, NEW r \in due, SaveCatalog(r)
  PROVE  ColumnsInv' /\ ChangeInv(r)'
<1>1. PICK key : key = Key(r) /\ key = <<key[1], key[2]>>
  BY KeyIsPair
<1>2. PICK next : next = held[r].next
  OBVIOUS
<1>3. pc[r] = "save" /\ file' = next /\ catalog' = next /\ tables' = tables
  BY <1>2 DEF SaveCatalog
<1>4. r.op \in {"createDatabase", "addTable", "updateTable", "moveField", "createFields"}
  BY <1>3 DEF PlaceInv, Placed, PlacedAt
<1>5. Fits(next, r, catalog, file) /\ CatalogsInv
  BY <1>2, <1>3 DEF ChangesInv, NextInv, Working
<1>6. \A k : Physical(k)' = Physical(k)
  BY <1>3 DEF Physical
<1>7. /\ r.op = "createDatabase" => ahead' = ahead
      /\ r.op = "createFields" => ahead' = ahead \cup {<<key, r.id>>}
      /\ r.op \in {"addTable", "updateTable", "moveField"} => ahead' = ahead \ {<<key, r.id>>}
  BY <1>1, <1>4 DEF SaveCatalog
<1>8. \A a \in ahead : a[1] # key => a \in ahead'
  BY <1>4, <1>7
<1>9. \A k : k # key /\ ~Ahead(k)' => ~Ahead(k)
  BY <1>8 DEF Ahead
<1>10. r.op = "createFields" => Ahead(key)'
  <2>1. PICK a : a = <<key, r.id>>
    OBVIOUS
  <2>2. a[1] = key
    BY <2>1
  <2>. QED  BY <1>7, <2>1, <2>2 DEF Ahead
<1>11. ASSUME NEW k \in DOMAIN tables', ~Ahead(k)' PROVE KnownIn(file', k)
  <2>1. CASE k = key /\ r.op # "createDatabase"
    BY <1>1, <1>3, <1>5, <2>1 DEF Fits, KnownIn
  <2>2. CASE ~(k = key /\ r.op # "createDatabase")
    <3>1. ~Ahead(k)
      BY <1>7, <1>9, <1>11, <2>2 DEF Ahead
    <3>2. KnownIn(file, k)
      BY <1>3, <3>1 DEF TablesInv, ColumnsInv
    <3>. QED  BY <1>3, <1>5, <3>2 DEF Fits, Keeps, KnownIn, Known
  <2>. QED  BY <2>1, <2>2
\* A table that is no part of any change is as it was.
<1>12. ASSUME NEW d, NEW t, Known(catalog, d, t), ~Ahead(<<d, t>>)
       PROVE  UpToDate(<<d, t>>, catalog[d][t])
  <2>1. Known(file, d, t)
    BY <1>5, <1>12 DEF CatalogsInv, Keeps, Known
  <2>2. UpToDate(<<d, t>>, file[d][t]) /\ catalog[d][t].fields = file[d][t].fields
    BY <1>12, <2>1 DEF TablesInv, ColumnsInv, Known
  <2>. QED  BY <2>2, SameFieldsServe DEF UpToDate
<1>13. ASSUME NEW d \in DOMAIN next, NEW t \in DOMAIN next[d], ~Ahead(<<d, t>>)'
       PROVE  UpToDate(<<d, t>>, next[d][t])
  <2>1. CASE r.op = "createDatabase" \/ <<d, t>> # key
    <3>1. Known(catalog, d, t) /\ next[d][t] = catalog[d][t]
      BY <1>1, <1>5, <2>1 DEF Fits
    <3>2. ~Ahead(<<d, t>>)
      BY <1>7, <1>9, <1>13, <2>1 DEF Ahead
    <3>. QED  BY <1>12, <3>1, <3>2
  <2>2. CASE r.op \in {"addTable", "updateTable"} /\ <<d, t>> = key
    <3>1. Alone(r)
      <4>1. ASSUME NEW a \in ahead, a[1] = key PROVE a[2] = r.id
        <5>1. a \notin ahead'
          BY <1>13, <2>2, <4>1 DEF Ahead
        <5>2. a = <<key, r.id>>
          BY <1>7, <2>2, <5>1
        <5>. QED  BY <5>2
      <4>. QED  BY <1>1, <4>1 DEF Alone
    <3>2. UpToDate(key, TableIn(next, key))
      BY <1>1, <1>2, <1>3, <2>2, <3>1 DEF TablesInv, ChangeInv, Working
    <3>3. TableIn(next, key) = next[d][t]
      BY <2>2 DEF TableIn
    <3>. QED  BY <2>2, <3>2, <3>3
  <2>3. CASE r.op = "moveField" /\ <<d, t>> = key
    <3>1. \A a \in ahead : a[2] # r.id
      BY <2>3 DEF TablesInv, FreshInv, CatalogOps
    <3>2. ~Ahead(key)
      <4>1. ASSUME NEW a \in ahead, a[1] = key PROVE a \in ahead'
        <5>1. a # <<key, r.id>>
          BY <3>1
        <5>. QED  BY <1>7, <2>3, <5>1
      <4>. QED  BY <1>13, <2>3, <4>1 DEF Ahead
    <3>3. /\ KnownIn(catalog, key)
          /\ ToSet(TableIn(next, key).fields) = ToSet(TableIn(catalog, key).fields)
      BY <1>1, <1>2, <1>3, <2>3 DEF TablesInv, ChangeInv, Working
    <3>4. Known(catalog, d, t) /\ ToSet(next[d][t].fields) = ToSet(catalog[d][t].fields)
      <4>1. key[1] = d /\ key[2] = t
        BY <2>3
      <4>. QED  BY <3>3, <4>1 DEF KnownIn, TableIn
    <3>5. UpToDate(<<d, t>>, catalog[d][t])
      BY <1>12, <2>3, <3>2, <3>4
    <3>. QED  BY <3>4, <3>5, SameFieldsServe DEF UpToDate
  <2>4. CASE r.op = "createFields" /\ <<d, t>> = key
    BY <1>10, <1>13, <2>4
  <2>. QED  BY <1>4, <2>1, <2>2, <2>3, <2>4
<1>14. ASSUME NEW d \in DOMAIN file', NEW t \in DOMAIN file'[d], ~Ahead(<<d, t>>)'
       PROVE  UpToDate(<<d, t>>, file[d][t])' /\ catalog'[d][t].fields = file'[d][t].fields
  <2>1. UpToDate(<<d, t>>, next[d][t])
    BY <1>3, <1>13, <1>14
  <2>2. file'[d][t] = next[d][t] /\ Physical(<<d, t>>)' = Physical(<<d, t>>)
    BY <1>3, <1>6
  <2>. QED  BY <1>3, <2>1, <2>2 DEF UpToDate
<1>15. ColumnsInv'
  BY <1>3, <1>11, <1>14 DEF ColumnsInv, TablesInv
<1>16. ChangeInv(r)'
  <2>1. CASE r.op # "createFields"
    <3>1. pc'[r] \notin LockLabels
      BY <1>4, <2>1 DEF SaveCatalog, Goto, Answer, PlaceInv, Progressing, LockLabels
    <3>. QED  BY <3>1, NotChanging
  <2>2. CASE r.op = "createFields"
    <3>1. KnownIn(next, key)
      BY <1>1, <1>5, <2>2 DEF Fits, KnownIn
    <3>2. ASSUME Alone(r)' PROVE Founded(Physical(key), TableIn(next, key))
      <4>1. Alone(r)
        BY <1>7, <2>2, <3>2 DEF Alone, Key
      <4>2. KnownIn(catalog, key) /\ Founded(Physical(key), TableIn(file, key))
        BY <1>1, <1>3, <2>2, <4>1 DEF TablesInv, ChangeInv, LockLabels
      <4>3. KnownIn(file, key)
        BY <1>5, <4>2 DEF CatalogsInv, Keeps, KnownIn, Known
      <4>4. KeepsTable(TableIn(file, key), TableIn(next, key))
        BY <1>5, <4>3 DEF Fits, Keeps, KnownIn, Known, TableIn
      <4>. QED  BY <4>2, <4>4, FoundedOn
    <3>3. Founded(Physical(key), TableIn(file, key))' <=> Founded(Physical(key), TableIn(next, key))
      <4>1. TableIn(file, key)' = TableIn(next, key)
        BY <1>3 DEF TableIn
      <4>2. Physical(key)' = Physical(key)
        BY <1>6
      <4>. QED  BY <4>1, <4>2 DEF Founded
    <3>4. Key(r)' = key
      BY <1>1 DEF Key
    <3>5. <<key, r.id>> \in ahead' /\ catalog' = file' /\ KnownIn(catalog', key)
      BY <1>3, <1>7, <2>2, <3>1
    <3>. QED  BY <1>1, <2>2, <3>2, <3>3, <3>4, <3>5 DEF ChangeInv
  <2>. QED  BY <2>1, <2>2
<1>. QED  BY <1>15, <1>16

LEMMA EnsureFieldsColumns ==
  ASSUME PlaceInv, CatalogsInv, TablesInv, NEW r \in due, EnsureFields(r)
  PROVE  ColumnsInv' /\ ChangeInv(r)'
<1>1. r.op = "createFields" /\ pc[r] = "ensure" /\ UNCHANGED <<catalog, file>> /\ pc'[r] = "done"
  BY DEF EnsureFields, At, Answer, PlaceInv, Progressing, storeVars, accessVars, accessHistory
<1>2. PICK key : key = Key(r) /\ key = <<key[1], key[2]>> /\ key[1] = r.db /\ key[2] = r.table
  <2>1. Key(r)[1] = r.db /\ Key(r)[2] = r.table
    BY <1>1 DEF Key
  <2>. QED  BY <2>1, KeyIsPair
<1>3. /\ KnownIn(catalog, key) /\ catalog = file
      /\ Alone(r) => Founded(Physical(key), TableIn(file, key))
  BY <1>1, <1>2 DEF TablesInv, ChangeInv, LockLabels
<1>4. PICK table : table = TableIn(file, key) /\ table = catalog[r.db][r.table]
  BY <1>2, <1>3 DEF TableIn
<1>5. Writes(key, table)
  <2>1. PICK q : q = EnsureTable(Physical(key), table)
    OBVIOUS
  <2>2. DOMAIN Physical(key) = DOMAIN NoTable
    BY DEF TablesInv, ColumnsInv, Physical
  <2>3. DOMAIN q = DOMAIN NoTable
    BY <2>1, <2>2, EnsuredColumns
  <2>4. tables' = Put(tables, key, q)
    BY <1>2, <1>4, <2>1 DEF EnsureFields, SetTable
  <2>. QED  BY <2>1, <2>3, <2>4 DEF Writes
<1>6. /\ DOMAIN tables' = DOMAIN tables \cup {key}
      /\ \A k \in DOMAIN tables' : DOMAIN tables'[k] = DOMAIN NoTable
      /\ \A k : k # key => Physical(k)' = Physical(k)
      /\ UpToDate(key, table)' <=> Founded(Physical(key)', table)
      /\ Founded(Physical(key), table) => Founded(Physical(key)', table)
  BY <1>5, WrittenColumns, KeepsItself DEF TablesInv
<1>7. ahead' = ahead \ {<<key, r.id>>}
  BY <1>2 DEF EnsureFields
<1>8. \A k : k # key /\ ~Ahead(k)' => ~Ahead(k)
  BY <1>7 DEF Ahead
<1>9. ASSUME NEW k \in DOMAIN tables', ~Ahead(k)' PROVE KnownIn(file', k)
  BY <1>1, <1>3, <1>6, <1>8, <1>9 DEF TablesInv, ColumnsInv
<1>10. ASSUME NEW d \in DOMAIN file, NEW t \in DOMAIN file[d], ~Ahead(<<d, t>>)'
       PROVE  UpToDate(<<d, t>>, file[d][t])'
  <2>1. CASE <<d, t>> = key
    <3>1. Alone(r)
      <4>1. ASSUME NEW a \in ahead, a[1] = key PROVE a[2] = r.id
        <5>1. a \notin ahead'
          BY <1>10, <2>1, <4>1 DEF Ahead
        <5>2. a = <<key, r.id>>
          BY <1>7, <5>1
        <5>. QED  BY <5>2
      <4>. QED  BY <1>2, <4>1 DEF Alone
    <3>2. UpToDate(key, table)'
      BY <1>3, <1>4, <1>6, <3>1
    <3>3. file'[d][t] = table
      BY <1>1, <1>4, <2>1 DEF TableIn
    <3>. QED  BY <2>1, <3>2, <3>3 DEF UpToDate
  <2>2. CASE <<d, t>> # key
    <3>1. UpToDate(<<d, t>>, file[d][t])
      BY <1>8, <1>10, <2>2 DEF TablesInv, ColumnsInv
    <3>2. Physical(<<d, t>>)' = Physical(<<d, t>>) /\ file'[d][t] = file[d][t]
      BY <1>1, <1>6, <2>2
    <3>. QED  BY <3>1, <3>2 DEF UpToDate
  <2>. QED  BY <2>1, <2>2
<1>11. ColumnsInv'
  BY <1>1, <1>3, <1>6, <1>9, <1>10 DEF ColumnsInv
<1>12. pc'[r] \notin LockLabels
  BY <1>1 DEF LockLabels
<1>. QED  BY <1>11, <1>12, NotChanging

LEMMA CreateFieldsColumns ==
  ASSUME PlaceInv, CatalogsInv, TablesInv, NEW r \in due, CreateFields(r)
  PROVE  ColumnsInv' /\ ChangeInv(r)'
<1>0. Progressing /\ ColumnsInv
  BY DEF PlaceInv, TablesInv
<1>1. r.op = "createFields" /\ pc[r] = "change" /\ file' = file
  BY DEF CreateFields, At
<1>2. PICK key : key = Key(r) /\ key = <<key[1], key[2]>> /\ key[1] = r.db /\ key[2] = r.table
  <2>1. Key(r)[1] = r.db /\ Key(r)[2] = r.table
    BY <1>1 DEF Key
  <2>. QED  BY <2>1, KeyIsPair
<1>3. CASE ~Known(catalog, r.db, r.table)
  <2>1. Answer(r, "invalid") /\ UNCHANGED <<catalog, tables, ahead>>
    BY <1>3 DEF CreateFields
  <2>2. pc'[r] \notin LockLabels
    BY <1>0, <2>1 DEF Answer, Progressing, LockLabels
  <2>3. ColumnsInv'
    BY <1>0, <1>1, <2>1, SameTablesGrow, GrowingColumns
  <2>. QED  BY <2>2, <2>3, NotChanging
<1>4. CASE Known(catalog, r.db, r.table)
  <2>1. PICK moves \in BOOLEAN :
          LET table == catalog[r.db][r.table]
              given == WithFields(table, r.fields, moves)
              slips == given.memory # table.fields
          IN  /\ catalog' = WithTable(catalog, r.db, [table EXCEPT !.fields = given.memory])
              /\ ahead' = IF slips THEN ahead \cup {<<Key(r), r.id>>} ELSE ahead
              /\ \/ (\E outcome : Answer(r, outcome))
                      /\ tables' \in {tables, Put(tables, Key(r), EnsureTable(Physical(Key(r)), table))}
                 \/ /\ Proceed(r, UpdateTable(catalog', r.db, [table EXCEPT !.fields = given.fields]), "save")
                    /\ tables' = tables
    BY <1>4 DEF CreateFields, SetTable
  <2>2. PICK table : table = catalog[r.db][r.table]
    OBVIOUS
  <2>3. PICK given : given = WithFields(table, r.fields, moves)
    OBVIOUS
  <2>4. PICK next : next = UpdateTable(catalog', r.db, [table EXCEPT !.fields = given.fields])
    OBVIOUS
  <2>5. PICK now : now = [table EXCEPT !.fields = given.memory]
    OBVIOUS
  <2>6. /\ catalog' = WithTable(catalog, r.db, now)
        /\ ahead' = IF given.memory # table.fields THEN ahead \cup {<<key, r.id>>} ELSE ahead
        /\ \/ (\E outcome : Answer(r, outcome)) /\ tables' \in {tables, Put(tables, key, EnsureTable(Physical(key), table))}
           \/ Proceed(r, next, "save") /\ tables' = tables
    BY <1>2, <2>1, <2>2, <2>3, <2>4, <2>5
  <2>7. PICK memory : memory = catalog'
    OBVIOUS
  <2>8. Known(memory, r.db, r.table) /\ Replaces(catalog, memory, r.db, now)
    BY <1>0, <1>1, <1>4, <2>2, <2>3, <2>4, <2>5, <2>6, <2>7, AddingFields
  <2>9. IsTable(table) /\ table.name = r.table
    BY <1>4, <2>2 DEF CatalogsInv, IsCatalog, Known
  <2>10. now.fields = given.memory /\ now.name = r.table
    BY <2>5, <2>9 DEF IsTable
  <2>11. KnownIn(file, key) /\ KeepsTable(table, TableIn(file, key))
    BY <1>2, <1>4, <2>2 DEF CatalogsInv, Keeps, KnownIn, Known, TableIn
  <2>12. Growing
    <3>1. CASE tables' = tables
      BY <1>0, <3>1, SameTablesGrow
    <3>2. CASE tables' = Put(tables, key, EnsureTable(Physical(key), table))
      <4>1. PICK q : q = EnsureTable(Physical(key), table)
        OBVIOUS
      <4>2. DOMAIN Physical(key) = DOMAIN NoTable
        BY <1>0 DEF ColumnsInv, Physical
      <4>3. DOMAIN q = DOMAIN NoTable
        BY <4>1, <4>2, EnsuredColumns
      <4>4. Writes(key, table)
        BY <3>2, <4>1, <4>3 DEF Writes
      <4>. QED  BY <1>0, <2>11, <4>4, WritesGrow
    <3>. QED  BY <2>6, <3>1, <3>2
  <2>13. ahead \subseteq ahead'
    BY <2>6
  <2>14. given.memory # table.fields => Ahead(key)'
    <3>1. PICK a : a = <<key, r.id>>
      OBVIOUS
    <3>2. a[1] = key
      BY <3>1
    <3>. QED  BY <2>6, <3>1, <3>2 DEF Ahead
  <2>15. ASSUME NEW d \in DOMAIN file, NEW t \in DOMAIN file[d], ~Ahead(<<d, t>>)'
         PROVE  catalog'[d][t].fields = catalog[d][t].fields
    <3>1. d \in DOMAIN memory /\ t \in DOMAIN memory[d]
      BY <2>8 DEF CatalogsInv, Keeps, Replaces
    <3>2. CASE <<d, t>> = key
      <4>1. d = r.db /\ t = r.table
        BY <1>2, <3>2
      <4>2. given.memory = table.fields
        BY <2>14, <2>15, <3>2
      <4>3. memory[d][t] = now
        BY <2>8, <2>10, <4>1 DEF Replaces
      <4>. QED  BY <2>2, <2>7, <2>10, <4>1, <4>2, <4>3
    <3>3. CASE <<d, t>> # key
      <4>1. <<d, t>> # <<r.db, now.name>>
        BY <1>2, <2>10, <3>3
      <4>2. memory[d][t] = catalog[d][t]
        BY <2>8, <3>1, <4>1 DEF Replaces
      <4>. QED  BY <2>7, <4>2
    <3>. QED  BY <3>2, <3>3
  <2>16. ColumnsInv'
    BY <1>0, <1>1, <2>12, <2>13, <2>15, GrowingColumns
  <2>17. pc'[r] \in {"done", "save"}
    BY <1>0, <2>6 DEF Proceed, Answer, Goto, Progressing
  <2>18. KnownIn(catalog', key)
    BY <1>2, <2>7, <2>8 DEF KnownIn
  <2>19. ASSUME Alone(r)' PROVE Founded(Physical(key), TableIn(file, key))'
    <3>1. ~Ahead(key)
      <4>1. \A a \in ahead : a[2] # r.id
        BY <1>1 DEF TablesInv, FreshInv, CatalogOps
      <4>2. \A a \in ahead : a[1] = key => a[2] = r.id
        BY <1>2, <2>13, <2>19 DEF Alone, Key
      <4>. QED  BY <4>1, <4>2 DEF Ahead
    <3>2. PICK saved : saved = TableIn(file, key)
      OBVIOUS
    <3>3. Founded(Physical(key), saved)
      BY <1>0, <1>2, <2>11, <3>1, <3>2 DEF ColumnsInv, UpToDate, KnownIn, Known, TableIn
    <3>4. Founded(Physical(key)', saved)
      BY <2>12, <3>2, <3>3, KeepsItself DEF Growing, Lasting
    <3>5. TableIn(file, key)' = saved
      BY <1>1, <3>2 DEF TableIn
    <3>. QED  BY <3>4, <3>5
  <2>20. Key(r)' = key
    BY <1>2 DEF Key
  <2>21. ChangeInv(r)'
    BY <1>1, <1>2, <2>17, <2>18, <2>19, <2>20 DEF ChangeInv
  <2>. QED  BY <2>16, <2>21
<1>. QED  BY <1>3, <1>4

LEMMA RowsColumns ==
  ASSUME PlaceInv, ChangesInv, TablesInv, NEW r \in due, ReadRows(r) \/ SyncRow(r)
  PROVE  ColumnsInv' /\ ChangeInv(r)'
<1>0. Progressing /\ ColumnsInv /\ ChangeInv(r) /\ CatalogsInv /\ NextInv
  BY DEF PlaceInv, TablesInv, ChangesInv
<1>1. pc[r] \in {"read", "sync"} /\ UNCHANGED <<catalog, file, ahead>>
  BY DEF ReadRows, SyncRow, accessHistory, catalogHistory
<1>2. r.op \in {"addTable", "updateTable"}
  BY <1>1 DEF PlaceInv, Placed, PlacedAt
<1>3. PICK key : key = Key(r) /\ key[1] = r.db
  <2>1. Key(r)[1] = r.db
    BY DEF Key
  <2>. QED  BY <2>1
<1>4. PICK table : table = TableIn(held[r].next, key) /\ table = held[r].next[r.db][Key(r)[2]]
  BY <1>3 DEF TableIn
<1>5. /\ key \in DOMAIN tables /\ <<key, r.id>> \in ahead
      /\ Alone(r) => UpToDate(key, table)
  BY <1>0, <1>1, <1>2, <1>3, <1>4 DEF ChangeInv, Working
<1>6. Ahead(key)' /\ \A k : Ahead(k)' <=> Ahead(k)
  <2>1. PICK a : a = <<key, r.id>>
    OBVIOUS
  <2>2. a \in ahead /\ a[1] = key
    BY <1>5, <2>1
  <2>. QED  BY <1>1, <2>2 DEF Ahead
<1>7. \/ (\E outcome : Answer(r, outcome)) /\ tables' = tables
      \/ (\E rows : Synchronise(r, rows)) /\ (tables' = tables \/ Writes(key, table))
  <2>1. CASE ReadRows(r)
    BY <2>1 DEF ReadRows
  <2>2. CASE SyncRow(r)
    <3>1. PICK id, new :
            \/ (\E outcome : Answer(r, outcome)) /\ tables' = tables
            \/ (\E rows : Synchronise(r, rows)) /\ tables' = tables
            \/ /\ SetTable(key, UpdateRow(tables[key], table, id, new))
               /\ \E rows : Synchronise(r, rows)
      BY <1>3, <1>4, <2>2 DEF SyncRow
    <3>2. ASSUME SetTable(key, UpdateRow(tables[key], table, id, new)) PROVE Writes(key, table)
      <4>1. PICK e : e = EnsureTable(Physical(key), table)
        OBVIOUS
      <4>2. DOMAIN Physical(key) = DOMAIN NoTable /\ Physical(key) = tables[key]
        BY <1>0, <1>5 DEF ColumnsInv, Physical
      <4>3. DOMAIN e = DOMAIN NoTable
        BY <4>1, <4>2, EnsuredColumns
      <4>4. PICK q : q = UpdateRow(tables[key], table, id, new)
        OBVIOUS
      <4>5. DOMAIN q = DOMAIN e /\ q.columns = e.columns
        BY <4>1, <4>2, <4>3, <4>4 DEF UpdateRow, NoTable
      <4>. QED  BY <3>2, <4>1, <4>3, <4>4, <4>5 DEF Writes, SetTable
    <3>. QED  BY <3>1, <3>2
  <2>. QED  BY <2>1, <2>2
<1>8. /\ DOMAIN tables' = DOMAIN tables
      /\ \A k \in DOMAIN tables' : DOMAIN tables'[k] = DOMAIN NoTable
      /\ \A k : k # key => Physical(k)' = Physical(k)
      /\ UpToDate(key, table) => Complete(Physical(key)', table) /\ Founded(Physical(key)', table)
  <2>1. CASE tables' = tables
    <3>1. \A k : Physical(k)' = Physical(k)
      BY <2>1 DEF Physical
    <3>. QED  BY <1>0, <2>1, <3>1 DEF ColumnsInv, UpToDate
  <2>2. CASE Writes(key, table)
    <3>1. KeepsTable(table, table)
      BY KeepsItself
    <3>2. /\ DOMAIN tables' = DOMAIN tables \cup {key}
          /\ \A k \in DOMAIN tables' : DOMAIN tables'[k] = DOMAIN NoTable
          /\ \A k : k # key => Physical(k)' = Physical(k)
          /\ \A other : Complete(Physical(key), other) => Complete(Physical(key)', other)
          /\ \A other : Founded(Physical(key), other) /\ KeepsTable(table, other) => Founded(Physical(key)', other)
      BY <1>0, <2>2, WrittenColumns
    <3>3. DOMAIN tables' = DOMAIN tables
      BY <1>5, <3>2
    <3>. QED  BY <3>1, <3>2, <3>3 DEF UpToDate
  <2>. QED  BY <1>7, <2>1, <2>2
<1>9. ASSUME NEW d \in DOMAIN file, NEW t \in DOMAIN file[d], ~Ahead(<<d, t>>)'
      PROVE  UpToDate(<<d, t>>, file[d][t])' /\ catalog'[d][t].fields = file'[d][t].fields
  <2>1. UpToDate(<<d, t>>, file[d][t]) /\ catalog[d][t].fields = file[d][t].fields
    BY <1>0, <1>6, <1>9 DEF ColumnsInv
  <2>2. Physical(<<d, t>>)' = Physical(<<d, t>>) /\ file'[d][t] = file[d][t]
    BY <1>1, <1>6, <1>8, <1>9
  <2>. QED  BY <1>1, <2>1, <2>2 DEF UpToDate
<1>10. ColumnsInv'
  BY <1>0, <1>1, <1>6, <1>8, <1>9 DEF ColumnsInv
<1>11. ASSUME NEW outcome, Answer(r, outcome) PROVE ChangeInv(r)'
  <2>1. pc'[r] \notin LockLabels
    BY <1>0, <1>11 DEF Answer, Progressing, LockLabels
  <2>. QED  BY <2>1, NotChanging
<1>12. ASSUME NEW rows, Synchronise(r, rows) PROVE ChangeInv(r)'
  <2>1. PICK value : value = [held[r] EXCEPT !.rows = rows]
    OBVIOUS
  <2>2. held'[r] = value /\ value.next = held[r].next
    BY <1>0, <1>12, <2>1 DEF Synchronise, Goto, Progressing
  <2>3. TableIn(held[r].next, key)' = table
    BY <1>4, <2>2 DEF TableIn
  <2>4. Alone(r)' => Alone(r)
    BY <1>1 DEF Alone
  <2>5. UpToDate(key, TableIn(held[r].next, key))'
          <=> Complete(Physical(key)', table) /\ Founded(Physical(key)', table)
    BY <2>3 DEF UpToDate
  <2>6. Alone(r)' => UpToDate(key, TableIn(held[r].next, key))'
    BY <1>5, <1>8, <2>4, <2>5
  <2>7. Key(r)' = key
    BY <1>3 DEF Key
  <2>8. key \in DOMAIN tables' /\ <<key, r.id>> \in ahead'
    BY <1>1, <1>5, <1>8
  <2>. QED  BY <1>2, <1>3, <2>6, <2>7, <2>8 DEF ChangeInv
<1>. QED  BY <1>7, <1>10, <1>11, <1>12

\* An edit of a row writes the columns of the snapshot that it holds.
LEMMA EditsGrow ==
  ASSUME PlaceInv, TablesInv, NEW r \in due, AddRow(r) \/ WriteTableRow(r) \/ DeleteTableRow(r)
  PROVE  Growing
<1>1. r.op \in {"addRow", "editRow", "deleteRow"} /\ pc[r] \in {"insert", "write", "delete"}
  BY DEF AddRow, WriteTableRow, DeleteTableRow, At
<1>2. PICK key : key = Key(r)
  OBVIOUS
<1>3. PICK table : table = held[r].table
  OBVIOUS
<1>4. KnownIn(file, key) /\ KeepsTable(table, TableIn(file, key))
  BY <1>1, <1>2, <1>3 DEF TablesInv, EditInv
<1>5. PICK e : e = EnsureTable(Physical(key), table)
  OBVIOUS
<1>6. DOMAIN Physical(key) = DOMAIN NoTable
  BY DEF TablesInv, ColumnsInv, Physical
<1>7. DOMAIN e = DOMAIN NoTable
  BY <1>5, <1>6, EnsuredColumns
<1>8. \E q : tables' = Put(tables, key, q) /\ DOMAIN q = DOMAIN NoTable /\ q.columns = e.columns
  <2>1. CASE AddRow(r)
    <3>1. PICK values : tables' = Put(tables, key, InsertRow(Physical(key), table, values))
      BY <1>2, <1>3, <2>1 DEF AddRow, SetTable
    <3>2. PICK q : q = InsertRow(Physical(key), table, values)
      OBVIOUS
    <3>3. DOMAIN q = DOMAIN e /\ q.columns = e.columns
      BY <1>5, <1>7, <3>2 DEF InsertRow, NoTable
    <3>. QED  BY <1>7, <3>1, <3>2, <3>3
  <2>2. CASE WriteTableRow(r)
    <3>1. PICK id, values : tables' = Put(tables, key, UpdateRow(Physical(key), table, id, values))
      BY <1>2, <1>3, <2>2 DEF WriteTableRow, SetTable
    <3>2. PICK q : q = UpdateRow(Physical(key), table, id, values)
      OBVIOUS
    <3>3. DOMAIN q = DOMAIN e /\ q.columns = e.columns
      BY <1>5, <1>7, <3>2 DEF UpdateRow, NoTable
    <3>. QED  BY <1>7, <3>1, <3>2, <3>3
  <2>3. CASE DeleteTableRow(r)
    <3>1. PICK gone : tables' = Put(tables, key, [e EXCEPT !.rows = @ \ gone])
      BY <1>2, <1>3, <1>5, <2>3 DEF DeleteTableRow, SetTable
    <3>2. PICK q : q = [e EXCEPT !.rows = @ \ gone]
      OBVIOUS
    <3>3. DOMAIN q = DOMAIN e /\ q.columns = e.columns
      BY <1>7, <3>2 DEF NoTable
    <3>. QED  BY <1>7, <3>1, <3>2, <3>3
  <2>. QED  BY <2>1, <2>2, <2>3
<1>9. Writes(key, table)
  BY <1>5, <1>8 DEF Writes
<1>. QED  BY <1>4, <1>9, WritesGrow DEF TablesInv

\* The steps that are no change of the catalog.
LEMMA OtherStepsGrow ==
  ASSUME PlaceInv, ChangesInv, TablesInv, NEW r \in due, Steps(r, CatalogOps),
         \/ CreateDatabase(r) \/ OwnDatabase(r) \/ AuthorizeTable(r) \/ AuthorizePatch(r) \/ AuthorizeFields(r)
         \/ QueryRows(r) \/ AuthorizeRow(r) \/ ReadRow(r) \/ AuthorizeDelete(r)
         \/ AddRow(r) \/ WriteTableRow(r) \/ DeleteTableRow(r)
  PROVE  ColumnsInv' /\ \A q \in due : ChangeInv(q)'
<1> USE DEF catalogVars, tableVars, catalogHistory, storeVars, accessVars, accessHistory
<1>1. UNCHANGED <<file, catalog, ahead>>
  <2>1. ASSUME CreateDatabase(r) \/ OwnDatabase(r) \/ AuthorizeTable(r) \/ AuthorizePatch(r) \/ AuthorizeFields(r)
               \/ QueryRows(r) \/ AuthorizeRow(r)
        PROVE  UNCHANGED <<file, catalog, ahead>>
    BY <2>1 DEF CreateDatabase, OwnDatabase, AuthorizeTable, AuthorizePatch, AuthorizeFields, QueryRows,
       AuthorizeRow
  <2>2. ASSUME ReadRow(r) \/ AuthorizeDelete(r) \/ AddRow(r) \/ WriteTableRow(r) \/ DeleteTableRow(r)
        PROVE  UNCHANGED <<file, catalog, ahead>>
    BY <2>2 DEF ReadRow, AuthorizeDelete, AddRow, WriteTableRow, DeleteTableRow
  <2>. QED  BY <2>1, <2>2
<1>2. Growing
  <2>1. CASE AddRow(r) \/ WriteTableRow(r) \/ DeleteTableRow(r)
    BY <2>1, EditsGrow
  <2>2. CASE ~(AddRow(r) \/ WriteTableRow(r) \/ DeleteTableRow(r))
    <3>1. tables' = tables
      BY <2>2 DEF CreateDatabase, OwnDatabase, AuthorizeTable, AuthorizePatch, AuthorizeFields, QueryRows,
         AuthorizeRow, ReadRow, AuthorizeDelete
    <3>. QED  BY <3>1, SameTablesGrow DEF TablesInv
  <2>. QED  BY <2>1, <2>2
<1>3. \A q \in due \ {r} : pc'[q] = pc[q] /\ held'[q] = held[q]
  BY DEF Steps, Moves
<1>4. ColumnsInv'
  BY <1>1, <1>2, GrowingColumns DEF TablesInv, ChangesInv
<1>5. \A q \in due \ {r} : ChangeInv(q)'
  BY <1>1, <1>2, <1>3, GrowingChange DEF TablesInv, ChangesInv
<1>6. ChangeInv(r)'
  <2>1. CASE r.op = "createDatabase"
    BY <2>1 DEF ChangeInv
  <2>2. CASE r.op # "createDatabase"
    <3>1. PlacedAt(r.op, pc'[r]) /\ Progressing
      BY DEF Steps, PlaceInv
    <3>2. r.op \in {"addTable", "updateTable", "moveField", "createFields"} => pc'[r] \in {"change", "done"}
      <4>1. ASSUME OwnDatabase(r) \/ AuthorizeTable(r) \/ AuthorizePatch(r) \/ AuthorizeFields(r)
            PROVE  pc'[r] \in {"change", "done"}
        BY <3>1, <4>1 DEF OwnDatabase, AuthorizeTable, AuthorizePatch, AuthorizeFields, Answer, Goto, Progressing
      <4>2. ASSUME CreateDatabase(r) \/ QueryRows(r) \/ AuthorizeRow(r) \/ ReadRow(r) \/ AuthorizeDelete(r)
                   \/ AddRow(r) \/ WriteTableRow(r) \/ DeleteTableRow(r)
            PROVE  r.op \notin {"addTable", "updateTable", "moveField", "createFields"}
        BY <4>2 DEF CreateDatabase, QueryRows, AuthorizeRow, ReadRow, AuthorizeDelete, AddRow, WriteTableRow,
           DeleteTableRow, At
      <4>. QED  BY <4>1, <4>2
    <3>3. pc'[r] \in LockLabels => r.op \in {"createDatabase", "addTable", "updateTable", "moveField", "createFields"}
      BY <3>1 DEF PlacedAt, LockLabels
    <3>4. pc'[r] \notin LockLabels
      BY <2>2, <3>2, <3>3 DEF LockLabels
    <3>. QED  BY <3>4, NotChanging
  <2>. QED  BY <2>1, <2>2
<1>. QED  BY <1>4, <1>5, <1>6

LEMMA CatalogStepColumns ==
  ASSUME PlaceInv, ChangesInv, TablesInv, NEW r \in due, CatalogSteps(r), Steps(r, CatalogOps)
  PROVE  ColumnsInv' /\ \A q \in due : ChangeInv(q)'
<1>1. ASSUME ColumnsInv' /\ ChangeInv(r)', CatalogFree \/ pc[r] \in LockLabels
      PROVE  ColumnsInv' /\ \A q \in due : ChangeInv(q)'
  <2>1. \A q \in due \ {r} : pc'[q] \notin LockLabels
    BY <1>1 DEF Steps, Moves, CatalogFree, ChangesInv, LockInv, LockLabels
  <2>. QED  BY <1>1, <2>1, NotChanging
<1>2. Progressing /\ CatalogsInv
  BY DEF PlaceInv, ChangesInv
<1>3. ASSUME ChangeTables(r) \/ ChangeTable(r) \/ MoveField(r) \/ CreateFields(r)
      PROVE  (ColumnsInv' /\ ChangeInv(r)') /\ CatalogFree
  <2>1. CatalogFree
    BY <1>3 DEF ChangeTables, ChangeTable, MoveField, CreateFields
  <2>. QED  BY <1>2, <1>3, <2>1, ChangeTablesColumns, MoveFieldColumns, CreateFieldsColumns
<1>4. ASSUME ReadRows(r) \/ SyncRow(r) \/ SaveCatalog(r) \/ EnsureFields(r)
      PROVE  (ColumnsInv' /\ ChangeInv(r)') /\ pc[r] \in LockLabels
  <2>1. pc[r] \in LockLabels
    BY <1>4 DEF ReadRows, SyncRow, SaveCatalog, EnsureFields, At, LockLabels
  <2>. QED  BY <1>2, <1>4, <2>1, RowsColumns, SaveColumns, EnsureFieldsColumns
<1>. QED  BY <1>1, <1>3, <1>4, OtherStepsGrow DEF CatalogSteps

\* Which entries a step adds.
LEMMA WhoIsAhead ==
  ASSUME PlaceInv, NEW r \in due, CatalogSteps(r)
  PROVE  /\ \A a \in ahead' : a \in ahead \/ a[2] = r.id
         /\ r.op = "moveField" \/ pc'[r] = "change" => ahead' \subseteq ahead
         /\ pc'[r] = "change" => pc[r] = "start"
<1>0. Progressing
  BY DEF PlaceInv
<1>1. \A a : a \in {<<Key(r), r.id>>} => a[2] = r.id
  OBVIOUS
<1>2. CASE SaveCatalog(r)
  <2>1. /\ ahead' \subseteq ahead \cup {<<Key(r), r.id>>}
        /\ r.op = "moveField" => ahead' \subseteq ahead
        /\ pc'[r] # "change"
    BY <1>0, <1>2 DEF SaveCatalog, Goto, Answer, Progressing
  <2>. QED  BY <1>1, <2>1
<1>3. CASE ChangeTables(r) \/ ChangeTable(r)
  <2>1. r.op # "moveField" /\ ahead' \in {ahead, ahead \cup {<<Key(r), r.id>>}}
    BY <1>3 DEF ChangeTables, ChangeTable, BringUpToDate, At
  <2>2. pc'[r] # "change"
    BY <1>0, <1>3 DEF ChangeTables, ChangeTable, BringUpToDate, Proceed, Answer, Goto, Progressing
  <2>. QED  BY <1>1, <2>1, <2>2
<1>4. CASE CreateFields(r)
  <2>1. r.op # "moveField" /\ ahead' \in {ahead, ahead \cup {<<Key(r), r.id>>}}
    BY <1>4 DEF CreateFields, At
  <2>2. pc'[r] # "change"
    BY <1>0, <1>4 DEF CreateFields, Proceed, Answer, Goto, Progressing
  <2>. QED  BY <1>1, <2>1, <2>2
<1>5. CASE EnsureFields(r)
  BY <1>0, <1>5 DEF EnsureFields, At, Answer, Progressing
<1>6. CASE ~(SaveCatalog(r) \/ ChangeTables(r) \/ ChangeTable(r) \/ CreateFields(r) \/ EnsureFields(r))
  <2>1. ahead' = ahead
    <3>1. ASSUME CreateDatabase(r) \/ OwnDatabase(r) \/ AuthorizeTable(r) \/ AuthorizePatch(r)
                 \/ AuthorizeFields(r) \/ MoveField(r) \/ QueryRows(r) \/ AuthorizeRow(r)
          PROVE  ahead' = ahead
      BY <3>1 DEF CreateDatabase, OwnDatabase, AuthorizeTable, AuthorizePatch, AuthorizeFields, MoveField,
         QueryRows, AuthorizeRow, catalogVars, catalogHistory
    <3>2. ASSUME ReadRows(r) \/ SyncRow(r) \/ ReadRow(r) \/ AuthorizeDelete(r)
                 \/ AddRow(r) \/ WriteTableRow(r) \/ DeleteTableRow(r)
          PROVE  ahead' = ahead
      BY <3>2 DEF ReadRows, SyncRow, ReadRow, AuthorizeDelete, AddRow, WriteTableRow, DeleteTableRow,
         catalogVars, catalogHistory
    <3>. QED  BY <1>6, <3>1, <3>2 DEF CatalogSteps
  <2>2. pc'[r] = "change" => pc[r] = "start"
    <3>1. ASSUME AuthorizeTable(r) \/ AuthorizePatch(r) \/ AuthorizeFields(r) \/ CreateDatabase(r)
                 \/ QueryRows(r) \/ AuthorizeRow(r) \/ AuthorizeDelete(r)
          PROVE  pc[r] = "start"
      BY <3>1 DEF AuthorizeTable, AuthorizePatch, AuthorizeFields, CreateDatabase, QueryRows, AuthorizeRow,
         AuthorizeDelete, At
    <3>2. ASSUME OwnDatabase(r) \/ MoveField(r) \/ ReadRows(r) \/ SyncRow(r)
          PROVE  pc'[r] # "change"
      BY <1>0, <3>2 DEF OwnDatabase, MoveField, ReadRows, SyncRow, Synchronise, Proceed, Answer, Goto, Progressing
    <3>3. ASSUME ReadRow(r) \/ AddRow(r) \/ WriteTableRow(r) \/ DeleteTableRow(r)
          PROVE  pc'[r] # "change"
      BY <1>0, <3>3 DEF ReadRow, AddRow, WriteTableRow, DeleteTableRow, Answer, Goto, Progressing
    <3>. QED  BY <1>6, <3>1, <3>2, <3>3 DEF CatalogSteps
  <2>. QED  BY <2>1, <2>2
<1>. QED  BY <1>2, <1>3, <1>4, <1>5, <1>6

\* Whoever goes on editing holds a table of the catalog, or the one it held.
LEMMA EditorsHold ==
  ASSUME PlaceInv, ChangesInv, TablesInv, NEW r \in due, CatalogSteps(r)
  PROVE  EditInv(r)'
<1>0. Progressing
  BY DEF PlaceInv
<1>a. Key(r)' = Key(r)
  BY DEF Key
<1>1. CASE r.op \notin {"addRow", "editRow", "deleteRow"}
  BY <1>1 DEF EditInv
<1>2. CASE r.op \in {"addRow", "editRow", "deleteRow"}
  <2>1. \/ AuthorizeRow(r) \/ AuthorizeDelete(r) \/ ReadRow(r) \/ AddRow(r)
        \/ WriteTableRow(r) \/ DeleteTableRow(r)
    <3>1. ~(\/ CreateDatabase(r) \/ OwnDatabase(r) \/ AuthorizeTable(r) \/ ChangeTables(r)
            \/ AuthorizePatch(r) \/ ChangeTable(r) \/ AuthorizeFields(r) \/ MoveField(r)
            \/ CreateFields(r) \/ EnsureFields(r) \/ QueryRows(r))
      BY <1>2 DEF CreateDatabase, OwnDatabase, AuthorizeTable, ChangeTables, AuthorizePatch, ChangeTable,
         AuthorizeFields, MoveField, CreateFields, EnsureFields, QueryRows, At
    <3>2. ~(ReadRows(r) \/ SyncRow(r) \/ SaveCatalog(r))
      BY <1>2 DEF ReadRows, SyncRow, SaveCatalog, PlaceInv, Placed, PlacedAt
    <3>. QED  BY <3>1, <3>2 DEF CatalogSteps
  <2>2. file' = file
    BY <2>1 DEF AuthorizeRow, AuthorizeDelete, ReadRow, AddRow, WriteTableRow, DeleteTableRow,
       catalogVars, tableVars
  <2>3. Key(r) = <<r.db, r.table>>
    BY <1>2 DEF Key
  <2>4. ASSUME NEW outcome, Answer(r, outcome) PROVE EditInv(r)'
    BY <1>0, <2>4 DEF Answer, Progressing, EditInv
  <2>5. ASSUME NEW label, NEW value, Goto(r, label, value), KnownIn(file, Key(r)),
               KeepsTable(value.table, TableIn(file, Key(r)))
        PROVE  EditInv(r)'
    <3>1. held'[r].table = value.table
      BY <1>0, <2>5 DEF Goto, Progressing
    <3>. QED  BY <1>a, <2>2, <2>5, <3>1 DEF EditInv, KnownIn, TableIn
  <2>6. ASSUME NEW label, Goto(r, label, [table |-> catalog[r.db][r.table]]), Known(catalog, r.db, r.table)
        PROVE  EditInv(r)'
    <3>1. PICK table : table = catalog[r.db][r.table]
      OBVIOUS
    <3>2. PICK value : value = [table |-> table]
      OBVIOUS
    <3>3. value.table = table
      BY <3>2
    <3>4. KnownIn(file, Key(r)) /\ KeepsTable(table, TableIn(file, Key(r)))
      BY <2>3, <2>6, <3>1 DEF ChangesInv, CatalogsInv, Keeps, KnownIn, Known, TableIn
    <3>5. Goto(r, label, value)
      BY <2>6, <3>1, <3>2
    <3>. QED  BY <2>5, <3>3, <3>4, <3>5
  <2>7. CASE AuthorizeRow(r)
    BY <2>4, <2>6, <2>7 DEF AuthorizeRow, FoundRow
  <2>8. CASE AuthorizeDelete(r)
    BY <2>4, <2>6, <2>8 DEF AuthorizeDelete, FoundRow
  <2>9. CASE ReadRow(r) \/ AddRow(r)
    <3>1. KnownIn(file, Key(r)) /\ KeepsTable(held[r].table, TableIn(file, Key(r)))
      BY <1>2, <2>9 DEF ReadRow, AddRow, At, TablesInv, EditInv
    <3>2. \/ \E outcome : Answer(r, outcome)
          \/ \E row, given : Goto(r, "write", Calculated(r, row, given))
      <4>1. CASE ReadRow(r)
        BY <4>1 DEF ReadRow
      <4>2. CASE AddRow(r)
        BY <4>2 DEF AddRow
      <4>. QED  BY <2>9, <4>1, <4>2
    <3>3. ASSUME NEW row, NEW given, Goto(r, "write", Calculated(r, row, given)) PROVE EditInv(r)'
      <4>1. PICK value : value = Calculated(r, row, given)
        OBVIOUS
      <4>2. value.table = held[r].table
        BY <4>1 DEF Calculated
      <4>3. Goto(r, "write", value)
        BY <3>3, <4>1
      <4>. QED  BY <2>5, <3>1, <4>2, <4>3
    <3>. QED  BY <2>4, <3>2, <3>3
  <2>10. CASE WriteTableRow(r) \/ DeleteTableRow(r)
    BY <2>4, <2>10 DEF WriteTableRow, DeleteTableRow
  <2>. QED  BY <2>1, <2>7, <2>8, <2>9, <2>10
<1>. QED  BY <1>1, <1>2

\* After a restart every table of the file has its columns.
LEMMA RestartColumns ==
  ASSUME CatalogsInv, ColumnsInv, Restart
  PROVE  ColumnsInv'
<1>1. PICK new : new = [k \in FileTables |-> EnsureTable(Physical(k), file[k[1]][k[2]])]
  OBVIOUS
<1>2. tables' = Over(new, tables) /\ file' = file /\ catalog' = file /\ ahead' = ahead
  BY <1>1 DEF Restart
<1>3. \A k : Ahead(k)' <=> Ahead(k)
  BY <1>2 DEF Ahead
<1>4. /\ DOMAIN tables' = FileTables \cup DOMAIN tables
      /\ \A k \in FileTables : tables'[k] = EnsureTable(Physical(k), TableIn(file, k))
      /\ \A k \in DOMAIN tables \ FileTables : tables'[k] = tables[k]
  BY <1>1, <1>2 DEF Over, TableIn
<1>5. ASSUME NEW k PROVE DOMAIN Physical(k) = DOMAIN NoTable
  BY DEF ColumnsInv, Physical
<1>6. ASSUME NEW k \in DOMAIN tables' PROVE DOMAIN tables'[k] = DOMAIN NoTable
  <2>1. CASE k \in FileTables
    <3>1. PICK p : p = Physical(k)
      OBVIOUS
    <3>2. PICK q : q = EnsureTable(p, TableIn(file, k))
      OBVIOUS
    <3>3. DOMAIN q = DOMAIN NoTable
      BY <1>5, <3>1, <3>2, EnsuredColumns
    <3>. QED  BY <1>4, <2>1, <3>1, <3>2, <3>3
  <2>2. CASE k \notin FileTables
    BY <1>4, <2>2 DEF ColumnsInv
  <2>. QED  BY <2>1, <2>2
<1>7. \A k \in FileTables : KnownIn(file, k)
  BY DEF FileTables, KnownIn, Known
<1>8. \A k \in DOMAIN tables' : ~Ahead(k)' => KnownIn(file', k)
  BY <1>2, <1>3, <1>4, <1>7 DEF ColumnsInv
<1>9. ASSUME NEW d \in DOMAIN file, NEW t \in DOMAIN file[d], ~Ahead(<<d, t>>)'
      PROVE  UpToDate(<<d, t>>, file[d][t])'
  <2>1. PICK k : k = <<d, t>>
    OBVIOUS
  <2>2. k \in FileTables
    BY <2>1 DEF FileTables
  <2>3. PICK p : p = Physical(k)
    OBVIOUS
  <2>4. PICK table : table = file[d][t] /\ table = TableIn(file, k)
    BY <2>1 DEF TableIn
  <2>5. Founded(p, table)
    BY <1>3, <1>9, <2>1, <2>3, <2>4 DEF ColumnsInv, UpToDate
  <2>6. PICK q : q = EnsureTable(p, table)
    OBVIOUS
  <2>7. Complete(q, table) /\ Founded(q, table)
    BY <1>5, <2>3, <2>5, <2>6, EnsuredServes, KeepsItself
  <2>8. Physical(k)' = q
    BY <1>4, <2>2, <2>3, <2>4, <2>6 DEF Physical
  <2>9. file'[d][t] = table
    BY <1>2, <2>4
  <2>. QED  BY <2>1, <2>7, <2>8, <2>9 DEF UpToDate
<1>. QED  BY <1>2, <1>6, <1>8, <1>9 DEF ColumnsInv

LEMMA InitTables == Init => TablesInv
<1> SUFFICES ASSUME Init PROVE TablesInv
  OBVIOUS
<1>1. /\ catalog = FirstCatalog /\ file = FirstCatalog /\ tables = FirstTables /\ ahead = {}
      /\ \A r \in due : pc[r] = "start"
  BY DEF Init, CatalogInit, RequestsInit
<1>2. \A r \in due : ChangeInv(r) /\ EditInv(r)
  BY <1>1 DEF ChangeInv, EditInv, Working, LockLabels
<1>3. \A key \in DOMAIN tables : DOMAIN tables[key] = DOMAIN NoTable /\ KnownIn(file, key)
  <2> TAKE key \in DOMAIN tables
  <2>1. PICK d \in DOMAIN FirstCatalog : \E t \in DOMAIN FirstCatalog[d] : key = <<d, t>>
    BY <1>1, CatalogAssumption
  <2>2. PICK t \in DOMAIN FirstCatalog[d] : key = <<d, t>>
    BY <2>1
  <2>3. KnownIn(file, key)
    BY <1>1, <2>2 DEF KnownIn, Known
  <2>. QED  BY <1>1, <2>3, CatalogAssumption
<1>4. ASSUME NEW d \in DOMAIN file, NEW t \in DOMAIN file[d]
      PROVE  UpToDate(<<d, t>>, file[d][t]) /\ catalog[d][t].fields = file[d][t].fields
  <2>1. /\ <<d, t>> \in DOMAIN FirstTables
        /\ Complete(FirstTables[<<d, t>>], FirstCatalog[d][t])
        /\ Founded(FirstTables[<<d, t>>], FirstCatalog[d][t])
    BY <1>1, CatalogAssumption
  <2>2. Physical(<<d, t>>) = FirstTables[<<d, t>>]
    BY <1>1, <2>1 DEF Physical
  <2>. QED  BY <1>1, <2>1, <2>2 DEF UpToDate
<1>5. ColumnsInv
  BY <1>3, <1>4 DEF ColumnsInv
<1>6. FreshInv
  BY <1>1 DEF FreshInv
<1>. QED  BY <1>2, <1>5, <1>6 DEF TablesInv

LEMMA NextTables == PlaceInv /\ ChangesInv /\ TablesInv /\ [Next]_vars => TablesInv'
<1> SUFFICES ASSUME PlaceInv, ChangesInv, TablesInv, [Next]_vars PROVE TablesInv'
  OBVIOUS
<1>0. Progressing /\ Placed /\ CatalogsInv /\ NextInv /\ Keeps(file, file') /\ PlaceInv'
  BY FileKeeps, NextPlaced DEF PlaceInv, ChangesInv
<1>1. CASE Still
  <2>1. \A q \in due : (pc'[q] = pc[q] /\ held'[q] = held[q]) \/ pc'[q] \notin LockLabels
    <3> TAKE q \in due
    <3>1. PlacedAt(q.op, pc'[q])
      BY <1>0, <1>1 DEF PlaceInv, Placed, Still
    <3>2. pc'[q] \in LockLabels => q.op \in CatalogOps
      BY <3>1 DEF PlacedAt, LockLabels, CatalogOps
    <3>. QED  BY <1>1, <3>2 DEF Still, LockLabels
  <2>2. Growing
    BY <1>1, SameTablesGrow DEF Still, TablesInv
  <2>3. ColumnsInv' /\ \A q \in due : ChangeInv(q)'
    BY <1>0, <1>1, <2>1, <2>2, GrowingStep DEF Still
  <2>4. FreshInv'
    BY <1>1 DEF FreshInv, Still, TablesInv
  <2>5. ASSUME NEW q \in due PROVE EditInv(q)'
    <3>1. CASE q.op \notin CatalogOps \/ pc'[q] = "done"
      BY <3>1 DEF EditInv, CatalogOps
    <3>2. CASE q.op \in CatalogOps /\ pc'[q] # "done"
      BY <1>0, <1>1, <3>2, EditsGoOn DEF Still, TablesInv
    <3>. QED  BY <3>1, <3>2
  <2>. QED  BY <1>1, <2>3, <2>4, <2>5 DEF TablesInv, Still
<1>2. CASE Restart
  <2>1. /\ due' = due /\ ahead' = ahead
        /\ \A q \in due : (pc'[q] = pc[q] /\ ~Handled(q)) \/ pc'[q] \in {"done", "reply"}
    BY <1>0, <1>2, RestartSteps DEF Restart
  <2>2. ASSUME NEW q \in due PROVE ChangeInv(q)'
    <3>1. pc'[q] \notin LockLabels
      BY <2>1 DEF Handled, UnderWay, ClientLabels, LockLabels
    <3>. QED  BY <3>1, NotChanging
  <2>3. ASSUME NEW q \in due PROVE EditInv(q)'
    <3>1. pc'[q] \notin {"insert", "write", "row", "delete"}
      BY <2>1 DEF Handled, UnderWay, ClientLabels
    <3>. QED  BY <3>1 DEF EditInv
  <2>4. FreshInv'
    BY <2>1 DEF FreshInv, TablesInv
  <2>5. ColumnsInv'
    BY <1>0, <1>2, RestartColumns DEF TablesInv
  <2>. QED  BY <2>1, <2>2, <2>3, <2>4, <2>5 DEF TablesInv
<1>3. ASSUME NEW r \in due, CatalogSteps(r), Steps(r, CatalogOps) PROVE TablesInv'
  <2>1. due' = due /\ pc'[r] # "start" /\ \A q \in due \ {r} : pc'[q] = pc[q] /\ held'[q] = held[q]
    BY <1>3 DEF Steps, Moves
  <2>2. ColumnsInv' /\ \A q \in due : ChangeInv(q)'
    BY <1>3, CatalogStepColumns
  <2>3. ASSUME NEW q \in due PROVE EditInv(q)'
    <3>1. CASE q = r
      BY <1>3, <3>1, EditorsHold
    <3>2. CASE q # r
      BY <1>0, <2>1, <3>2, EditsGoOn DEF TablesInv
    <3>. QED  BY <3>1, <3>2
  <2>4. FreshInv'
    <3>1. /\ \A a \in ahead' : a \in ahead \/ a[2] = r.id
          /\ r.op = "moveField" \/ pc'[r] = "change" => ahead' \subseteq ahead
          /\ pc'[r] = "change" => pc[r] = "start"
      BY <1>3, WhoIsAhead
    <3> SUFFICES ASSUME NEW q \in due, q.op \in CatalogOps,
                        pc'[q] \in {"start", "change"} \/ q.op = "moveField",
                        NEW a \in ahead'
                 PROVE  a[2] # q.id
      BY <2>1 DEF FreshInv
    <3>2. CASE q = r
      BY <2>1, <3>1, <3>2 DEF FreshInv, TablesInv
    <3>3. CASE q # r
      <4>1. q.id # r.id
        BY <1>0, <3>3, RequestAssumption DEF Progressing
      <4>. QED  BY <2>1, <3>1, <3>3, <4>1 DEF FreshInv, TablesInv
    <3>. QED  BY <3>2, <3>3
  <2>. QED  BY <2>1, <2>2, <2>3, <2>4 DEF TablesInv
<1>. QED  BY <1>1, <1>2, <1>3, CatalogStep

\* Every active field of the file has a column of its type, whatever changes,
\* edits with an older catalog, failures and restarts there are: SyncTable and
\* EnsureTable of src/internal/table/table.go, under the lock of
\* src/internal/api/metadata_service.go and without it.
THEOREM ColumnsMatchTheFile == Spec => []ColumnsMatch
<1>1. Spec => [](PlaceInv /\ ChangesInv /\ TablesInv)
  BY InitPlaced, NextPlaced, InitChanges, NextChanges, InitTables, NextTables, PTL DEF Spec
<1>2. ASSUME ChangesInv, TablesInv PROVE ColumnsMatch
  <2> SUFFICES ASSUME NEW d \in DOMAIN file, NEW t \in DOMAIN file[d], \A a \in ahead : a[1] # <<d, t>>,
                      NEW f \in ActiveFields(file[d][t])
               PROVE  /\ Column(f.name) \in DOMAIN Physical(<<d, t>>).columns
                      /\ \/ Physical(<<d, t>>).columns[Column(f.name)] = StorageType(f)
                         \/ \E g \in ToSet(file[d][t].fields) : g.name # f.name /\ Column(g.name) = Column(f.name)
    BY DEF ColumnsMatch
  <2>1. PICK p : p = Physical(<<d, t>>)
    OBVIOUS
  <2>2. PICK table : table = file[d][t]
    OBVIOUS
  <2>3. Complete(p, table) /\ Founded(p, table)
    BY <1>2, <2>1, <2>2 DEF TablesInv, ColumnsInv, UpToDate, Ahead
  <2>4. Column(f.name) \in DOMAIN p.columns
    BY <2>2, <2>3 DEF Complete, Wanted
  <2>5. PICK g \in ToSet(table.fields) : Column(g.name) = Column(f.name) /\ StorageType(g) = p.columns[Column(f.name)]
    BY <2>3, <2>4 DEF Founded
  <2>6. g.name = f.name => g = f
    <3>1. NoDuplicates(table.fields) /\ f \in ToSet(table.fields)
      BY <1>2, <2>2 DEF ChangesInv, CatalogsInv, Validate, ValidTable, ActiveFields
    <3>. QED  BY <3>1 DEF NoDuplicates, ToSet
  <2>. QED  BY <2>1, <2>2, <2>4, <2>5, <2>6
<1>. QED  BY <1>1, <1>2, PTL

-----------------------------------------------------------------------------
(* Whose definitions.                                                      *)

\* A patch that needs no owner: no new formula, none changed, no field deleted
\* or brought back, and the views that were there.
Modest(seen, patch) ==
  /\ patch.fields # Missing => \A f \in ToSet(patch.fields) :
       /\ FieldOf(seen, f.name) = {} => f.type # "formula"
       /\ \A g \in FieldOf(seen, f.name) :
            /\ g.deleted = f.deleted
            /\ Definition(g) # Definition(f) => "formula" \notin {g.type, f.type}
  /\ patch.views # Missing => patch.views = seen.views

SameDefinitions(old, new) ==
  /\ Formulas(old) = Formulas(new) /\ old.views = new.views
  /\ \A f \in ToSet(old.fields), g \in ToSet(new.fields) : f.name = g.name => f.deleted = g.deleted

LEMMA SameTableDefines ==
  ASSUME NEW table, NoDuplicates(table.fields)
  PROVE  SameDefinitions(table, table)
  BY DEF SameDefinitions, NoDuplicates, ToSet

\* What the patch makes of the table is then defined as before.
LEMMA ModestDefines ==
  ASSUME NEW old, IsTable(old), NoDuplicates(old.fields), NoDuplicates(old.views),
         NEW patch, IsPatch(patch), Modest(old, patch),
         NEW new, new = MergedTable(old, patch),
         \A f \in ToSet(new.fields) : f.name # RecordId
  PROVE  SameDefinitions(old, new)
<1>1. /\ KeepsNames(old, new)
      /\ new.fields = IF patch.fields = Missing THEN old.fields ELSE MergeByName(old.fields, patch.fields)
      /\ new.views = IF patch.views = Missing THEN old.views ELSE MergeByName(old.views, patch.views)
  BY MergedTableIs
<1>2. new.views = old.views
  <2>1. CASE patch.views = Missing
    BY <1>1, <2>1
  <2>2. CASE patch.views # Missing
    <3>1. patch.views = old.views
      BY <2>2 DEF Modest
    <3>2. old.views \in Seq(ToSet(old.views))
      BY DEF IsTable
    <3>3. MergeByName(old.views, old.views) = old.views
      BY <3>2, MergeWithItself
    <3>. QED  BY <1>1, <2>2, <3>1, <3>3
  <2>. QED  BY <2>1, <2>2
<1>3. ASSUME NEW f \in ToSet(old.fields), NEW g \in ToSet(old.fields), f.name = g.name PROVE f = g
  BY <1>3 DEF NoDuplicates, ToSet
\* A field of the new table was there, or the patch gives it.
<1>4. ASSUME NEW g \in ToSet(new.fields), g \notin ToSet(old.fields)
      PROVE  /\ patch.fields # Missing /\ g \in ToSet(patch.fields)
             /\ DOMAIN g = DOMAIN RecordIdField
             /\ Named(old.fields, g.name) = {} => g.type # "formula"
             /\ \A f \in Named(old.fields, g.name) :
                  /\ f.deleted = g.deleted
                  /\ Definition(f) # Definition(g) => "formula" \notin {f.type, g.type}
  <2>1. patch.fields # Missing
    BY <1>1, <1>4
  <2>2. IsFields(patch.fields) /\ IsFields(old.fields)
    BY <2>1 DEF IsPatch, IsTable
  <2>3. ToSet(new.fields) \subseteq ToSet(old.fields) \cup ToSet(patch.fields)
    BY <1>1, <2>1, <2>2, MergedFields
  <2>4. g \in ToSet(patch.fields) /\ DOMAIN g = DOMAIN RecordIdField
    BY <1>4, <2>2, <2>3 DEF IsFields
  <2>5. FieldOf(old, g.name) = Named(old.fields, g.name)
    BY DEF FieldOf
  <2>. QED  BY <2>1, <2>4, <2>5 DEF Modest
<1>5. ASSUME NEW f \in ToSet(old.fields), NEW g \in ToSet(new.fields), f.name = g.name
      PROVE  /\ f.deleted = g.deleted
             /\ "formula" \in {f.type, g.type} =>
                  f.type = g.type /\ f.formula = g.formula /\ f.vtype = g.vtype
  <2>1. CASE g \in ToSet(old.fields)
    BY <1>3, <1>5, <2>1
  <2>2. CASE g \notin ToSet(old.fields)
    <3>1. f \in Named(old.fields, g.name)
      BY <1>5 DEF Named
    <3>2. /\ f.deleted = g.deleted /\ DOMAIN g = DOMAIN RecordIdField
          /\ Definition(f) # Definition(g) => "formula" \notin {f.type, g.type}
      BY <1>4, <2>2, <3>1
    <3>3. DOMAIN f = DOMAIN RecordIdField
      BY DEF IsTable, IsFields
    <3>4. ASSUME NEW h, DOMAIN h = DOMAIN RecordIdField
          PROVE  /\ Definition(h).type = h.type /\ Definition(h).formula = h.formula
                 /\ Definition(h).vtype = h.vtype
      BY <3>4 DEF Definition, RecordIdField
    <3>. QED  BY <3>2, <3>3, <3>4
  <2>. QED  BY <2>1, <2>2
<1>6. ASSUME NEW f \in ToSet(old.fields), ~f.deleted, f.type = "formula"
      PROVE  <<f.name, f.formula, f.vtype>> \in Formulas(new)
  <2>1. PICK g \in ToSet(new.fields) : g.name = f.name
    BY <1>1 DEF KeepsNames, Named
  <2>2. ~g.deleted /\ g.type = "formula" /\ g.formula = f.formula /\ g.vtype = f.vtype
    BY <1>5, <1>6, <2>1
  <2>3. <<g.name, g.formula, g.vtype>> \in Formulas(new)
    BY <2>2 DEF Formulas, ActiveFields
  <2>. QED  BY <2>1, <2>2, <2>3
<1>7. ASSUME NEW g \in ToSet(new.fields), ~g.deleted, g.type = "formula"
      PROVE  <<g.name, g.formula, g.vtype>> \in Formulas(old)
  <2>1. PICK f \in ToSet(old.fields) : f.name = g.name
    <3>1. CASE g \in ToSet(old.fields)
      BY <3>1
    <3>2. CASE g \notin ToSet(old.fields)
      BY <1>4, <1>7, <3>2 DEF Named
    <3>. QED  BY <3>1, <3>2
  <2>2. ~f.deleted /\ f.type = "formula" /\ g.formula = f.formula /\ g.vtype = f.vtype
    BY <1>5, <1>7, <2>1
  <2>3. <<f.name, f.formula, f.vtype>> \in Formulas(old)
    BY <2>2 DEF Formulas, ActiveFields
  <2>. QED  BY <2>1, <2>2, <2>3
<1>8. Formulas(old) \subseteq Formulas(new)
  BY <1>6 DEF Formulas, ActiveFields
<1>9. Formulas(new) \subseteq Formulas(old)
  BY <1>7 DEF Formulas, ActiveFields
<1>. QED  BY <1>2, <1>5, <1>8, <1>9 DEF SameDefinitions

\* What an update under way may change.
OwnInv(r) ==
  r.op = "updateTable" =>
    /\ pc[r] = "change" => IsDatabaseOwner(r.actor, r.db) \/ Modest(held[r].seen, PatchOf(r))
    /\ Working(r) => Known(catalog, r.db, r.table) /\
         (\/ IsDatabaseOwner(r.actor, r.db)
          \/ held[r].seen # catalog[r.db][r.table]
          \/ SameDefinitions(catalog[r.db][r.table], held[r].next[r.db][r.table]))

OwnersInv == \A r \in due : OwnInv(r)

LEMMA OwnersStay ==
  ASSUME NEW r \in due, CatalogSteps(r)
  PROVE  owners \subseteq owners'
<1> USE DEF storeVars, accessVars
<1>1. CASE OwnDatabase(r)
  BY <1>1 DEF OwnDatabase, SaveDatabaseOwner
<1>2. ASSUME CreateDatabase(r) \/ AuthorizeTable(r) \/ ChangeTables(r) \/ AuthorizePatch(r) \/ ChangeTable(r)
             \/ ReadRows(r) \/ SyncRow(r) \/ SaveCatalog(r) \/ AuthorizeFields(r) \/ MoveField(r)
      PROVE  owners' = owners
  BY <1>2 DEF CreateDatabase, AuthorizeTable, ChangeTables, AuthorizePatch, ChangeTable, ReadRows, SyncRow,
     SaveCatalog, AuthorizeFields, MoveField
<1>3. ASSUME CreateFields(r) \/ EnsureFields(r) \/ QueryRows(r) \/ AuthorizeRow(r) \/ ReadRow(r) \/ AddRow(r)
             \/ WriteTableRow(r) \/ AuthorizeDelete(r) \/ DeleteTableRow(r)
      PROVE  owners' = owners
  BY <1>3 DEF CreateFields, EnsureFields, QueryRows, AuthorizeRow, ReadRow, AddRow, WriteTableRow,
     AuthorizeDelete, DeleteTableRow
<1>. QED  BY <1>1, <1>2, <1>3 DEF CatalogSteps

LEMMA OwnGoesOn ==
  ASSUME NEW r, OwnInv(r), owners \subseteq owners', pc'[r] = pc[r], held'[r] = held[r],
         Working(r) => catalog' = catalog
  PROVE  OwnInv(r)'
<1>1. IsDatabaseOwner(r.actor, r.db) => IsDatabaseOwner(r.actor, r.db)'
  BY DEF IsDatabaseOwner
<1>2. PatchOf(r)' = PatchOf(r)
  OBVIOUS
<1>3. Working(r)' <=> Working(r)
  BY DEF Working
<1>4. ASSUME Working(r)
      PROVE  SameDefinitions(catalog[r.db][r.table], held[r].next[r.db][r.table])' <=>
             SameDefinitions(catalog[r.db][r.table], held[r].next[r.db][r.table])
  <2>1. catalog' = catalog
    BY <1>4
  <2>. QED  BY <2>1 DEF SameDefinitions, Formulas, ActiveFields
<1>5. Modest(held[r].seen, PatchOf(r))' <=> Modest(held[r].seen, PatchOf(r))
  BY <1>2 DEF Modest, FieldOf
<1>. QED  BY <1>1, <1>3, <1>4, <1>5 DEF OwnInv


\* Who may patch without owning the database patches modestly.
LEMMA AuthorizePatchOwn ==
  ASSUME Progressing, NEW r \in due, AuthorizePatch(r)
  PROVE  OwnInv(r)'
<1>1. CASE pc'[r] = "done"
  BY <1>1 DEF OwnInv, Working
<1>2. CASE pc'[r] # "done"
  <2>1. PICK patch : patch = PatchOf(r) /\ patch = PatchOf(r)'
    OBVIOUS
  <2>2. PICK existing : existing = catalog[r.db][r.table]
    OBVIOUS
  <2>3. /\ Goto(r, "change", [seen |-> existing])
        /\ \/ IsDatabaseOwner(r.actor, r.db)
           \/ /\ patch.fields # Missing =>
                   \A f \in ToSet(patch.fields) : MayPatchField(r.actor, r.db, existing, f)
              /\ patch.views # Missing => patch.views = existing.views
    BY <1>2, <2>1, <2>2 DEF AuthorizePatch, Answer, Progressing
  <2>4. pc'[r] = "change" /\ held'[r].seen = existing
    BY <2>3 DEF Goto, Progressing
  <2>5. IsDatabaseOwner(r.actor, r.db)' <=> IsDatabaseOwner(r.actor, r.db)
    BY DEF AuthorizePatch, IsDatabaseOwner, storeVars, accessVars
  <2>6. IsDatabaseOwner(r.actor, r.db) \/ Modest(existing, patch)
    BY <2>3 DEF MayPatchField, Modest
  <2>. QED  BY <2>1, <2>4, <2>5, <2>6 DEF OwnInv, Working
<1>. QED  BY <1>1, <1>2

LEMMA ChangeTableOwn ==
  ASSUME Progressing, CatalogsInv, NEW r \in due, OwnInv(r), ChangeTable(r)
  PROVE  OwnInv(r)'
<1>1. r.op = "updateTable" /\ pc[r] = "change" /\ UNCHANGED <<catalog, owners>>
  BY DEF ChangeTable, At, storeVars, accessVars, accessHistory
<1>2. PICK patch : patch = PatchOf(r) /\ IsPatch(patch)
  BY <1>1, PatchIsDecoded
<1>3. PICK next : next = MergeTable(catalog, r.db, r.table, patch)
  OBVIOUS
<1>4. CASE pc'[r] = "done"
  BY <1>4 DEF OwnInv, Working
<1>5. CASE pc'[r] # "done"
  <2>1. next # Refused
    BY <1>2, <1>3, <1>5 DEF ChangeTable, Answer, Progressing
  <2>2. /\ pc'[r] \in {"read", "save"}
        /\ held'[r].next = next /\ held'[r].seen = held[r].seen
    BY <1>2, <1>3, <1>5, <2>1 DEF ChangeTable, BringUpToDate, Proceed, Answer, Goto, Progressing
  <2>3. PICK old : old = catalog[r.db][r.table]
    OBVIOUS
  <2>4. PICK new : new = MergedTable(old, patch)
    OBVIOUS
  <2>5. /\ Known(catalog, r.db, r.table) /\ new.name = r.table
        /\ Validate(next) /\ Replaces(catalog, next, r.db, new)
    BY <1>2, <1>3, <2>1, <2>3, <2>4, MergeTableKeeps DEF CatalogsInv
  <2>6. next[r.db][r.table] = new /\ Known(next, r.db, r.table)
    BY <2>5 DEF Replaces, Known
  <2>7. \A f \in ToSet(new.fields) : f.name # RecordId
    BY <2>5, <2>6, CatalogAssumption DEF Validate, ValidTable, ValidField, Known
  <2>8. IsTable(old) /\ NoDuplicates(old.fields) /\ NoDuplicates(old.views)
    BY <2>3, <2>5 DEF CatalogsInv, IsCatalog, Distinct, Known
  <2>9. Modest(old, patch) => SameDefinitions(old, new)
    BY <1>2, <2>4, <2>7, <2>8, ModestDefines
  <2>10. IsDatabaseOwner(r.actor, r.db) \/ Modest(held[r].seen, patch)
    BY <1>1, <1>2 DEF OwnInv
  <2>11. IsDatabaseOwner(r.actor, r.db)' <=> IsDatabaseOwner(r.actor, r.db)
    BY <1>1 DEF IsDatabaseOwner
  <2>12. \/ IsDatabaseOwner(r.actor, r.db)
         \/ held[r].seen # old
         \/ SameDefinitions(old, new)
    BY <2>9, <2>10
  <2>13. /\ catalog'[r.db][r.table] = old /\ Known(catalog', r.db, r.table)
         /\ held'[r].next[r.db][r.table] = new
    BY <1>1, <2>2, <2>3, <2>5, <2>6 DEF Known
  <2>14. SameDefinitions(catalog[r.db][r.table], held[r].next[r.db][r.table])' <=> SameDefinitions(old, new)
    BY <2>13 DEF SameDefinitions, Formulas, ActiveFields
  <2>. QED  BY <2>2, <2>3, <2>11, <2>12, <2>13, <2>14 DEF OwnInv, Working
<1>. QED  BY <1>4, <1>5

\* The rows are recalculated for the table that is to be saved.
LEMMA RowsOwn ==
  ASSUME Progressing, NEW r \in due, OwnInv(r), ReadRows(r) \/ SyncRow(r)
  PROVE  OwnInv(r)'
<1>1. Working(r) /\ UNCHANGED <<catalog, owners>>
  BY DEF ReadRows, SyncRow, Working, storeVars, accessVars, accessHistory
<1>2. \/ pc'[r] = "done"
      \/ /\ pc'[r] \in {"sync", "save"}
         /\ held'[r].next = held[r].next /\ held'[r].seen = held[r].seen
  <2>1. \/ \E outcome : Answer(r, outcome)
        \/ \E rows : Synchronise(r, rows)
    <3>1. CASE ReadRows(r)
      BY <3>1 DEF ReadRows
    <3>2. CASE SyncRow(r)
      BY <3>2 DEF SyncRow
    <3>. QED  BY <3>1, <3>2
  <2>2. ASSUME NEW outcome, Answer(r, outcome) PROVE pc'[r] = "done"
    BY <2>2 DEF Answer, Progressing
  <2>3. ASSUME NEW rows, Synchronise(r, rows)
        PROVE  /\ pc'[r] \in {"sync", "save"}
               /\ held'[r].next = held[r].next /\ held'[r].seen = held[r].seen
    <3>1. PICK value : value = [held[r] EXCEPT !.rows = rows]
      OBVIOUS
    <3>2. value.next = held[r].next /\ value.seen = held[r].seen
      BY <3>1
    <3>3. held'[r] = value /\ pc'[r] \in {"sync", "save"}
      BY <2>3, <3>1 DEF Synchronise, Goto, Progressing
    <3>. QED  BY <3>2, <3>3
  <2>. QED  BY <2>1, <2>2, <2>3
<1>3. IsDatabaseOwner(r.actor, r.db)' <=> IsDatabaseOwner(r.actor, r.db)
  BY <1>1 DEF IsDatabaseOwner
<1>4. CASE pc'[r] = "done"
  BY <1>4 DEF OwnInv, Working
<1>5. CASE pc'[r] # "done"
  <2>1. PICK next : next = held[r].next /\ next = held'[r].next
    BY <1>2, <1>5
  <2>2. PICK old : old = catalog[r.db][r.table] /\ old = catalog'[r.db][r.table]
    BY <1>1
  <2>3. SameDefinitions(catalog[r.db][r.table], held[r].next[r.db][r.table])' <=>
        SameDefinitions(catalog[r.db][r.table], held[r].next[r.db][r.table])
    BY <2>1, <2>2 DEF SameDefinitions, Formulas, ActiveFields
  <2>4. Known(catalog, r.db, r.table)' <=> Known(catalog, r.db, r.table)
    BY <1>1 DEF Known
  <2>. QED  BY <1>1, <1>2, <1>3, <1>5, <2>2, <2>3, <2>4 DEF OwnInv, Working
<1>. QED  BY <1>4, <1>5

LEMMA OwnStep ==
  ASSUME PlaceInv, ChangesInv, NEW r \in due, OwnInv(r), CatalogSteps(r)
  PROVE  OwnInv(r)'
<1>0. Progressing /\ CatalogsInv
  BY DEF PlaceInv, ChangesInv
<1>1. CASE r.op # "updateTable"
  BY <1>1 DEF OwnInv
<1>2. CASE SaveCatalog(r)
  <2>1. pc'[r] \in {"own", "ensure", "done"}
    BY <1>0, <1>2 DEF SaveCatalog, Goto, Answer, Progressing
  <2>. QED  BY <2>1 DEF OwnInv, Working
<1>3. ASSUME r.op = "updateTable"
      PROVE  AuthorizePatch(r) \/ ChangeTable(r) \/ ReadRows(r) \/ SyncRow(r) \/ SaveCatalog(r)
  BY <1>3 DEF CatalogSteps, At, CreateDatabase, OwnDatabase, AuthorizeTable, ChangeTables, AuthorizeFields,
     MoveField, CreateFields, EnsureFields, QueryRows, AuthorizeRow, ReadRow, AddRow, WriteTableRow,
     AuthorizeDelete, DeleteTableRow
<1>. QED  BY <1>0, <1>1, <1>2, <1>3, AuthorizePatchOwn, ChangeTableOwn, RowsOwn


LEMMA InitOwners == Init => OwnersInv
  BY DEF Init, RequestsInit, OwnersInv, OwnInv, Working

LEMMA NextOwners == PlaceInv /\ ChangesInv /\ OwnersInv /\ [Next]_vars => OwnersInv'
<1> SUFFICES ASSUME PlaceInv, ChangesInv, OwnersInv, [Next]_vars PROVE OwnersInv'
  OBVIOUS
<1>0. Progressing /\ Placed /\ LockInv
  BY DEF PlaceInv, ChangesInv
<1>a. ASSUME NEW q \in due, q.op # "updateTable" \/ pc'[q] \notin {"change", "read", "sync", "save"}
      PROVE  OwnInv(q)'
  BY <1>a DEF OwnInv, Working
<1>1. CASE Still
  <2>1. due' = due /\ owners' = owners /\ catalog' = catalog
    BY <1>1 DEF Still
  <2>2. ASSUME NEW q \in due, q.op = "updateTable" PROVE OwnInv(q)'
    <3>1. CASE pc'[q] = "done"
      BY <1>a, <3>1
    <3>2. CASE pc'[q] # "done"
      <4>1. pc'[q] = pc[q] /\ held'[q] = held[q]
        BY <1>1, <2>2, <3>2 DEF Still, CatalogOps
      <4>. QED  BY <2>1, <4>1, OwnGoesOn DEF OwnersInv
    <3>. QED  BY <3>1, <3>2
  <2>. QED  BY <1>a, <2>1, <2>2 DEF OwnersInv
<1>2. CASE Restart
  <2>1. /\ due' = due
        /\ \A q \in due : (pc'[q] = pc[q] /\ ~Handled(q)) \/ pc'[q] \in {"done", "reply"}
    BY <1>0, <1>2, RestartSteps
  <2>2. \A q \in due : pc'[q] \notin {"change", "read", "sync", "save"}
    BY <2>1 DEF Handled, UnderWay, ClientLabels
  <2>. QED  BY <1>a, <2>1, <2>2 DEF OwnersInv
<1>3. ASSUME NEW r \in due, CatalogSteps(r), Steps(r, CatalogOps) PROVE OwnersInv'
  <2>1. due' = due /\ \A q \in due \ {r} : pc'[q] = pc[q] /\ held'[q] = held[q]
    BY <1>3 DEF Steps, Moves
  <2>2. OwnInv(r)'
    BY <1>3, OwnStep DEF OwnersInv
  <2>3. owners \subseteq owners'
    BY <1>3, OwnersStay
  <2>4. ASSUME NEW q \in due \ {r}, Working(q) PROVE catalog' = catalog
    <3>1. pc[q] \in LockLabels
      BY <2>4 DEF Working, LockLabels
    <3>2. ~Holding(r)
      BY <1>0, <3>1 DEF Holding, CatalogFree, LockInv
    <3>. QED  BY <1>0, <1>3, <3>2, CatalogStepHolds DEF Aside
  <2>5. ASSUME NEW q \in due \ {r} PROVE OwnInv(q)'
    BY <2>1, <2>3, <2>4, OwnGoesOn DEF OwnersInv
  <2>. QED  BY <2>1, <2>2, <2>5 DEF OwnersInv
<1>. QED  BY <1>1, <1>2, <1>3, CatalogStep

\* Only saving the catalog and adding fields change it in memory.
LEMMA WhoChanges ==
  ASSUME NEW r \in due, CatalogSteps(r)
  PROVE  catalog' = catalog \/ SaveCatalog(r) \/ CreateFields(r)
<1> USE DEF catalogVars, tableVars, accessHistory
<1>1. ASSUME OwnDatabase(r) \/ AuthorizeTable(r) \/ AuthorizePatch(r) \/ AuthorizeFields(r) \/ EnsureFields(r)
             \/ QueryRows(r) \/ AuthorizeRow(r) \/ ReadRow(r) \/ MoveField(r) \/ CreateDatabase(r)
      PROVE  catalog' = catalog
  BY <1>1 DEF OwnDatabase, AuthorizeTable, AuthorizePatch, AuthorizeFields, EnsureFields, QueryRows,
     AuthorizeRow, ReadRow, MoveField, CreateDatabase
<1>2. ASSUME AddRow(r) \/ WriteTableRow(r) \/ AuthorizeDelete(r) \/ DeleteTableRow(r)
             \/ ChangeTables(r) \/ ChangeTable(r) \/ ReadRows(r) \/ SyncRow(r)
      PROVE  catalog' = catalog
  BY <1>2 DEF AddRow, WriteTableRow, AuthorizeDelete, DeleteTableRow, ChangeTables, ChangeTable, ReadRows, SyncRow
<1>. QED  BY <1>1, <1>2 DEF CatalogSteps

\* Who does not own the database changes no formula, no view and no deletion of
\* a field with an update of a table: what the update was authorised for, in
\* handleUpdateTable of src/internal/api/server.go, is what is saved, whatever
\* changes of other requests, failures and restarts come between; unless the
\* table was changed after the update was authorised.
THEOREM DefinitionsAreOwned == Spec => DefinitionsOwned
<1>1. Spec => [](PlaceInv /\ ChangesInv /\ OwnersInv)
  BY InitPlaced, NextPlaced, InitChanges, NextChanges, InitOwners, NextOwners, PTL DEF Spec
<1>2. ASSUME PlaceInv, ChangesInv, OwnersInv, [Next]_vars,
             NEW r \in due, r.op = "updateTable", pc[r] = "save", result'[r] = "ok"
      PROVE  \/ IsDatabaseOwner(r.actor, r.db)
             \/ held[r].seen # catalog[r.db][r.table]
             \/ SameDefinitions(catalog[r.db][r.table], catalog'[r.db][r.table])
  <2>1. PICK old : old = catalog[r.db][r.table]
    OBVIOUS
  <2>2. NoDuplicates(old.fields)
    BY <1>2, <2>1 DEF OwnersInv, OwnInv, Working, ChangesInv, CatalogsInv, Distinct, Known
  <2>3. SameDefinitions(old, old)
    BY <2>2, SameTableDefines
  <2>4. CASE catalog' = catalog
    BY <2>1, <2>3, <2>4
  <2>5. CASE Restart
    BY <1>2, <2>5 DEF Restart, Handled, GoesOn, UnderWay, ClientLabels
  <2>6. ASSUME NEW q \in due, SaveCatalog(q) \/ CreateFields(q)
        PROVE  q = r
    <3>1. pc[r] \in LockLabels
      BY <1>2 DEF LockLabels
    <3>2. CASE SaveCatalog(q)
      BY <1>2, <3>1, <3>2 DEF SaveCatalog, ChangesInv, LockInv, LockLabels
    <3>3. CASE CreateFields(q)
      BY <3>1, <3>3 DEF CreateFields, CatalogFree
    <3>. QED  BY <2>6, <3>2, <3>3
  <2>7. ~CreateFields(r)
    BY <1>2 DEF CreateFields, At
  <2>8. CASE SaveCatalog(r)
    BY <1>2, <2>8 DEF SaveCatalog, OwnersInv, OwnInv, Working
  <2>. QED  BY <1>2, <2>4, <2>5, <2>6, <2>7, <2>8, CatalogStep, WhoChanges DEF Still
<1>3. ASSUME PlaceInv, ChangesInv, OwnersInv, [Next]_vars
      PROVE  [\A r \in due :
                (r.op = "updateTable" /\ pc[r] = "save" /\ result'[r] = "ok") =>
                  LET old == catalog[r.db][r.table]
                      new == catalog'[r.db][r.table]
                  IN  \/ IsDatabaseOwner(r.actor, r.db)
                      \/ held[r].seen # old
                      \/ /\ Formulas(old) = Formulas(new) /\ old.views = new.views
                         /\ \A f \in ToSet(old.fields), g \in ToSet(new.fields) :
                              f.name = g.name => f.deleted = g.deleted]_vars
  BY <1>2, <1>3 DEF SameDefinitions
<1>. QED  BY <1>1, <1>3, PTL DEF Spec, DefinitionsOwned

-----------------------------------------------------------------------------
(* Rows have ids of their own.                                             *)

\* Every row has an id of its own, below the next.
OwnIds(p) ==
  /\ p.next \in Nat
  /\ \A x \in p.rows : DOMAIN x = {"id", "values"} /\ x.id \in Nat /\ x.id < p.next
  /\ \A x, y \in p.rows : x.id = y.id => x = y

RowsInv == \A key \in DOMAIN tables : OwnIds(tables[key])

LEMMA EnsuredRows ==
  ASSUME NEW p, NEW table, DOMAIN p = DOMAIN NoTable
  PROVE  LET e == EnsureTable(p, table)
         IN  DOMAIN e = DOMAIN NoTable /\ e.rows = p.rows /\ e.next = p.next
<1>1. PICK columns : EnsureTable(p, table) = [p EXCEPT !.columns = columns]
  BY DEF EnsureTable
<1>2. DOMAIN p = {"columns", "rows", "next"}
  BY DEF NoTable
<1>. QED  BY <1>1, <1>2

LEMMA EnsuredIds ==
  ASSUME NEW p, NEW table, DOMAIN p = DOMAIN NoTable, OwnIds(p)
  PROVE  OwnIds(EnsureTable(p, table))
  BY EnsuredRows DEF OwnIds

LEMMA UpdatedIds ==
  ASSUME NEW p, NEW table, NEW id, NEW values, DOMAIN p = DOMAIN NoTable, OwnIds(p)
  PROVE  OwnIds(UpdateRow(p, table, id, values))
<1> DEFINE as(row) == IF row.id = id THEN [row EXCEPT !.values = Stored(values) @@ @] ELSE row
<1>1. PICK e : e = EnsureTable(p, table)
  OBVIOUS
<1>2. DOMAIN e = {"columns", "rows", "next"} /\ e.rows = p.rows /\ e.next = p.next
  BY <1>1, EnsuredRows DEF NoTable
<1>3. UpdateRow(p, table, id, values) = [e EXCEPT !.rows = {as(row) : row \in e.rows}]
  BY <1>1 DEF UpdateRow
<1>4. \A row \in p.rows : as(row).id = row.id /\ DOMAIN as(row) = {"id", "values"}
  BY DEF OwnIds
<1>5. PICK rows : rows = {as(row) : row \in e.rows}
  OBVIOUS
<1>6. \A x \in rows : \E row \in p.rows : x = as(row)
  BY <1>2, <1>5
<1> HIDE DEF as
<1>7. PICK q : q = [e EXCEPT !.rows = rows]
  OBVIOUS
<1>8. q.rows = rows /\ q.next = p.next
  BY <1>2, <1>7
<1>9. OwnIds(q)
  <2>1. \A x \in rows : \E row \in p.rows : x.id = row.id /\ DOMAIN x = {"id", "values"}
    BY <1>4, <1>6
  <2>2. ASSUME NEW x \in rows, NEW y \in rows, x.id = y.id PROVE x = y
    <3>1. PICK v \in p.rows, w \in p.rows : x = as(v) /\ y = as(w)
      BY <1>6
    <3>2. v.id = w.id
      BY <1>4, <2>2, <3>1
    <3>. QED  BY <3>1, <3>2 DEF OwnIds
  <2>. QED  BY <1>8, <2>1, <2>2 DEF OwnIds
<1>. QED  BY <1>3, <1>5, <1>7, <1>9

LEMMA InsertedIds ==
  ASSUME NEW p, NEW table, NEW values, DOMAIN p = DOMAIN NoTable, OwnIds(p)
  PROVE  OwnIds(InsertRow(p, table, values))
<1>1. PICK e : e = EnsureTable(p, table)
  OBVIOUS
<1>2. DOMAIN e = {"columns", "rows", "next"} /\ e.rows = p.rows /\ e.next = p.next
  BY <1>1, EnsuredRows DEF NoTable
<1>3. PICK new : new = [id |-> p.next, values |-> Stored(values)]
  OBVIOUS
<1>4. PICK q : q = InsertRow(p, table, values)
  OBVIOUS
<1>5. q.rows = p.rows \cup {new} /\ q.next = p.next + 1
  BY <1>1, <1>2, <1>3, <1>4 DEF InsertRow
<1>6. DOMAIN new = {"id", "values"} /\ new.id = p.next
  BY <1>3
<1>7. OwnIds(q)
  BY <1>5, <1>6 DEF OwnIds
<1>. QED  BY <1>4, <1>7

LEMMA DeletedIds ==
  ASSUME NEW p, NEW table, NEW gone, DOMAIN p = DOMAIN NoTable, OwnIds(p)
  PROVE  OwnIds([EnsureTable(p, table) EXCEPT !.rows = @ \ gone])
<1>1. PICK e : e = EnsureTable(p, table)
  OBVIOUS
<1>2. DOMAIN e = {"columns", "rows", "next"} /\ e.rows = p.rows /\ e.next = p.next
  BY <1>1, EnsuredRows DEF NoTable
<1>3. PICK q : q = [e EXCEPT !.rows = @ \ gone]
  OBVIOUS
<1>4. q.rows = p.rows \ gone /\ q.next = p.next
  BY <1>2, <1>3
<1>5. OwnIds(q)
  BY <1>4 DEF OwnIds
<1>. QED  BY <1>1, <1>3, <1>5

LEMMA PhysicalIds ==
  ASSUME ColumnsInv, RowsInv
  PROVE  \A key : DOMAIN Physical(key) = DOMAIN NoTable /\ OwnIds(Physical(key))
<1>1. OwnIds(NoTable)
  BY DEF OwnIds, NoTable
<1>. QED  BY <1>1 DEF Physical, ColumnsInv, RowsInv

\* A table is written.
LEMMA WrittenRows ==
  ASSUME RowsInv, NEW key, NEW q, SetTable(key, q), OwnIds(q)
  PROVE  RowsInv'
  BY DEF RowsInv, SetTable, Put

\* By the handlers of the catalog and of the rows.
LEMMA CatalogStepRows ==
  ASSUME PlaceInv, TablesInv, RowsInv, NEW r \in due, CatalogSteps(r)
  PROVE  RowsInv'
<1>0. /\ ColumnsInv /\ ChangeInv(r) /\ Placed
      /\ \A key : DOMAIN Physical(key) = DOMAIN NoTable /\ OwnIds(Physical(key))
  BY PhysicalIds DEF TablesInv, PlaceInv
<1>1. ASSUME tables' = tables PROVE RowsInv'
  BY <1>1 DEF RowsInv
<1>2. ASSUME NEW table, SetTable(Key(r), EnsureTable(Physical(Key(r)), table)) PROVE RowsInv'
  BY <1>0, <1>2, EnsuredIds, WrittenRows
<1>3. CASE ChangeTables(r) \/ ChangeTable(r) \/ CreateFields(r) \/ EnsureFields(r)
  <2>1. tables' = tables \/ \E table : SetTable(Key(r), EnsureTable(Physical(Key(r)), table))
    BY <1>3 DEF ChangeTables, ChangeTable, CreateFields, EnsureFields, BringUpToDate
  <2>. QED  BY <1>1, <1>2, <2>1
<1>4. CASE SyncRow(r)
  <2>1. tables' = tables \/ \E table, id, new : SetTable(Key(r), UpdateRow(tables[Key(r)], table, id, new))
    BY <1>4 DEF SyncRow
  <2>2. Key(r) \in DOMAIN tables /\ Physical(Key(r)) = tables[Key(r)]
    BY <1>0, <1>4 DEF SyncRow, Placed, PlacedAt, ChangeInv, Working, Physical
  <2>. QED  BY <1>0, <1>1, <2>1, <2>2, UpdatedIds, WrittenRows
<1>5. CASE WriteTableRow(r)
  BY <1>0, <1>5, UpdatedIds, WrittenRows DEF WriteTableRow
<1>6. CASE AddRow(r)
  BY <1>0, <1>6, InsertedIds, WrittenRows DEF AddRow
<1>7. CASE DeleteTableRow(r)
  BY <1>0, <1>7, DeletedIds, WrittenRows DEF DeleteTableRow
<1>8. CASE CreateDatabase(r) \/ OwnDatabase(r) \/ AuthorizeTable(r) \/ AuthorizePatch(r) \/ ReadRows(r)
           \/ SaveCatalog(r) \/ AuthorizeFields(r) \/ MoveField(r)
  BY <1>1, <1>8 DEF CreateDatabase, OwnDatabase, AuthorizeTable, AuthorizePatch, ReadRows, SaveCatalog,
     AuthorizeFields, MoveField, catalogVars, tableVars
<1>9. CASE QueryRows(r) \/ AuthorizeRow(r) \/ ReadRow(r) \/ AuthorizeDelete(r)
  BY <1>1, <1>9 DEF QueryRows, AuthorizeRow, ReadRow, AuthorizeDelete, catalogVars, tableVars
<1>. QED  BY <1>3, <1>4, <1>5, <1>6, <1>7, <1>8, <1>9 DEF CatalogSteps

LEMMA NextRows == PlaceInv /\ ChangesInv /\ TablesInv /\ RowsInv /\ [Next]_vars => RowsInv'
<1> SUFFICES ASSUME PlaceInv, ChangesInv, TablesInv, RowsInv, [Next]_vars PROVE RowsInv'
  OBVIOUS
<1>1. CASE Still
  BY <1>1 DEF Still, RowsInv
<1>2. CASE Restart
  <2>1. PICK new : new = [k \in FileTables |-> EnsureTable(Physical(k), file[k[1]][k[2]])]
    OBVIOUS
  <2>2. tables' = Over(new, tables)
    BY <1>2, <2>1 DEF Restart
  <2>3. \A k \in FileTables : OwnIds(new[k])
    BY <2>1, PhysicalIds, EnsuredIds DEF TablesInv
  <2>. QED  BY <2>1, <2>2, <2>3 DEF RowsInv, Over
<1>. QED  BY <1>1, <1>2, CatalogStepRows, CatalogStep DEF PlaceInv

LEMMA InitRows == Init => RowsInv
  BY CatalogAssumption DEF Init, CatalogInit, RowsInv, OwnIds

LEMMA CatalogTypes == ChangesInv /\ RowsInv => CatalogTypeOK
  BY DEF ChangesInv, CatalogsInv, RowsInv, OwnIds, CatalogTypeOK
=============================================================================
