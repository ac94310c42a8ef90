--------------------------- MODULE SupervisorProofs ---------------------------
(***************************************************************************)
(* A supervisor with any number of children: its types, that it forgets    *)
(* and doubles none of them, that it stops and starts them in order, that  *)
(* it keeps to their restart types, and that it gives up exactly when the  *)
(* restarts exceed the intensity.                                          *)
(***************************************************************************)
EXTENDS Supervisor, FiniteSetTheorems, SequenceTheorems, TLAPS

\* TypeOK without the reports, which follow from it.
Typed ==
  /\ flags \in SupFlagsS /\ Restart \in [Ids -> RestartType]
  /\ \A es \in {children, kept, order, work} : es \in Seq(ChildSpec) /\ CheckDups(es)
  /\ at \in 1 .. (IF pc = "start" THEN Len(order) ELSE Len(work)) + 1
  /\ pc \in {"start", "idle", "stop", "kill", "ended"}
  /\ why \in {"none", "init", "restart", "rollback", "request", "intensity", "failed", "stopped"}
  /\ killer \in {"none", "unlink", "signal", "wait"} /\ (killer # "none" <=> pc = "kill")
  /\ restarts \in Seq(Nat) /\ history \in Seq(Nat) /\ now \in Nat
  /\ proc \in Seq(Process)
  /\ exits \subseteq ExitMsg
  /\ spent \in [deaths : Nat, fails : Nat, ignores : Nat] /\ requested \in Nat
  /\ misled \in BOOLEAN

-----------------------------------------------------------------------------
(* Indices.                                                                *)

UpTo(is, i) == {j \in is : j <= i}

LEMMA IndicesAreFinite ==
  ASSUME NEW n \in Nat, NEW is, is \subseteq 1 .. n
  PROVE  IsFiniteSet(is) /\ Cardinality(is) \in Nat
<1>1. IsFiniteSet(1 .. n)
  <2>1. n \in Int /\ 1 \in Int
    OBVIOUS
  <2> QED
    BY <2>1, FS_Interval
<1>2. is \in SUBSET (1 .. n)
  OBVIOUS
<1>3. IsFiniteSet(is)
  BY <1>1, <1>2, FS_Subset
<1> QED
  BY <1>3, FS_CardinalityType

LEMMA UpToCardinality ==
  ASSUME NEW is, NEW n \in Nat, is \subseteq 1 .. n, NEW i \in is
  PROVE  /\ IsFiniteSet(is) /\ Cardinality(is) \in Nat
         /\ IsFiniteSet(UpTo(is, i)) /\ Cardinality(UpTo(is, i)) \in 1 .. Cardinality(is)
<1>1. IsFiniteSet(is)
  BY IndicesAreFinite
<1>2. UpTo(is, i) \in SUBSET is
  BY DEF UpTo
<1>3. IsFiniteSet(UpTo(is, i)) /\ Cardinality(UpTo(is, i)) <= Cardinality(is)
  BY <1>1, <1>2, FS_Subset
<1>4. i \in UpTo(is, i)
  BY DEF UpTo
<1>5. Cardinality(UpTo(is, i)) # 0
  BY <1>3, <1>4, FS_EmptySet
<1> QED
  BY <1>1, <1>3, <1>5, FS_CardinalityType

\* Of two indices the greater has more of them up to it.
LEMMA UpToGrows ==
  ASSUME NEW is, NEW n \in Nat, is \subseteq 1 .. n, NEW i \in is, NEW j \in is, i < j
  PROVE  Cardinality(UpTo(is, i)) < Cardinality(UpTo(is, j))
<1>1. UpTo(is, i) \in SUBSET UpTo(is, j) /\ j \in UpTo(is, j) /\ j \notin UpTo(is, i)
  <2>1. \A k \in is : k \in Int
    OBVIOUS
  <2>2. j <= j /\ ~(j <= i) /\ \A k \in is : k <= i => k <= j
    BY <2>1
  <2> QED
    BY <2>2 DEF UpTo
<1>2. IsFiniteSet(UpTo(is, j))
  BY UpToCardinality
<1>3. /\ Cardinality(UpTo(is, i)) <= Cardinality(UpTo(is, j))
      /\ Cardinality(UpTo(is, i)) # Cardinality(UpTo(is, j))
  BY <1>1, <1>2, FS_Subset
<1>4. Cardinality(UpTo(is, i)) \in Nat /\ Cardinality(UpTo(is, j)) \in Nat
  <2>1. \A k \in is : Cardinality(UpTo(is, k)) \in 1 .. Cardinality(is) /\ Cardinality(is) \in Nat
    BY UpToCardinality
  <2> QED
    BY <2>1
<1> QED
  BY <1>3, <1>4

\* The entries of fs are those of es at the indices is, in their order.
InOrder(fs, es, is, ix) ==
  /\ ix \in [1 .. Len(fs) -> is]
  /\ \A k, l \in 1 .. Len(fs) : k < l => ix[k] < ix[l]
  /\ \A k \in 1 .. Len(fs) : fs[k] = es[ix[k]]
  /\ \A i \in is : \E k \in 1 .. Len(fs) : ix[k] = i

\* Pick takes the entries at the indices, in order, and each of them once.
LEMMA PickInOrder ==
  ASSUME NEW S, NEW es \in Seq(S), NEW is, is \subseteq DOMAIN es
  PROVE  Pick(es, is) \in Seq(S) /\ \E ix : InOrder(Pick(es, is), es, is, ix)
<1> DEFINE n == Cardinality(is)
           rank == [i \in is |-> Cardinality(UpTo(is, i))]
           ix == [k \in 1 .. n |-> Nth(is, k)]
<1>1. is \subseteq 1 .. Len(es) /\ Len(es) \in Nat
  OBVIOUS
<1>2. IsFiniteSet(is) /\ n \in Nat
  BY <1>1, IndicesAreFinite
<1>3. rank \in [is -> 1 .. n]
  BY <1>1, UpToCardinality
<1>4. ASSUME NEW i \in is, NEW j \in is, rank[i] = rank[j] PROVE i = j
  <2>1. ~(i < j) /\ ~(j < i)
    <3>1. rank[i] \in Nat /\ rank[j] \in Nat
      BY <1>2, <1>3
    <3>2. i < j => rank[i] < rank[j]
      BY <1>1, UpToGrows
    <3>3. j < i => rank[j] < rank[i]
      BY <1>1, UpToGrows
    <3> QED
      BY <1>4, <3>1, <3>2, <3>3
  <2> QED
    BY <1>1, <2>1
<1>5. rank \in Injection(is, 1 .. n)
  BY <1>3, <1>4 DEF Injection, IsInjective
<1>6. IsFiniteSet(1 .. n) /\ Cardinality(1 .. n) = n
  BY <1>2, FS_Interval
<1>7. rank \in Surjection(is, 1 .. n)
  BY <1>5, <1>6, FS_Injection
<1>8. ASSUME NEW k \in 1 .. n
      PROVE  Nth(is, k) \in is /\ rank[Nth(is, k)] = k
  <2>1. \E i \in is : rank[i] = k
    BY <1>7 DEF Surjection
  <2>2. \E i \in is : Cardinality({j \in is : j <= i}) = k
    BY <2>1 DEF UpTo
  <2>3. Nth(is, k) \in is /\ Cardinality({j \in is : j <= Nth(is, k)}) = k
    BY <2>2, Zenon DEF Nth
  <2> QED
    BY <2>3, Zenon DEF UpTo
<1>9. ix \in [1 .. n -> is]
  BY <1>8
<1>10. \A k, l \in 1 .. n : k < l => ix[k] < ix[l]
  <2> SUFFICES ASSUME NEW k \in 1 .. n, NEW l \in 1 .. n, k < l PROVE ix[k] < ix[l]
    OBVIOUS
  <2>1. ix[k] \in is /\ ix[l] \in is /\ rank[ix[k]] = k /\ rank[ix[l]] = l
    BY <1>8
  <2>2. ix[l] < ix[k] => rank[ix[l]] < rank[ix[k]]
    BY <1>1, <2>1, UpToGrows
  <2>3. ix[k] # ix[l]
    BY <2>1
  <2>4. ~(ix[l] < ix[k])
    <3> HIDE DEF ix, rank
    <3> QED  BY <2>1, <2>2
  <2> QED
    <3>1. ix[k] \in Nat /\ ix[l] \in Nat
      BY <1>1, <2>1
    <3> HIDE DEF ix, rank
    <3> QED  BY <2>3, <2>4, <3>1
<1>11. ASSUME NEW i \in is PROVE \E k \in 1 .. n : ix[k] = i
  <2>1. rank[i] \in 1 .. n
    BY <1>3
  <2>2. ix[rank[i]] = i
    BY <1>8, <1>4, <2>1
  <2> QED
    BY <2>1, <2>2
<1>12. \A k \in 1 .. n : Pick(es, is)[k] = es[ix[k]]
  BY DEF Pick
<1>13. Pick(es, is) \in Seq(S) /\ Len(Pick(es, is)) = n
  <2>1. \A k \in 1 .. n : es[Nth(is, k)] \in S
    <3> TAKE k \in 1 .. n
    <3>1. Nth(is, k) \in DOMAIN es
      BY <1>8
    <3> QED
      BY <3>1
  <2>2. Pick(es, is) \in [1 .. n -> S]
    BY <2>1 DEF Pick
  <2> QED
    BY <1>2, <2>2
<1>14. InOrder(Pick(es, is), es, is, ix)
  <2> HIDE DEF ix
  <2> QED  BY <1>9, <1>10, <1>11, <1>12, <1>13 DEF InOrder
<1> QED
  BY <1>13, <1>14

-----------------------------------------------------------------------------
(* Lists of child specs.                                                   *)

LEMMA Reversed ==
  ASSUME NEW S, NEW es \in Seq(S)
  PROVE  /\ Reverse(es) \in Seq(S) /\ Len(Reverse(es)) = Len(es)
         /\ \A i \in 1 .. Len(es) :
              Len(es) + 1 - i \in 1 .. Len(es) /\ Reverse(es)[i] = es[Len(es) + 1 - i]
<1>1. \A i \in 1 .. Len(es) :
        (Len(es) - i) + 1 \in 1 .. Len(es) /\ (Len(es) - i) + 1 = Len(es) + 1 - i
  OBVIOUS
<1>2. Reverse(es) \in [1 .. Len(es) -> S]
  BY <1>1 DEF Reverse
<1>3. \A i \in 1 .. Len(es) : Reverse(es)[i] = es[(Len(es) - i) + 1]
  BY DEF Reverse
<1> QED
  BY <1>1, <1>2, <1>3

LEMMA Updated ==
  ASSUME NEW es \in Seq(ChildSpec), NEW e \in ChildSpec
  PROVE  /\ Update(es, e) \in Seq(ChildSpec) /\ Len(Update(es, e)) = Len(es)
         /\ \A i \in 1 .. Len(es) : Update(es, e)[i] = IF es[i].id = e.id THEN e ELSE es[i]
<1>1. Update(es, e) \in [1 .. Len(es) -> ChildSpec]
  BY DEF Update
<1>2. \A i \in 1 .. Len(es) : Update(es, e)[i] = IF es[i].id = e.id THEN e ELSE es[i]
  BY DEF Update
<1> QED
  BY <1>1, <1>2

\* What is taken out leaves the rest in its order.
LEMMA WithoutSome ==
  ASSUME NEW es \in Seq(ChildSpec), NEW ids
  PROVE  /\ Without(es, ids) \in Seq(ChildSpec)
         /\ \E ix : InOrder(Without(es, ids), es, {i \in DOMAIN es : es[i].id \notin ids}, ix)
<1>1. {i \in DOMAIN es : es[i].id \notin ids} \subseteq DOMAIN es
  OBVIOUS
<1> QED
  BY <1>1, PickInOrder DEF Without

\* The group that RestForOne and OneForAll stop, and what they keep.
LEMMA Splits ==
  ASSUME NEW es \in Seq(ChildSpec), NEW f \in 1 .. Len(es)
  PROVE  /\ SubSeq(es, 1, f - 1) \in Seq(ChildSpec) /\ Len(SubSeq(es, 1, f - 1)) = f - 1
         /\ \A i \in 1 .. f - 1 : SubSeq(es, 1, f - 1)[i] = es[i]
         /\ Reverse(SubSeq(es, f, Len(es))) \in Seq(ChildSpec)
         /\ Len(Reverse(SubSeq(es, f, Len(es)))) = Len(es) + 1 - f
         /\ \A j \in 1 .. Len(es) + 1 - f :
              /\ Len(es) + 1 - j \in f .. Len(es)
              /\ Reverse(SubSeq(es, f, Len(es)))[j] = es[Len(es) + 1 - j]
<1> DEFINE head == SubSeq(es, 1, f - 1)
           tail == SubSeq(es, f, Len(es))
<1>1. /\ head \in Seq(ChildSpec) /\ Len(head) = f - 1
      /\ \A i \in 1 .. f - 1 : head[i] = es[i]
  <2>1. \A i \in 1 .. f - 1 : es[i] \in ChildSpec
    OBVIOUS
  <2>2. f - 1 \in Int /\ 1 \in Int
    OBVIOUS
  <2>3. /\ head \in Seq(ChildSpec) /\ Len(head) = IF 1 <= f - 1 THEN f - 1 - 1 + 1 ELSE 0
        /\ \A i \in 1 .. f - 1 - 1 + 1 : head[i] = es[1 + i - 1]
    BY <2>1, <2>2, SubSeqProperties
  <2> QED
    BY <2>3
<1>2. /\ tail \in Seq(ChildSpec) /\ Len(tail) = Len(es) + 1 - f
      /\ \A i \in 1 .. Len(es) + 1 - f : tail[i] = es[f + i - 1]
  <2>1. \A i \in f .. Len(es) : es[i] \in ChildSpec
    OBVIOUS
  <2>2. f \in Int /\ Len(es) \in Int
    OBVIOUS
  <2>3. /\ tail \in Seq(ChildSpec) /\ Len(tail) = IF f <= Len(es) THEN Len(es) - f + 1 ELSE 0
        /\ \A i \in 1 .. Len(es) - f + 1 : tail[i] = es[f + i - 1]
    BY <2>1, <2>2, SubSeqProperties
  <2> QED
    BY <2>3
<1>3. /\ Reverse(tail) \in Seq(ChildSpec) /\ Len(Reverse(tail)) = Len(tail)
      /\ \A i \in 1 .. Len(tail) :
           Len(tail) + 1 - i \in 1 .. Len(tail) /\ Reverse(tail)[i] = tail[Len(tail) + 1 - i]
  BY <1>2, Reversed
<1>4. ASSUME NEW j \in 1 .. Len(es) + 1 - f
      PROVE  Len(es) + 1 - j \in f .. Len(es) /\ Reverse(tail)[j] = es[Len(es) + 1 - j]
  <2>1. Len(tail) + 1 - j \in 1 .. Len(es) + 1 - f /\ f + (Len(tail) + 1 - j) - 1 = Len(es) + 1 - j
    BY <1>2
  <2>2. Reverse(tail)[j] = tail[Len(tail) + 1 - j]
    BY <1>2, <1>3
  <2> QED
    BY <1>2, <2>1, <2>2
<1> QED
  BY <1>1, <1>2, <1>3, <1>4

LEMMA Found ==
  ASSUME NEW es \in Seq(ChildSpec), NEW id, Has(es, id)
  PROVE  \E i \in 1 .. Len(es) : Get(es, id) = es[i] /\ es[i].id = id /\ es[i] \in ChildSpec
<1> DEFINE i == CHOOSE i \in DOMAIN es : es[i].id = id
<1>1. i \in DOMAIN es /\ es[i].id = id
  BY Zenon DEF Has
<1>2. Get(es, id) = es[i]
  BY DEF Get
<1> HIDE DEF i
<1> QED
  BY <1>1, <1>2

\* A list of different children, and of processes of theirs.
Good(es, procs) == es \in Seq(ChildSpec) /\ CheckDups(es) /\ Refers(es, procs)

\* fs names some of the children of es, once each, by the processes es names.
Selects(fs, es, ix) ==
  /\ ix \in [1 .. Len(fs) -> 1 .. Len(es)]
  /\ \A k, l \in 1 .. Len(fs) : k # l => ix[k] # ix[l]
  /\ \A k \in 1 .. Len(fs) : fs[k].id = es[ix[k]].id /\ fs[k].pid = es[ix[k]].pid

LEMMA GoodSelection ==
  ASSUME NEW es, NEW procs, Good(es, procs), NEW fs \in Seq(ChildSpec), NEW ix,
         Selects(fs, es, ix)
  PROVE  Good(fs, procs)
<1>1. DOMAIN fs = 1 .. Len(fs) /\ DOMAIN es = 1 .. Len(es)
  BY DEF Good
<1>2. CheckDups(fs)
  BY <1>1, SMTT(20) DEF Good, CheckDups, Selects
<1>3. Refers(fs, procs)
  BY <1>1 DEF Good, Refers, Selects
<1> QED
  BY <1>2, <1>3 DEF Good

LEMMA ReverseSelects ==
  ASSUME NEW es \in Seq(ChildSpec)
  PROVE  /\ Reverse(es) \in Seq(ChildSpec)
         /\ Selects(Reverse(es), es, [k \in 1 .. Len(es) |-> Len(es) + 1 - k])
<1>1. /\ Reverse(es) \in Seq(ChildSpec) /\ Len(Reverse(es)) = Len(es)
      /\ \A i \in 1 .. Len(es) :
           Len(es) + 1 - i \in 1 .. Len(es) /\ Reverse(es)[i] = es[Len(es) + 1 - i]
  BY Reversed
<1> QED
  BY <1>1 DEF Selects

LEMMA WithoutSelects ==
  ASSUME NEW es \in Seq(ChildSpec), NEW ids
  PROVE  /\ Without(es, ids) \in Seq(ChildSpec)
         /\ \E ix : /\ Selects(Without(es, ids), es, ix)
                    /\ InOrder(Without(es, ids), es, {i \in DOMAIN es : es[i].id \notin ids}, ix)
<1> DEFINE is == {i \in DOMAIN es : es[i].id \notin ids}
           fs == Without(es, ids)
<1>1. fs \in Seq(ChildSpec)
  BY WithoutSome
<1>2. PICK ix : InOrder(fs, es, is, ix)
  BY WithoutSome
<1> HIDE DEF fs
<1>3. /\ ix \in [1 .. Len(fs) -> is]
      /\ \A k, l \in 1 .. Len(fs) : k < l => ix[k] < ix[l]
      /\ \A k \in 1 .. Len(fs) : fs[k] = es[ix[k]]
  BY <1>2 DEF InOrder
<1>4. is \subseteq 1 .. Len(es) /\ Len(es) \in Nat /\ Len(fs) \in Nat
  BY <1>1
<1> HIDE DEF is
<1>5. ix \in [1 .. Len(fs) -> 1 .. Len(es)]
  BY <1>3, <1>4
<1>6. ASSUME NEW k \in 1 .. Len(fs), NEW l \in 1 .. Len(fs), k # l PROVE ix[k] # ix[l]
  <2>1. k < l \/ l < k
    BY <1>4, <1>6
  <2>2. ix[k] \in Int /\ ix[l] \in Int
    BY <1>4, <1>5
  <2>3. ix[k] < ix[l] \/ ix[l] < ix[k]
    BY <1>3, <2>1
  <2> QED
    BY <2>2, <2>3
<1>7. Selects(fs, es, ix)
  BY <1>3, <1>5, <1>6 DEF Selects
<1> QED
  BY <1>1, <1>2, <1>7 DEF fs, is

LEMMA GoodReverse ==
  ASSUME NEW es, NEW procs, Good(es, procs)
  PROVE  Good(Reverse(es), procs) /\ Len(Reverse(es)) = Len(es)
BY GoodSelection, ReverseSelects, Reversed DEF Good

LEMMA GoodWithout ==
  ASSUME NEW es, NEW procs, Good(es, procs), NEW ids
  PROVE  Good(Without(es, ids), procs)
BY GoodSelection, WithoutSelects DEF Good

LEMMA GoodSplits ==
  ASSUME NEW es, NEW procs, Good(es, procs), NEW f \in 1 .. Len(es)
  PROVE  /\ Good(SubSeq(es, 1, f - 1), procs) /\ Good(Reverse(SubSeq(es, f, Len(es))), procs)
         /\ Apart(SubSeq(es, 1, f - 1), Reverse(SubSeq(es, f, Len(es))))
<1> DEFINE k == SubSeq(es, 1, f - 1)
           w == Reverse(SubSeq(es, f, Len(es)))
<1>1. es \in Seq(ChildSpec)
  BY DEF Good
<1>2. /\ k \in Seq(ChildSpec) /\ Len(k) = f - 1
      /\ \A i \in 1 .. f - 1 : k[i] = es[i]
      /\ w \in Seq(ChildSpec) /\ Len(w) = Len(es) + 1 - f
      /\ \A j \in 1 .. Len(es) + 1 - f :
           Len(es) + 1 - j \in f .. Len(es) /\ w[j] = es[Len(es) + 1 - j]
  BY <1>1, Splits
<1>3. Len(es) \in Nat
  BY <1>1
<1> HIDE DEF k, w
<1>4. Selects(k, es, [i \in 1 .. Len(k) |-> i])
  BY <1>2, <1>3 DEF Selects
<1>5. Selects(w, es, [j \in 1 .. Len(w) |-> Len(es) + 1 - j])
  BY <1>2, <1>3 DEF Selects
<1>6. Good(k, procs) /\ Good(w, procs)
  BY <1>2, <1>4, <1>5, GoodSelection
<1>7. Apart(k, w)
  <2> SUFFICES ASSUME NEW i \in DOMAIN k, NEW j \in DOMAIN w, k[i].id = w[j].id PROVE FALSE
    BY DEF Apart
  <2>1. i \in 1 .. f - 1 /\ j \in 1 .. Len(es) + 1 - f
    BY <1>2
  <2>2. es[i].id = es[Len(es) + 1 - j].id /\ Len(es) + 1 - j \in f .. Len(es)
    BY <1>2, <2>1
  <2>3. i \in DOMAIN es /\ Len(es) + 1 - j \in DOMAIN es
    BY <1>1, <2>1, <2>2
  <2>4. i = Len(es) + 1 - j
    BY <2>2, <2>3 DEF Good, CheckDups
  <2> QED
    BY <1>3, <2>1, <2>2, <2>4
<1> QED
  BY <1>6, <1>7 DEF k, w

\* Of two lists that have no child in common.
LEMMA GoodConcat ==
  ASSUME NEW es, NEW fs, NEW procs, Good(es, procs), Good(fs, procs), Apart(es, fs)
  PROVE  /\ Good(es \o fs, procs) /\ Len(es \o fs) = Len(es) + Len(fs)
         /\ \A i \in 1 .. Len(es) : (es \o fs)[i] = es[i]
         /\ \A j \in 1 .. Len(fs) :
              Len(es) + j \in 1 .. Len(es \o fs) /\ (es \o fs)[Len(es) + j] = fs[j]
<1>1. /\ es \in Seq(ChildSpec) /\ DOMAIN es = 1 .. Len(es) /\ Len(es) \in Nat
      /\ fs \in Seq(ChildSpec) /\ DOMAIN fs = 1 .. Len(fs) /\ Len(fs) \in Nat
  BY DEF Good
<1> DEFINE gs == es \o fs
<1>2. /\ gs \in Seq(ChildSpec) /\ Len(gs) = Len(es) + Len(fs)
      /\ \A i \in 1 .. Len(es) + Len(fs) : gs[i] = IF i <= Len(es) THEN es[i] ELSE fs[i - Len(es)]
  BY <1>1, ConcatProperties
<1>3. DOMAIN gs = 1 .. Len(es) + Len(fs)
  BY <1>2
<1> HIDE DEF gs
<1>4. \A i \in DOMAIN gs : \/ i \in DOMAIN es /\ gs[i] = es[i]
                           \/ i - Len(es) \in DOMAIN fs /\ gs[i] = fs[i - Len(es)]
  BY <1>1, <1>2, <1>3
<1>5. CheckDups(gs)
  <2>1. \A i \in DOMAIN gs : gs[i].id # Blank
    BY <1>4 DEF Good, CheckDups
  <2>2. ASSUME NEW i \in DOMAIN gs, NEW j \in DOMAIN gs, gs[i].id = gs[j].id PROVE i = j
    <3>1. i \in Int /\ j \in Int
      BY <1>3
    <3>2. CASE i \in DOMAIN es /\ gs[i] = es[i] /\ j \in DOMAIN es /\ gs[j] = es[j]
      BY <2>2, <3>2 DEF Good, CheckDups
    <3>3. CASE /\ i - Len(es) \in DOMAIN fs /\ gs[i] = fs[i - Len(es)]
               /\ j - Len(es) \in DOMAIN fs /\ gs[j] = fs[j - Len(es)]
      <4>1. i - Len(es) = j - Len(es)
        BY <2>2, <3>3 DEF Good, CheckDups
      <4> QED
        BY <1>1, <3>1, <4>1
    <3> QED
      BY <1>4, <2>2, <3>2, <3>3 DEF Apart
  <2> QED
    BY <2>1, <2>2 DEF CheckDups
<1>6. Refers(gs, procs)
  BY <1>4 DEF Good, Refers
<1>7. \A j \in 1 .. Len(fs) : Len(es) + j \in 1 .. Len(gs) /\ gs[Len(es) + j] = fs[j]
  BY <1>1, <1>2, SMTT(20)
<1>8. \A i \in 1 .. Len(es) : gs[i] = es[i]
  BY <1>1, <1>2
<1> QED
  BY <1>2, <1>5, <1>6, <1>7, <1>8 DEF Good, gs

\* A ChildSpec and the processes.
Refer(e, procs) == e.pid # 0 => e.pid \in DOMAIN procs /\ procs[e.pid].id = e.id

LEMMA GoodUpdate ==
  ASSUME NEW es, NEW procs, Good(es, procs), NEW e \in ChildSpec, Refer(e, procs)
  PROVE  /\ Good(Update(es, e), procs) /\ Len(Update(es, e)) = Len(es)
         /\ \A i \in 1 .. Len(es) : Update(es, e)[i] = IF es[i].id = e.id THEN e ELSE es[i]
<1>1. es \in Seq(ChildSpec) /\ DOMAIN es = 1 .. Len(es)
  BY DEF Good
<1> DEFINE fs == Update(es, e)
<1>2. /\ fs \in Seq(ChildSpec) /\ Len(fs) = Len(es)
      /\ \A i \in 1 .. Len(es) : fs[i] = IF es[i].id = e.id THEN e ELSE es[i]
  BY <1>1, Updated
<1>3. DOMAIN fs = DOMAIN es
  BY <1>1, <1>2
<1> HIDE DEF fs
<1>4. CheckDups(fs)
  BY <1>1, <1>2, <1>3 DEF Good, CheckDups
<1>5. Refers(fs, procs)
  BY <1>1, <1>2, <1>3 DEF Good, Refers, Refer
<1> QED
  BY <1>2, <1>4, <1>5 DEF Good, fs

LEMMA GoodAppend ==
  ASSUME NEW es, NEW procs, Good(es, procs), NEW e \in ChildSpec, Refer(e, procs), ~Has(es, e.id)
  PROVE  /\ Good(Append(es, e), procs) /\ Len(Append(es, e)) = Len(es) + 1
         /\ \A i \in 1 .. Len(es) : Append(es, e)[i] = es[i]
         /\ Append(es, e)[Len(es) + 1] = e
<1>1. es \in Seq(ChildSpec) /\ DOMAIN es = 1 .. Len(es) /\ Len(es) \in Nat
  BY DEF Good
<1> DEFINE fs == Append(es, e)
<1>2. /\ fs \in Seq(ChildSpec) /\ Len(fs) = Len(es) + 1 /\ DOMAIN fs = 1 .. Len(es) + 1
      /\ \A i \in 1 .. Len(es) : fs[i] = es[i]
      /\ fs[Len(es) + 1] = e
  BY <1>1
<1>3. e.id # Blank
  BY SupervisorAssumption DEF ChildSpec
<1>4. \A i \in DOMAIN fs : i \in DOMAIN es \/ i = Len(es) + 1
  BY <1>1, <1>2
<1> HIDE DEF fs
<1>5. CheckDups(fs)
  BY <1>1, <1>2, <1>3, <1>4 DEF Good, CheckDups, Has
<1>6. Refers(fs, procs)
  BY <1>1, <1>2, <1>4 DEF Good, Refers, Refer
<1> QED
  BY <1>2, <1>5, <1>6 DEF Good, fs

-----------------------------------------------------------------------------
(* The processes.                                                          *)

LEMMA ListsTyped ==
  ASSUME Typed
  PROVE  /\ children \in Seq(ChildSpec) /\ CheckDups(children)
         /\ kept \in Seq(ChildSpec) /\ CheckDups(kept)
         /\ order \in Seq(ChildSpec) /\ CheckDups(order)
         /\ work \in Seq(ChildSpec) /\ CheckDups(work)
BY DEF Typed

NewProcess(id) ==
  [id |-> id, running |-> TRUE, linked |-> TRUE, told |-> FALSE, reason |-> "none"]

Births == \E e \in ChildSpec : proc' = Append(proc, NewProcess(e.id))
Deaths == \E q \in DOMAIN proc, reason \in Reasons : Dies(q, reason)

\* What can happen to the processes.
LEMMA ProcChanges ==
  ASSUME Typed, Next
  PROVE  \/ (KillerUnlinks \/ KillerSignals \/ Births \/ UNCHANGED proc) /\ exits' \subseteq exits
         \/ Deaths
<1> DEFINE Goal == (Births \/ UNCHANGED proc) /\ exits' \subseteq exits
<1>1. CASE StopSkips \/ StopSpawnsKiller \/ KillerReports \/ StopDone \/ StartFails \/ StartDone
  BY <1>1 DEF StopSkips, StopSpawnsKiller, KillerReports, StopDone, StartFails, Fails, StartDone
<1>2. CASE KillerUnlinks \/ KillerSignals
  BY <1>2 DEF KillerUnlinks, KillerSignals
<1>3. ASSUME NEW e \in ChildSpec, NEW r, Starts(e, r) \/ Ignores(e, r)
      PROVE  Births \/ UNCHANGED proc
  BY <1>3 DEF Starts, Ignores, Births, NewProcess
<1>4. CASE StartChild
  <2>1. order[at] \in ChildSpec
    BY <1>4 DEF StartChild, Starting, Typed
  <2> QED
    BY <1>3, <1>4, <2>1 DEF StartChild
<1>5. ASSUME NEW m \in exits, NEW i \in Owners(m.pid),
             \/ ExitForgotten(m, i) \/ GivesUp(m, i) \/ RestartsOne(m, i) \/ RestartsGroup(m, i)
      PROVE  Goal
  <2>1. children[i] \in ChildSpec
    BY DEF Owners, Typed
  <2>2. CASE ExitForgotten(m, i) \/ GivesUp(m, i) \/ RestartsGroup(m, i)
    BY <2>2 DEF ExitForgotten, GivesUp, RestartsGroup, AddRestart
  <2>3. CASE RestartsOne(m, i)
    BY <1>3, <2>1, <2>3 DEF RestartsOne, AddRestart, Fails
  <2> QED
    BY <1>5, <2>2, <2>3
<1>6. CASE HandleExit
  BY <1>5, <1>6 DEF HandleExit, ExitOfNobody
<1>7. ASSUME NEW id \in Ids,
             DoStartChild(id) \/ DoTerminateChild(id) \/ DoRestartChild(id) \/ DoDeleteChild(id)
      PROVE  Goal
  <2>1. CASE DoTerminateChild(id) \/ DoDeleteChild(id)
    BY <2>1 DEF DoTerminateChild, DoDeleteChild
  <2>2. CASE DoStartChild(id)
    <3>1. NewChildSpec(id) \in ChildSpec
      BY DEF NewChildSpec, ChildSpec
    <3> QED
      BY <1>3, <2>2, <3>1 DEF DoStartChild, Fails
  <2>3. CASE DoRestartChild(id)
    <3>1. Get(children, id) \in ChildSpec
      BY <2>3, Found, ListsTyped DEF DoRestartChild
    <3>2. [Get(children, id) EXCEPT !.terminated = FALSE, !.ignored = FALSE] \in ChildSpec
      BY <3>1 DEF ChildSpec
    <3> QED
      BY <1>3, <2>3, <3>2 DEF DoRestartChild, Fails
  <2> QED
    BY <1>7, <2>1, <2>2, <2>3
<1>8. CASE Terminate \/ Tick
  BY <1>8 DEF Terminate, Tick
<1>9. CASE \E q \in DOMAIN proc :
             ChildObeys(q) \/ \E reason \in {"normal", "error"} : ChildDies(q, reason)
  BY <1>9 DEF ChildObeys, ChildDies, Deaths, Reasons
<1> QED
  BY <1>1, <1>2, <1>4, <1>6, <1>7, <1>8, <1>9 DEF Next, SupervisorStep

ProcTyped == proc \in Seq(Process) /\ exits \subseteq ExitMsg

\* Nobody changes its child, and nobody comes back.
ProcGrows ==
  /\ DOMAIN proc \subseteq DOMAIN proc'
  /\ \A q \in DOMAIN proc :
       /\ proc'[q].id = proc[q].id
       /\ ~proc[q].running => ~proc'[q].running /\ proc'[q].reason = proc[q].reason

LEMMA ProcStep ==
  ASSUME Typed, Heard, [Next]_vars
  PROVE  ProcTyped' /\ Heard' /\ ProcGrows
<1>1. ProcTyped /\ \A q \in DOMAIN proc : proc[q] \in Process
  BY DEF Typed, ProcTyped
<1> USE DEF ProcTyped, Heard, ProcGrows, ExitMsg
<1>2. CASE UNCHANGED proc /\ exits' \subseteq exits
  BY <1>1, <1>2
<1>3. CASE (KillerUnlinks \/ KillerSignals) /\ exits' \subseteq exits
  <2>1. PICK p : \/ proc' = [proc EXCEPT ![p].linked = FALSE]
                 \/ proc' = [proc EXCEPT ![p].told = TRUE]
    BY <1>3 DEF KillerUnlinks, KillerSignals
  <2>2. DOMAIN proc' = DOMAIN proc /\ proc' \in Seq(Process)
    <3>2. DOMAIN proc = 1 .. Len(proc) /\ Len(proc) \in Nat
      BY <1>1
    <3>3. PICK f \in [Process -> Process] :
            proc' = [q \in 1 .. Len(proc) |-> IF q = p THEN f[proc[q]] ELSE proc[q]]
      <4>1. CASE proc' = [proc EXCEPT ![p].linked = FALSE]
        <5> DEFINE f == [x \in Process |-> [x EXCEPT !.linked = FALSE]]
        <5>1. f \in [Process -> Process]
          BY DEF Process
        <5>2. proc' = [q \in 1 .. Len(proc) |-> IF q = p THEN f[proc[q]] ELSE proc[q]]
          BY <1>1, <3>2, <4>1
        <5> QED
          BY <5>1, <5>2
      <4>2. CASE proc' = [proc EXCEPT ![p].told = TRUE]
        <5> DEFINE f == [x \in Process |-> [x EXCEPT !.told = TRUE]]
        <5>1. f \in [Process -> Process]
          BY DEF Process
        <5>2. proc' = [q \in 1 .. Len(proc) |-> IF q = p THEN f[proc[q]] ELSE proc[q]]
          BY <1>1, <3>2, <4>2
        <5> QED
          BY <5>1, <5>2
      <4> QED
        BY <2>1, <4>1, <4>2
    <3>4. proc' \in [1 .. Len(proc) -> Process]
      BY <1>1, <3>2, <3>3
    <3> QED
      BY <3>2, <3>4
  <2>3. \A q \in DOMAIN proc : /\ proc'[q].id = proc[q].id
                               /\ proc'[q].running = proc[q].running
                               /\ proc'[q].reason = proc[q].reason
    BY <1>1, <2>1 DEF Process
  <2> QED
    BY <1>1, <1>3, <2>2, <2>3
<1>4. CASE Births /\ exits' \subseteq exits
  <2>1. PICK e \in ChildSpec : proc' = Append(proc, NewProcess(e.id))
    BY <1>4 DEF Births
  <2>2. NewProcess(e.id) \in Process
    BY DEF NewProcess, ChildSpec, Process
  <2>3. /\ proc' \in Seq(Process) /\ DOMAIN proc \subseteq DOMAIN proc'
        /\ \A q \in DOMAIN proc : proc'[q] = proc[q]
        /\ \A q \in DOMAIN proc' \ DOMAIN proc : proc'[q].reason = "none"
    BY <1>1, <2>1, <2>2 DEF NewProcess
  <2> QED
    BY <1>1, <1>4, <2>3
<1>5. CASE Deaths
  <2>1. PICK q \in DOMAIN proc, reason \in Reasons : Dies(q, reason)
    BY <1>5 DEF Deaths
  <2>2. /\ proc[q].running
        /\ proc' = [proc EXCEPT ![q].running = FALSE, ![q].linked = FALSE,
                                ![q].told = FALSE, ![q].reason = reason]
        /\ exits' \subseteq exits \cup {[pid |-> q, reason |-> reason]}
    BY <2>1 DEF Dies
  <2> DEFINE dead == [proc[q] EXCEPT !.running = FALSE, !.linked = FALSE,
                                     !.told = FALSE, !.reason = reason]
  <2>d. dead \in Process /\ dead.id = proc[q].id /\ ~dead.running /\ dead.reason = reason
    BY <1>1 DEF Process
  <2>e. proc' = [proc EXCEPT ![q] = dead]
    BY <2>2
  <2> HIDE DEF dead
  <2>3. DOMAIN proc' = DOMAIN proc /\ proc' \in Seq(Process)
    <3>1. proc' \in [1 .. Len(proc) -> Process]
      BY <1>1, <2>d, <2>e
    <3> QED
      BY <3>1
  <2>4. /\ \A p \in DOMAIN proc \ {q} : proc'[p] = proc[p]
        /\ proc'[q].id = proc[q].id /\ ~proc'[q].running /\ proc'[q].reason = reason
    BY <1>1, <2>d, <2>e
  <2>5. exits' \subseteq ExitMsg'
    BY <1>1, <2>2, <2>3
  <2>6. Heard'
    BY <1>1, <2>2, <2>4
  <2>7. ProcGrows
    BY <1>1, <2>2, <2>3, <2>4
  <2> QED
    BY <2>3, <2>5, <2>6, <2>7
<1>6. CASE UNCHANGED vars
  BY <1>1, <1>2, <1>6 DEF vars
<1> QED
  BY <1>2, <1>3, <1>4, <1>5, <1>6, ProcChanges

LEMMA GoodGrows ==
  ASSUME NEW es, Good(es, proc), ProcGrows
  PROVE  Good(es, proc')
BY DEF Good, Refers, ProcGrows

\* What dies stays dead.
LEMMA StaysDead ==
  ASSUME NEW es, Good(es, proc), ProcGrows, NEW i \in 1 .. Len(es), ~IsAlive(es[i].pid)
  PROVE  ~(es[i].pid # 0 /\ proc'[es[i].pid].running)
<1>1. i \in DOMAIN es
  BY DEF Good
<1> QED
  BY <1>1 DEF Good, Refers, ProcGrows, IsAlive

\* A process is of one entry of a list only.
LEMMA OneEntry ==
  ASSUME NEW es, Good(es, proc), NEW i \in 1 .. Len(es), NEW j \in 1 .. Len(es),
         NEW q \in DOMAIN proc, proc \in Seq(Process), es[i].pid = q, es[j].pid = q
  PROVE  i = j
<1>1. q # 0 /\ i \in DOMAIN es /\ j \in DOMAIN es
  BY DEF Good
<1>2. es[i].id = proc[q].id /\ es[j].id = proc[q].id
  BY <1>1 DEF Good, Refers
<1> QED
  BY <1>1, <1>2 DEF Good, CheckDups

LEMMA ApartEntries ==
  ASSUME NEW es, Good(es, proc), NEW fs, Good(fs, proc), Apart(es, fs),
         NEW i \in 1 .. Len(es), NEW j \in 1 .. Len(fs),
         NEW q \in DOMAIN proc, proc \in Seq(Process), es[i].pid = q, fs[j].pid = q
  PROVE  FALSE
<1>1. q # 0 /\ i \in DOMAIN es /\ j \in DOMAIN fs
  BY DEF Good
<1> QED
  BY <1>1 DEF Good, Refers, Apart

\* What becomes of a ChildSpec whose Start is called.
LEMMA StartOutcome ==
  ASSUME NEW e \in ChildSpec, NEW r \in {Started(e), Ignored(e)}, proc \in Seq(Process),
         Starts(e, r) \/ Ignores(e, r)
  PROVE  /\ r \in ChildSpec /\ r.id = e.id /\ r.terminated = e.terminated
         /\ Refer(r, proc')
         /\ \/ /\ r.pid = 0 /\ proc' = proc
            \/ /\ r.pid = Len(proc) + 1 /\ r.ignored = e.ignored
               /\ proc' = Append(proc, NewProcess(e.id))
               /\ DOMAIN proc' = DOMAIN proc \cup {r.pid} /\ r.pid \notin DOMAIN proc
               /\ \A q \in DOMAIN proc : q < r.pid /\ proc'[q] = proc[q]
               /\ proc'[r.pid] = NewProcess(e.id)
<1>1. CASE Starts(e, r)
  <2>1. r = Started(e) /\ proc' = Append(proc, NewProcess(e.id))
    BY <1>1 DEF Starts, NewProcess
  <2>2. /\ r \in ChildSpec /\ r.id = e.id /\ r.terminated = e.terminated
        /\ r.pid = Len(proc) + 1 /\ r.ignored = e.ignored
    BY <2>1 DEF Started, ChildSpec
  <2>3. /\ DOMAIN proc' = DOMAIN proc \cup {r.pid} /\ r.pid \notin DOMAIN proc
        /\ \A q \in DOMAIN proc : q < r.pid /\ proc'[q] = proc[q]
        /\ proc'[r.pid] = NewProcess(e.id)
    BY <2>1, <2>2
  <2>4. Refer(r, proc')
    BY <2>2, <2>3 DEF Refer, NewProcess
  <2> QED
    BY <2>1, <2>2, <2>3, <2>4
<1>2. CASE Ignores(e, r)
  BY <1>2 DEF Ignores, Ignored, ChildSpec, Refer
<1> QED
  BY <1>1, <1>2

\* Process r is started.
Born(r) ==
  /\ DOMAIN proc' = DOMAIN proc \cup {r}
  /\ \A q \in DOMAIN proc : q < r /\ proc'[q] = proc[q]

LEMMA StartOutcomeBorn ==
  ASSUME NEW e \in ChildSpec, NEW r \in {Started(e), Ignored(e)}, proc \in Seq(Process),
         Starts(e, r) \/ Ignores(e, r)
  PROVE  DOMAIN proc' = DOMAIN proc \/ (Born(r.pid) /\ proc'[r.pid].id = e.id)
<1>1. \/ r.pid = 0 /\ proc' = proc
      \/ /\ DOMAIN proc' = DOMAIN proc \cup {r.pid}
         /\ \A q \in DOMAIN proc : q < r.pid /\ proc'[q] = proc[q]
         /\ proc'[r.pid] = NewProcess(e.id)
  BY StartOutcome
<1>2. CASE r.pid = 0 /\ proc' = proc
  BY <1>2
<1>3. CASE /\ DOMAIN proc' = DOMAIN proc \cup {r.pid}
           /\ \A q \in DOMAIN proc : q < r.pid /\ proc'[q] = proc[q]
           /\ proc'[r.pid] = NewProcess(e.id)
  <2>1. Born(r.pid)
    BY <1>3 DEF Born
  <2>2. NewProcess(e.id).id = e.id
    BY DEF NewProcess
  <2> QED
    BY <1>3, <2>1, <2>2
<1> QED
  BY <1>1, <1>2, <1>3

-----------------------------------------------------------------------------
(* The lists, action by action.                                            *)

ListsGood ==
  /\ Good(children, proc) /\ Good(kept, proc) /\ Good(order, proc) /\ Good(work, proc)
  /\ Apart(kept, order) /\ Apart(kept, work)

AtTyped == at \in 1 .. (IF pc = "start" THEN Len(order) ELSE Len(work)) + 1

\* What the handlers' steps maintain together.
Core ==
  ListsGood /\ AtTyped /\ Control /\ OneTerminated /\ Account /\ Placed /\ Undisturbed

Base == Typed /\ Heard /\ RestartTypesKept /\ Core

LEMMA BaseFacts ==
  ASSUME Base
  PROVE  /\ ListsGood /\ AtTyped /\ proc \in Seq(Process) /\ requested \in Nat
         /\ children \in Seq(ChildSpec) /\ kept \in Seq(ChildSpec)
         /\ order \in Seq(ChildSpec) /\ work \in Seq(ChildSpec)
         /\ Len(children) \in Nat /\ Len(kept) \in Nat /\ Len(order) \in Nat /\ Len(work) \in Nat
         /\ DOMAIN children = 1 .. Len(children) /\ DOMAIN kept = 1 .. Len(kept)
         /\ DOMAIN order = 1 .. Len(order) /\ DOMAIN work = 1 .. Len(work)
         /\ DOMAIN proc \subseteq Nat \ {0}
<1>1. /\ ListsGood /\ AtTyped /\ proc \in Seq(Process) /\ requested \in Nat
      /\ children \in Seq(ChildSpec) /\ kept \in Seq(ChildSpec)
      /\ order \in Seq(ChildSpec) /\ work \in Seq(ChildSpec)
  BY ListsTyped DEF Base, Core, Typed
<1> QED
  BY <1>1

\* Only the processes, the clock and the ExitMsgs change, or a childKiller starts.
Quiet ==
  /\ UNCHANGED <<config, children, kept, order, work, at, why, requested, misled>>
  /\ DOMAIN proc' = DOMAIN proc
  /\ \/ UNCHANGED pc
     \/ Stopping /\ IsAlive(work[at].pid) /\ pc' = "kill"

LEMMA QuietStep ==
  ASSUME Base, Quiet, ProcGrows
  PROVE  Core'
<1> USE BaseFacts
<1>1. ListsGood'
  <2>1. /\ Good(children, proc') /\ Good(kept, proc') /\ Good(order, proc') /\ Good(work, proc')
    BY GoodGrows DEF ListsGood
  <2> QED
    BY <2>1 DEF ListsGood, Quiet
<1>2. AtTyped'
  BY DEF AtTyped, Quiet, Stopping
<1>3. Control'
  <2>1. pc' = "kill" => at <= Len(work) /\ work[at].pid \in DOMAIN proc
    <3>1. CASE UNCHANGED pc
      BY <3>1 DEF Base, Core, Control
    <3>2. CASE Stopping /\ IsAlive(work[at].pid)
      BY <3>2 DEF Stopping, IsAlive, ListsGood, Good, Refers, AtTyped
    <3> QED
      BY <3>1, <3>2 DEF Quiet
  <2> QED
    BY <2>1 DEF Base, Core, Control, Quiet, Stopping, config
<1>4. OneTerminated'
  <2>1. ASSUME Len(work) = 1, ~IsAlive(work[1].pid)
        PROVE  ~(work[1].pid # 0 /\ proc'[work[1].pid].running)
    BY <2>1, StaysDead DEF ListsGood
  <2> QED
    BY <2>1 DEF Base, Core, OneTerminated, Quiet, IsAlive
<1>5. Account'
  <2> SUFFICES ASSUME ~misled'
               PROVE  /\ \A q \in DOMAIN proc' : proc'[q].running => Held(q)'
                      /\ pc' = "start" =>
                           \A j \in at .. Len(order) :
                             ~(order[j].pid # 0 /\ proc'[order[j].pid].running)
    BY DEF Account, Quiet, IsAlive
  <2>1. ASSUME NEW q \in DOMAIN proc', proc'[q].running PROVE Held(q)'
    <3>1. q \in DOMAIN proc /\ proc[q].running
      BY <2>1 DEF Quiet, ProcGrows
    <3>2. Held(q)
      BY <3>1 DEF Base, Core, Account, Quiet
    <3> QED
      BY <3>2 DEF Held, Names, Quiet, Stopping
  <2>2. ASSUME pc' = "start", NEW j \in at .. Len(order)
        PROVE  ~(order[j].pid # 0 /\ proc'[order[j].pid].running)
    <3>1. pc = "start"
      BY <2>2 DEF Quiet
    <3>2. j \in 1 .. Len(order) /\ ~IsAlive(order[j].pid)
      BY <3>1 DEF Base, Core, Account, Quiet, AtTyped
    <3> QED
      BY <3>2, StaysDead DEF ListsGood
  <2> QED
    BY <2>1, <2>2
<1>6. Placed'
  <2>1. \A id : Place(id)' = Place(id)
    BY DEF Place, Quiet
  <2> QED
    BY <2>1 DEF Base, Core, Placed, Quiet, Stopping
<1>7. Undisturbed'
  <2>1. \A q \in DOMAIN proc : proc'[q].id = proc[q].id
    BY DEF ProcGrows
  <2> QED
    BY <2>1 DEF Base, Core, Undisturbed, Latest, Plain, Quiet, Stopping, config
<1> QED
  BY <1>1, <1>2, <1>3, <1>4, <1>5, <1>6, <1>7 DEF Core

-----------------------------------------------------------------------------
\* StopSkips and KillerReports: work[at] is down, and marked.
Marks ==
  /\ pc \in {"stop", "kill"} /\ at <= Len(work) /\ ~IsAlive(work[at].pid)
  /\ work' = Marked /\ at' = at + 1 /\ pc' = "stop"
  /\ UNCHANGED <<config, children, kept, order, why, proc, requested, misled>>

LEMMA MarksSteps ==
  ASSUME Base, StopSkips \/ KillerReports
  PROVE  Marks
<1>1. CASE StopSkips
  BY <1>1 DEF StopSkips, Stopping, Marks
<1>2. CASE KillerReports
  <2>1. pc = "kill" /\ at <= Len(work)
    BY <1>2 DEF KillerReports, Base, Typed, Core, Control
  <2> QED
    BY <1>2, <2>1 DEF KillerReports, KillerSeesDown, Marks
<1> QED
  BY <1>1, <1>2

LEMMA MarksStep ==
  ASSUME Base, Marks
  PROVE  Core'
<1> USE BaseFacts
<1>1. at \in 1 .. Len(work) /\ work[at] \in ChildSpec
  BY DEF Marks, AtTyped
<1>2. /\ work' \in Seq(ChildSpec) /\ Len(work') = Len(work)
      /\ \A j \in 1 .. Len(work) : work'[j].id = work[j].id /\ work'[j].pid = work[j].pid
  <2> DEFINE e == [work[at] EXCEPT !.terminated = TRUE]
  <2>1. e \in ChildSpec /\ e.id = work[at].id /\ e.pid = work[at].pid
    BY <1>1 DEF ChildSpec
  <2>2. work' = [work EXCEPT ![at] = e]
    BY DEF Marks, Marked
  <2> HIDE DEF e
  <2> QED
    BY <1>1, <2>1, <2>2
<1>3. DOMAIN work' = DOMAIN work
  BY <1>2
<1>4. ListsGood'
  <2>1. Selects(work', work, [j \in 1 .. Len(work') |-> j])
    BY <1>2 DEF Selects
  <2>2. Good(work', proc)
    BY <1>2, <2>1, GoodSelection DEF ListsGood
  <2>3. Apart(kept, work')
    BY <1>2, <1>3 DEF ListsGood, Apart
  <2> QED
    BY <2>2, <2>3 DEF ListsGood, Marks
<1>5. AtTyped'
  BY <1>1, <1>2 DEF AtTyped, Marks
<1>6. Control'
  BY <1>1 DEF Base, Core, Control, Marks, config
<1>7. OneTerminated'
  <2> SUFFICES ASSUME why = "request" PROVE OneTerminated'
    BY DEF OneTerminated, Marks
  <2>1. Len(work) = 1 /\ at = 1
    BY <1>1 DEF Base, Core, OneTerminated
  <2>2. ~IsAlive(work'[1].pid)
    BY <1>2, <2>1 DEF Marks
  <2> QED
    BY <1>2, <2>1, <2>2 DEF Base, Core, OneTerminated, Marks, IsAlive
<1>8. Account'
  <2> SUFFICES ASSUME ~misled, NEW q \in DOMAIN proc, proc[q].running
               PROVE  Held(q)'
    BY DEF Account, Marks
  <2>1. Held(q)
    BY DEF Base, Core, Account
  <2>2. CASE why = "request"
    BY <2>1, <2>2 DEF Held, Marks
  <2>3. CASE why # "request"
    <3>1. Names(kept, q) \/ \E j \in at .. Len(work) : work[j].pid = q
      BY <2>1, <2>3 DEF Held, Marks
    <3>2. work[at].pid # q
      BY DEF Marks, IsAlive
    <3>3. Names(kept, q) \/ \E j \in at + 1 .. Len(work) : work'[j].pid = q
      BY <1>1, <1>2, <3>1, <3>2, SMTT(20)
    <3> QED
      BY <1>2, <2>3, <3>3 DEF Held, Marks
  <2> QED
    BY <2>2, <2>3
<1>9. Placed'
  <2>1. \A id : Place(id)' = Place(id)
    BY DEF Place, Marks
  <2>2. Placed /\ UNCHANGED <<children, kept, order, why>> /\ pc \in {"stop", "kill"}
    BY DEF Base, Core, Marks
  <2>3. \A j \in DOMAIN work' : work'[j].id = work[j].id
    BY <1>2, <1>3
  <2> QED
    BY <1>3, <2>1, <2>2, <2>3 DEF Placed
<1>10. Undisturbed'
  BY DEF Base, Core, Undisturbed, Marks
<1> QED
  BY <1>4, <1>5, <1>6, <1>7, <1>8, <1>9, <1>10 DEF Core

-----------------------------------------------------------------------------
\* A child's place.
LEMMA PlaceOf ==
  ASSUME ListsGood, NEW i \in 1 .. Len(children)
  PROVE  Place(children[i].id) = i
<1>1. i \in DOMAIN children /\ CheckDups(children)
  BY DEF ListsGood, Good
<1> QED
  BY <1>1 DEF Place, CheckDups

\* fs are those of es that are not in ids, from the last to the first.
Backwards(fs, es, ids, ix) ==
  /\ ix \in [1 .. Len(fs) -> 1 .. Len(es)]
  /\ \A k, l \in 1 .. Len(fs) : k < l => ix[k] > ix[l]
  /\ \A k \in 1 .. Len(fs) : fs[k] = es[ix[k]] /\ fs[k].id \notin ids

\* What stopChildren returns, in start order.
LEMMA LeftInStartOrder ==
  ASSUME NEW es \in Seq(ChildSpec), NEW ids, NEW procs, Good(es, procs)
  PROVE  /\ Good(Reverse(Without(es, ids)), procs)
         /\ \E ix : Backwards(Reverse(Without(es, ids)), es, ids, ix)
<1> DEFINE gs == Without(es, ids)
           is == {i \in DOMAIN es : es[i].id \notin ids}
           fs == Reverse(gs)
<1>1. gs \in Seq(ChildSpec)
  BY WithoutSome
<1>2. PICK ix : InOrder(gs, es, is, ix)
  BY WithoutSome
<1>3. Good(gs, procs)
  BY GoodWithout
<1> HIDE DEF gs
<1>4. Good(fs, procs) /\ fs \in Seq(ChildSpec) /\ Len(fs) = Len(gs)
  BY <1>1, <1>3, GoodReverse, Reversed
<1>5. \A k \in 1 .. Len(fs) : Len(gs) + 1 - k \in 1 .. Len(gs) /\ fs[k] = gs[Len(gs) + 1 - k]
  BY <1>1, <1>4, Reversed
<1> HIDE DEF fs
<1>6. Len(gs) \in Nat /\ is \subseteq 1 .. Len(es) /\ Len(es) \in Nat /\ \A i \in is : es[i].id \notin ids
  BY <1>1
<1> HIDE DEF is
<1> DEFINE jx == [k \in 1 .. Len(fs) |-> ix[Len(gs) + 1 - k]]
<1>7. /\ ix \in [1 .. Len(gs) -> is]
      /\ \A k, l \in 1 .. Len(gs) : k < l => ix[k] < ix[l]
      /\ \A k \in 1 .. Len(gs) : gs[k] = es[ix[k]]
  BY <1>2 DEF InOrder
<1>8. jx \in [1 .. Len(fs) -> 1 .. Len(es)]
  BY <1>5, <1>6, <1>7
<1>9. ASSUME NEW k \in 1 .. Len(fs), NEW l \in 1 .. Len(fs), k < l PROVE jx[k] > jx[l]
  <2>1. /\ Len(gs) + 1 - k \in 1 .. Len(gs) /\ Len(gs) + 1 - l \in 1 .. Len(gs)
        /\ Len(gs) + 1 - l < Len(gs) + 1 - k
    BY <1>4, <1>5, <1>6, <1>9
  <2>2. ix[Len(gs) + 1 - l] < ix[Len(gs) + 1 - k]
    BY <1>7, <2>1
  <2>3. jx[k] \in Int /\ jx[l] \in Int
    BY <1>6, <1>8
  <2> QED
    BY <2>2, <2>3
<1>10. ASSUME NEW k \in 1 .. Len(fs) PROVE fs[k] = es[jx[k]] /\ fs[k].id \notin ids
  <2>1. Len(gs) + 1 - k \in 1 .. Len(gs) /\ fs[k] = gs[Len(gs) + 1 - k]
    BY <1>4, <1>5
  <2>2. ix[Len(gs) + 1 - k] \in is /\ gs[Len(gs) + 1 - k] = es[ix[Len(gs) + 1 - k]]
    BY <1>7, <2>1
  <2>3. jx[k] = ix[Len(gs) + 1 - k]
    OBVIOUS
  <2> QED
    BY <1>6, <2>1, <2>2, <2>3
<1> HIDE DEF jx
<1>11. Backwards(fs, es, ids, jx)
  BY <1>8, <1>9, <1>10 DEF Backwards
<1> QED
  BY <1>4, <1>11 DEF fs, gs

LEMMA StopDoneStep ==
  ASSUME Base, StopDone
  PROVE  Core'
<1> USE BaseFacts
<1>1. /\ pc = "stop" /\ at > Len(work) /\ at \in Nat /\ work \in Seq(ChildSpec)
      /\ UNCHANGED <<config, proc, requested, misled>>
  BY DEF StopDone, AtTyped
<1>2. \A q \in DOMAIN proc : ~misled /\ proc[q].running /\ why # "request" => Names(kept, q)
  BY <1>1 DEF Base, Core, Account, Held
<1>3. CASE /\ why = "restart"
           /\ order' = Reverse(Left) /\ work' = <<>> /\ at' = 1 /\ pc' = "start"
           /\ UNCHANGED <<children, kept, why>>
  <2>0. Good(work, proc) /\ order' = Reverse(Without(work, Temporaries))
    BY <1>3 DEF Left, ListsGood
  <2>1. Good(order', proc) /\ \E ix : Backwards(order', work, Temporaries, ix)
    BY <2>0, LeftInStartOrder
  <2>2. PICK ix \in [1 .. Len(order') -> 1 .. Len(work)] :
          /\ \A k, l \in 1 .. Len(order') : k < l => ix[k] > ix[l]
          /\ \A k \in 1 .. Len(order') : order'[k] = work[ix[k]] /\ order'[k].id \notin Temporaries
    BY <2>1 DEF Backwards
  <2>3. order' \in Seq(ChildSpec) /\ DOMAIN order' = 1 .. Len(order') /\ Len(order') \in Nat
    BY <2>1 DEF Good
  <2>4. Good(<<>>, proc) /\ Apart(kept, <<>>)
    BY DEF Good, CheckDups, Refers, Apart
  <2>5. Apart(kept, order')
    BY <2>2, <2>3 DEF ListsGood, Apart
  <2>6. ListsGood'
    BY <1>1, <1>3, <2>1, <2>4, <2>5 DEF ListsGood
  <2>7. AtTyped'
    BY <1>3, <2>3 DEF AtTyped
  <2>8. Control'
    BY <1>1, <1>3 DEF Base, Core, Control, config
  <2>9. OneTerminated'
    BY <1>3 DEF OneTerminated
  <2>10. Account'
    <3> SUFFICES ASSUME ~misled
                 PROVE  /\ \A q \in DOMAIN proc : proc[q].running => Held(q)'
                        /\ \A j \in 1 .. Len(order') : ~IsAlive(order'[j].pid)
      BY <1>1, <1>3 DEF Account, IsAlive
    <3>1. ASSUME NEW q \in DOMAIN proc, proc[q].running PROVE Held(q)'
      BY <1>2, <1>3, <3>1 DEF Held
    <3>2. ASSUME NEW j \in 1 .. Len(order'), IsAlive(order'[j].pid) PROVE FALSE
      <4> DEFINE p == order'[j].pid
      <4>1. ix[j] \in 1 .. Len(work) /\ work[ix[j]].pid = p
        BY <2>2
      <4>2. p \in DOMAIN proc /\ proc[p].running
        BY <3>2, <4>1 DEF IsAlive, ListsGood, Good, Refers
      <4>3. PICK i \in 1 .. Len(kept) : kept[i].pid = p
        BY <1>2, <1>3, <4>2 DEF Names
      <4> HIDE DEF p
      <4> QED
        BY <4>1, <4>2, <4>3, ApartEntries DEF ListsGood
    <3> QED
      BY <3>1, <3>2
  <2>11. Placed'
    <3>1. \A id : Place(id)' = Place(id)
      BY <1>3 DEF Place
    <3>2. /\ \A j \in 1 .. Len(work) : Has(children, work[j].id) /\ Place(work[j].id) > Len(kept)
          /\ \A j, k \in 1 .. Len(work) : j < k => Place(work[j].id) > Place(work[k].id)
          /\ Len(kept) <= Len(children) /\ \A i \in DOMAIN kept : kept[i].id = children[i].id
      BY <1>1, <1>3 DEF Base, Core, Placed
    <3>3. \A j \in 1 .. Len(order') :
            Has(children, order'[j].id) /\ Place(order'[j].id) > Len(kept)
      BY <2>2, <3>2
    <3>4. ASSUME NEW j \in 1 .. Len(order'), NEW k \in 1 .. Len(order'), j < k
          PROVE  Place(order'[j].id) < Place(order'[k].id)
      <4>1. ix[k] \in 1 .. Len(work) /\ ix[j] \in 1 .. Len(work) /\ ix[k] < ix[j]
        BY <2>2, <3>4
      <4>2. Place(work[ix[k]].id) > Place(work[ix[j]].id)
        BY <3>2, <4>1
      <4>3. Place(work[ix[k]].id) \in Int /\ Place(work[ix[j]].id) \in Int
        <5>1. Has(children, work[ix[k]].id) /\ Has(children, work[ix[j]].id)
          BY <3>2, <4>1
        <5> QED
          BY <5>1, PlaceOf DEF Has
      <4> QED
        BY <2>2, <4>2, <4>3
    <3>5. UNCHANGED <<children, kept>> /\ DOMAIN work' = {} /\ DOMAIN order' = 1 .. Len(order')
      BY <1>3, <2>3
    <3> QED
      BY <3>1, <3>2, <3>3, <3>4, <3>5 DEF Placed
  <2>12. Undisturbed'
    <3>1. \A j \in DOMAIN order' : Restart[order'[j].id] # "temporary"
      <4>1. \A j \in DOMAIN order' : order'[j].id \in Ids
        <5>1. \A j \in DOMAIN order' : order'[j] \in ChildSpec
          BY <2>3
        <5> QED
          BY <5>1 DEF ChildSpec
      <4> QED
        BY <2>2, <2>3, <4>1 DEF Temporaries
    <3> QED
      BY <1>1, <1>3, <3>1 DEF Base, Core, Undisturbed, Control, config
  <2> QED
    BY <2>6, <2>7, <2>8, <2>9, <2>10, <2>11, <2>12 DEF Core
<1>4. CASE why = "rollback" /\ children' = kept \o order /\ BackToLoop
  <2>1. Good(children', proc) /\ \A i \in 1 .. Len(kept) : children'[i] = kept[i] /\ i \in DOMAIN children'
    <3>1. /\ Good(children', proc) /\ Len(children') = Len(kept) + Len(order)
          /\ \A i \in 1 .. Len(kept) : children'[i] = kept[i]
      BY <1>4, GoodConcat DEF ListsGood
    <3> QED
      BY <3>1 DEF Good
  <2>2. Good(<<>>, proc) /\ Apart(<<>>, <<>>)
    BY DEF Good, CheckDups, Refers, Apart
  <2>3. ListsGood'
    BY <1>1, <1>4, <2>1, <2>2 DEF ListsGood, BackToLoop
  <2>4. AtTyped' /\ Control' /\ OneTerminated' /\ Placed'
    BY <1>4 DEF BackToLoop, AtTyped, Control, OneTerminated, Placed
  <2>5. Account'
    <3>1. ASSUME NEW q \in DOMAIN proc, proc[q].running, ~misled PROVE Names(children', q)
      BY <1>2, <1>4, <2>1, <3>1 DEF Names
    <3> QED
      BY <1>1, <1>4, <3>1 DEF BackToLoop, Account, Held
  <2>6. Undisturbed'
    BY <1>1, <1>4 DEF BackToLoop, Base, Core, Undisturbed, Control, config
  <2> QED
    BY <2>3, <2>4, <2>5, <2>6 DEF Core
<1>5. CASE why = "request" /\ children' = Update(children, [work[1] EXCEPT !.pid = 0]) /\ BackToLoop
  <2> DEFINE e == [work[1] EXCEPT !.pid = 0]
  <2>1. Len(work) = 1 /\ at = 2 /\ ~IsAlive(work[1].pid)
    <3>1. Len(work) = 1
      BY <1>5 DEF Base, Core, OneTerminated
    <3>2. at = 2
      BY <1>1, <3>1 DEF AtTyped
    <3> QED
      BY <1>5, <3>1, <3>2 DEF Base, Core, OneTerminated
  <2>2. PICK i \in DOMAIN children : children[i].id = work[1].id /\ children[i].pid = work[1].pid
    BY <1>5 DEF Base, Core, OneTerminated
  <2>3. e \in ChildSpec /\ Refer(e, proc) /\ e.id = work[1].id
    <3>1. work[1] \in ChildSpec
      <4>1. 1 \in 1 .. Len(work)
        BY <2>1
      <4> QED
        BY <4>1, ElementOfSeq
    <3> QED
      BY <3>1 DEF ChildSpec, Refer
  <2>4. children' = Update(children, e)
    BY <1>5
  <2> HIDE DEF e
  <2>5. /\ Good(children', proc) /\ Len(children') = Len(children)
        /\ \A j \in 1 .. Len(children) :
             children'[j] = IF children[j].id = e.id THEN e ELSE children[j]
    BY <2>3, <2>4, GoodUpdate DEF ListsGood
  <2>6. Good(<<>>, proc) /\ Apart(<<>>, <<>>)
    BY DEF Good, CheckDups, Refers, Apart
  <2>7. ListsGood'
    BY <1>1, <1>5, <2>5, <2>6 DEF ListsGood, BackToLoop
  <2>8. AtTyped' /\ Control' /\ OneTerminated' /\ Placed'
    BY <1>5 DEF BackToLoop, AtTyped, Control, OneTerminated, Placed
  <2>9. Account'
    <3>1. ASSUME NEW q \in DOMAIN proc, proc[q].running, ~misled PROVE Names(children', q)
      <4>1. PICK j \in DOMAIN children : children[j].pid = q
        BY <1>1, <1>5, <3>1 DEF Base, Core, Account, Held, Names
      <4>2. children[j].id # e.id
        <5>1. q # work[1].pid
          BY <2>1, <3>1 DEF IsAlive
        <5> QED
          BY <2>2, <2>3, <4>1, <5>1 DEF ListsGood, Good, CheckDups
      <4>3. children'[j] = children[j] /\ j \in DOMAIN children'
        BY <2>5, <4>2 DEF Good
      <4> QED
        BY <4>1, <4>3 DEF Names
    <3> QED
      BY <1>1, <1>5, <3>1 DEF BackToLoop, Account, Held
  <2>10. Undisturbed'
    BY <1>1, <1>5 DEF BackToLoop, Base, Core, Undisturbed
  <2> QED
    BY <2>7, <2>8, <2>9, <2>10 DEF Core
<1>6. CASE /\ why \in {"init", "intensity", "failed", "stopped"}
           /\ pc' = "ended"
           /\ UNCHANGED <<children, kept, order, work, at, why>>
  <2>1. ListsGood'
    BY <1>1, <1>6 DEF ListsGood
  <2>2. AtTyped' /\ OneTerminated' /\ Placed'
    BY <1>1, <1>6 DEF AtTyped, OneTerminated, Placed
  <2>3. Control'
    BY <1>1, <1>6 DEF Base, Core, Control, config
  <2>4. Account'
    <3>1. ASSUME NEW q \in DOMAIN proc, proc[q].running, ~misled PROVE FALSE
      BY <1>2, <1>6, <3>1 DEF Base, Core, Control, Names
    <3> QED
      BY <1>1, <1>6, <3>1 DEF Account
  <2>5. Undisturbed'
    BY <1>1, <1>6 DEF Base, Core, Undisturbed
  <2> QED
    BY <2>1, <2>2, <2>3, <2>4, <2>5 DEF Core
<1> QED
  BY <1>3, <1>4, <1>5, <1>6 DEF StopDone

-----------------------------------------------------------------------------
\* startChild writes the ChildSpec back where it was.
LEMMA Replaced ==
  ASSUME NEW es, NEW procs, Good(es, procs), NEW i \in 1 .. Len(es), NEW r \in ChildSpec,
         r.id = es[i].id, Refer(r, procs)
  PROVE  /\ Good([es EXCEPT ![i] = r], procs) /\ Len([es EXCEPT ![i] = r]) = Len(es)
         /\ \A j \in 1 .. Len(es) : [es EXCEPT ![i] = r][j] = IF j = i THEN r ELSE es[j]
<1>1. es \in Seq(ChildSpec) /\ DOMAIN es = 1 .. Len(es)
  BY DEF Good
<1> DEFINE fs == [es EXCEPT ![i] = r]
<1>2. /\ fs \in Seq(ChildSpec) /\ Len(fs) = Len(es)
      /\ \A j \in 1 .. Len(es) : fs[j] = IF j = i THEN r ELSE es[j]
  BY <1>1
<1>3. DOMAIN fs = DOMAIN es
  BY <1>1, <1>2
<1> HIDE DEF fs
<1>4. CheckDups(fs)
  BY <1>1, <1>2, <1>3 DEF Good, CheckDups
<1>5. Refers(fs, procs)
  BY <1>1, <1>2, <1>3 DEF Good, Refers, Refer
<1> QED
  BY <1>2, <1>4, <1>5 DEF Good, fs

LEMMA StartChildStep ==
  ASSUME Base, StartChild, ProcGrows
  PROVE  Core'
<1> USE BaseFacts
<1>1. /\ pc = "start" /\ at \in 1 .. Len(order) /\ at' = at + 1 /\ why \in {"init", "restart"}
      /\ UNCHANGED <<config, children, kept, work, killer, pc, why, requested, misled>>
  BY DEF StartChild, Starting, AtTyped, Base, Core, Control
<1> DEFINE e == order[at]
<1>2. e \in ChildSpec
  BY <1>1
<1>3. PICK r \in {Started(e), Ignored(e)} :
        (Starts(e, r) \/ Ignores(e, r)) /\ order' = [order EXCEPT ![at] = r]
  BY DEF StartChild
<1>4. /\ r \in ChildSpec /\ r.id = e.id /\ r.terminated = e.terminated
      /\ Refer(r, proc')
      /\ \/ /\ r.pid = 0 /\ proc' = proc
         \/ /\ r.pid = Len(proc) + 1 /\ r.ignored = e.ignored
            /\ proc' = Append(proc, NewProcess(e.id))
            /\ DOMAIN proc' = DOMAIN proc \cup {r.pid} /\ r.pid \notin DOMAIN proc
            /\ \A q \in DOMAIN proc : q < r.pid /\ proc'[q] = proc[q]
            /\ proc'[r.pid] = NewProcess(e.id)
  BY <1>2, <1>3, StartOutcome
<1>5. /\ Good(children, proc') /\ Good(kept, proc') /\ Good(order, proc') /\ Good(work, proc')
  BY GoodGrows DEF ListsGood
<1>6. /\ Good(order', proc') /\ Len(order') = Len(order) /\ DOMAIN order' = DOMAIN order
      /\ \A j \in 1 .. Len(order) : order'[j] = IF j = at THEN r ELSE order[j]
  <2>1. /\ Good(order', proc') /\ Len(order') = Len(order)
        /\ \A j \in 1 .. Len(order) : order'[j] = IF j = at THEN r ELSE order[j]
    BY <1>1, <1>3, <1>4, <1>5, Replaced
  <2> QED
    BY <2>1 DEF Good
<1>7. \A j \in 1 .. Len(order) : order'[j].id = order[j].id
  BY <1>4, <1>6
<1>8. \A j \in 1 .. Len(order) : j # at => order[j].id # e.id
  BY <1>1 DEF ListsGood, Good, CheckDups
<1> HIDE DEF e
<1>9. ListsGood'
  <2>1. Apart(kept, order')
    BY <1>6, <1>7 DEF ListsGood, Apart
  <2> QED
    BY <1>1, <1>5, <1>6, <2>1 DEF ListsGood
<1>10. AtTyped'
  BY <1>1, <1>6 DEF AtTyped
<1>11. Control' /\ OneTerminated'
  BY <1>1 DEF Base, Core, Control, OneTerminated, config
<1>12. Account'
  <2> SUFFICES ASSUME ~misled
               PROVE  /\ \A q \in DOMAIN proc' : proc'[q].running => Held(q)'
                      /\ \A j \in at + 1 .. Len(order) :
                           ~(order'[j].pid # 0 /\ proc'[order'[j].pid].running)
    BY <1>1, <1>6 DEF Account, IsAlive
  <2>1. /\ \A q \in DOMAIN proc : proc[q].running => Held(q)
        /\ \A j \in at .. Len(order) : ~IsAlive(order[j].pid)
    BY <1>1 DEF Base, Core, Account
  <2>2. ASSUME NEW q \in DOMAIN proc', proc'[q].running PROVE Names(kept, q) \/ Names(order', q)
    <3>1. CASE q \in DOMAIN proc
      <4>1. proc[q].running
        BY <2>2, <3>1 DEF ProcGrows
      <4>2. Names(kept, q) \/ Names(order, q)
        BY <1>1, <2>1, <3>1, <4>1 DEF Held
      <4>3. ASSUME NEW j \in DOMAIN order, order[j].pid = q PROVE j # at
        BY <1>1, <2>1, <3>1, <4>1, <4>3 DEF IsAlive
      <4> QED
        BY <1>6, <4>2, <4>3 DEF Names
    <3>2. CASE q \notin DOMAIN proc
      <4>1. q = r.pid /\ order'[at] = r /\ at \in DOMAIN order'
        BY <1>1, <1>4, <1>6, <3>2
      <4> QED
        BY <4>1 DEF Names
    <3> QED
      BY <3>1, <3>2
  <2>3. ASSUME NEW j \in at + 1 .. Len(order)
        PROVE  ~(order'[j].pid # 0 /\ proc'[order'[j].pid].running)
    <3>1. j \in 1 .. Len(order) /\ j # at /\ j \in at .. Len(order)
      BY <1>1
    <3>2. order'[j] = order[j] /\ ~IsAlive(order[j].pid)
      BY <1>6, <2>1, <3>1
    <3> QED
      BY <3>1, <3>2, StaysDead DEF ListsGood
  <2>4. \A q \in DOMAIN proc' : proc'[q].running => Held(q)'
    BY <1>1, <2>2 DEF Held
  <2> QED
    BY <2>3, <2>4
<1>13. Placed'
  <2>1. \A id : Place(id)' = Place(id)
    BY <1>1 DEF Place
  <2> QED
    BY <1>1, <1>6, <1>7, <2>1 DEF Base, Core, Placed
<1>14. Undisturbed'
  <2> SUFFICES ASSUME requested = 0 PROVE Undisturbed'
    BY <1>1 DEF Undisturbed
  <2>1. ~misled /\ why # "request"
    BY DEF Base, Core, Undisturbed
  <2>2. ASSUME why = "init", NEW j \in at + 1 .. Len(order)
        PROVE  ~order'[j].ignored /\ \A q \in DOMAIN proc' : proc'[q].id # order'[j].id
    <3>1. j \in 1 .. Len(order) /\ j # at /\ j \in at .. Len(order)
      BY <1>1
    <3>2. order'[j] = order[j] /\ order[j].id # e.id
      BY <1>6, <1>8, <3>1
    <3>3. ~order[j].ignored /\ \A q \in DOMAIN proc : proc[q].id # order[j].id
      BY <1>1, <2>2, <3>1 DEF Base, Core, Undisturbed
    <3> QED
      BY <1>4, <3>2, <3>3 DEF NewProcess
  <2>3. ASSUME why = "restart", NEW j \in DOMAIN order' PROVE Restart[order'[j].id] # "temporary"
    BY <1>1, <1>6, <1>7, <2>3 DEF Base, Core, Undisturbed
  <2>4. ASSUME flags.strategy = "one_for_one" PROVE Latest(order', proc') /\ Plain(order')
    <3>1. why = "init"
      BY <1>1, <2>4 DEF Base, Core, Control
    <3>2. Latest(order, proc) /\ Plain(order) /\ ~e.ignored
      BY <1>1, <2>4, <3>1 DEF Base, Core, Undisturbed, e
    <3>3. ASSUME NEW j \in DOMAIN order', order'[j].pid # 0, NEW q \in DOMAIN proc',
                 proc'[q].id = order'[j].id
          PROVE  q <= order'[j].pid
      <4>1. CASE j = at
        BY <1>4, <1>6, <3>3, <4>1
      <4>2. CASE j # at
        <5>1. order'[j] = order[j] /\ order[j].id # e.id /\ j \in DOMAIN order
          BY <1>6, <1>8, <4>2
        <5>2. q \in DOMAIN proc /\ proc'[q] = proc[q]
          BY <1>4, <3>3, <5>1 DEF NewProcess
        <5> QED
          BY <3>2, <3>3, <5>1, <5>2 DEF Latest
      <4> QED
        BY <4>1, <4>2
    <3>4. Plain(order')
      BY <1>1, <1>4, <1>6, <3>2 DEF Plain, e
    <3> QED
      BY <3>3, <3>4 DEF Latest
  <2> QED
    BY <1>1, <1>6, <2>1, <2>2, <2>3, <2>4 DEF Undisturbed, config
<1> QED
  BY <1>9, <1>10, <1>11, <1>12, <1>13, <1>14 DEF Core

\* Who is named is named in the reverse, too.
LEMMA ReverseNames ==
  ASSUME NEW es \in Seq(ChildSpec), NEW q, Names(es, q)
  PROVE  \E j \in 1 .. Len(Reverse(es)) : Reverse(es)[j].pid = q
<1>1. PICK i \in 1 .. Len(es) : es[i].pid = q
  BY DEF Names
<1>2. /\ Len(Reverse(es)) = Len(es)
      /\ \A j \in 1 .. Len(es) :
           Len(es) + 1 - j \in 1 .. Len(es) /\ Reverse(es)[j] = es[Len(es) + 1 - j]
  BY Reversed
<1>3. Len(es) + 1 - i \in 1 .. Len(es) /\ Len(es) + 1 - (Len(es) + 1 - i) = i
  OBVIOUS
<1>4. Reverse(es)[Len(es) + 1 - i] = es[i]
  BY <1>2, <1>3
<1> QED
  BY <1>1, <1>2, <1>3, <1>4

LEMMA StartFailsStep ==
  ASSUME Base, StartFails
  PROVE  Core'
<1> USE BaseFacts
<1>1. /\ pc = "start" /\ at \in 1 .. Len(order) /\ why \in {"init", "restart"}
      /\ work' = Reverse(order) /\ at' = 1 /\ pc' = "stop"
      /\ why' = IF why = "init" THEN "init" ELSE "rollback"
      /\ UNCHANGED <<config, children, kept, order, proc, requested, misled>>
  BY DEF StartFails, Fails, BeginStop, StopOrder, Starting, AtTyped, Base, Core, Control
<1>2. Good(work', proc) /\ work' \in Seq(ChildSpec) /\ Len(work') = Len(order)
  BY <1>1, GoodReverse, Reversed DEF ListsGood
<1>3. \A j \in 1 .. Len(order) : /\ Len(order) + 1 - j \in 1 .. Len(order)
                                 /\ work'[j] = order[Len(order) + 1 - j]
  BY <1>1, Reversed
<1>4. DOMAIN work' = 1 .. Len(order)
  BY <1>2
<1>5. ListsGood'
  <2>1. Apart(kept, work')
    BY <1>3, <1>4 DEF ListsGood, Apart
  <2> QED
    BY <1>1, <1>2, <2>1 DEF ListsGood
<1>6. AtTyped' /\ Control' /\ OneTerminated'
  BY <1>1, <1>2 DEF AtTyped, Base, Core, Control, OneTerminated, config
<1>7. Account'
  <2>1. ASSUME NEW q \in DOMAIN proc, proc[q].running, ~misled PROVE Held(q)'
    <3>1. Names(kept, q) \/ Names(order, q)
      BY <1>1, <2>1 DEF Base, Core, Account, Held
    <3>2. Names(kept, q) \/ \E j \in 1 .. Len(work') : work'[j].pid = q
      BY <1>1, <3>1, ReverseNames
    <3> QED
      BY <1>1, <3>2 DEF Held
  <2> QED
    BY <1>1, <2>1 DEF Account
<1>8. Placed'
  <2>1. \A id : Place(id)' = Place(id)
    BY <1>1 DEF Place
  <2>2. Placed /\ why # "request"
    BY <1>1 DEF Base, Core
  <2>3. \A j \in 1 .. Len(order) : Has(children, work'[j].id) /\ Place(work'[j].id) > Len(kept)
    BY <1>1, <1>3, <2>2 DEF Placed
  <2>4. ASSUME NEW j \in 1 .. Len(order), NEW k \in 1 .. Len(order), j < k
        PROVE  Place(work'[j].id) > Place(work'[k].id)
    <3>1. Len(order) + 1 - k < Len(order) + 1 - j
      BY <2>4
    <3>2. \A l, m \in DOMAIN order : l < m => Place(order[l].id) < Place(order[m].id)
      BY <1>1, <2>2 DEF Placed
    <3>3. Len(order) + 1 - k \in DOMAIN order /\ Len(order) + 1 - j \in DOMAIN order
      BY <1>3
    <3>4. work'[k] = order[Len(order) + 1 - k] /\ work'[j] = order[Len(order) + 1 - j]
      BY <1>3
    <3>5. Place(work'[k].id) < Place(work'[j].id)
      BY <3>1, <3>2, <3>3, <3>4
    <3>6. Place(work'[k].id) \in Int /\ Place(work'[j].id) \in Int
      BY <2>3, PlaceOf DEF Has
    <3> QED
      BY <3>5, <3>6
  <2> QED
    BY <1>1, <1>4, <2>1, <2>2, <2>3, <2>4 DEF Placed
<1>9. Undisturbed'
  BY <1>1 DEF Base, Core, Undisturbed
<1> QED
  BY <1>5, <1>6, <1>7, <1>8, <1>9 DEF Core

LEMMA StartDoneStep ==
  ASSUME Base, StartDone
  PROVE  Core'
<1> USE BaseFacts
<1>1. /\ pc = "start" /\ why \in {"init", "restart"} /\ work = <<>> /\ BackToLoop
      /\ children' = kept \o order
      /\ at = Len(order) + 1
      /\ UNCHANGED <<config, proc, requested, misled>>
  BY DEF StartDone, AtTyped, Base, Core, Control
<1>2. /\ Good(children', proc) /\ Len(children') = Len(kept) + Len(order)
      /\ \A i \in 1 .. Len(kept) : children'[i] = kept[i]
      /\ \A j \in 1 .. Len(order) :
           Len(kept) + j \in 1 .. Len(children') /\ children'[Len(kept) + j] = order[j]
  BY <1>1, GoodConcat DEF ListsGood
<1>3. DOMAIN children' = 1 .. Len(kept) + Len(order)
  BY <1>2 DEF Good
<1>4. Good(<<>>, proc) /\ Apart(<<>>, <<>>)
  BY DEF Good, CheckDups, Refers, Apart
<1>5. ListsGood'
  BY <1>1, <1>2, <1>4 DEF ListsGood, BackToLoop
<1>6. AtTyped' /\ Control' /\ OneTerminated' /\ Placed'
  BY <1>1 DEF BackToLoop, AtTyped, Control, OneTerminated, Placed
<1>7. Account'
  <2>1. ASSUME NEW q \in DOMAIN proc, proc[q].running, ~misled PROVE Names(children', q)
    <3>1. Names(kept, q) \/ Names(order, q)
      BY <1>1, <2>1 DEF Base, Core, Account, Held
    <3>2. CASE Names(kept, q)
      BY <1>2, <1>3, <3>2 DEF Names
    <3>3. CASE Names(order, q)
      BY <1>2, <1>3, <3>3 DEF Names
    <3> QED
      BY <3>1, <3>2, <3>3
  <2> QED
    BY <1>1, <2>1 DEF BackToLoop, Account, Held
<1>8. Undisturbed'
  <2>1. ASSUME requested = 0, flags.strategy = "one_for_one"
        PROVE  Latest(children', proc) /\ Plain(children')
    <3>1. kept = <<>> /\ Latest(order, proc) /\ Plain(order)
      BY <1>1, <2>1 DEF Base, Core, Control, Undisturbed
    <3>2. children' = order
      BY <1>1, <3>1, ConcatEmptySeq
    <3> QED
      BY <3>1, <3>2
  <2> QED
    BY <1>1, <2>1 DEF BackToLoop, Base, Core, Undisturbed, config
<1> QED
  BY <1>5, <1>6, <1>7, <1>8 DEF Core

\* The supervisor leaves its loop, and ends when its children are stopped.
StopsAll ==
  /\ pc = "idle"
  /\ work' = Reverse(children) /\ at' = 1 /\ pc' = "stop"
  /\ why' \in {"intensity", "failed", "stopped"}
  /\ requested' \in {requested, requested + 1}
  /\ UNCHANGED <<config, children, kept, order, proc, misled>>

LEMMA StopsAllStep ==
  ASSUME Base, StopsAll
  PROVE  Core'
<1> USE BaseFacts
<1>1. kept = <<>> /\ order = <<>>
  BY DEF StopsAll, Base, Core, Control
<1>2. Good(work', proc) /\ work' \in Seq(ChildSpec) /\ Len(work') = Len(children)
  BY GoodReverse, Reversed DEF ListsGood, StopsAll
<1>3. \A j \in 1 .. Len(children) : /\ Len(children) + 1 - j \in 1 .. Len(children)
                                    /\ work'[j] = children[Len(children) + 1 - j]
  BY Reversed DEF StopsAll
<1>4. DOMAIN work' = 1 .. Len(children)
  BY <1>2
<1>5. ListsGood'
  <2>1. Apart(<<>>, work')
    BY DEF Apart
  <2> QED
    BY <1>1, <1>2, <2>1 DEF ListsGood, StopsAll
<1>6. AtTyped' /\ Control' /\ OneTerminated'
  BY <1>1, <1>2 DEF AtTyped, Base, Core, Control, OneTerminated, config, StopsAll
<1>7. Account'
  <2>1. ASSUME NEW q \in DOMAIN proc, proc[q].running, ~misled PROVE Held(q)'
    <3>1. Names(children, q)
      BY <2>1 DEF Base, Core, Account, Held, StopsAll
    <3>2. \E j \in 1 .. Len(work') : work'[j].pid = q
      BY <3>1, ReverseNames DEF StopsAll
    <3> QED
      BY <3>2 DEF Held, StopsAll
  <2> QED
    BY <2>1 DEF Account, StopsAll
<1>8. Placed'
  <2>1. \A id : Place(id)' = Place(id)
    BY DEF Place, StopsAll
  <2>2. \A j \in 1 .. Len(children) :
          Has(children, work'[j].id) /\ Place(work'[j].id) = Len(children) + 1 - j
    BY <1>3, PlaceOf DEF Has
  <2>3. /\ \A j \in 1 .. Len(children) : Len(children) + 1 - j > 0
        /\ \A j, k \in 1 .. Len(children) : j < k => Len(children) + 1 - j > Len(children) + 1 - k
    OBVIOUS
  <2> QED
    BY <1>1, <1>4, <2>1, <2>2, <2>3 DEF Placed, StopsAll
<1>9. Undisturbed'
  BY DEF Base, Core, Undisturbed, StopsAll
<1> QED
  BY <1>5, <1>6, <1>7, <1>8, <1>9 DEF Core

\* A handler that returns to the loop.
IdleStays ==
  /\ pc = "idle"
  /\ UNCHANGED <<config, kept, order, work, at, pc, why>>
  /\ requested' \in {requested, requested + 1}
  /\ ~misled' => ~misled
  /\ requested' = 0 => misled' = misled

\* Every running process has its ChildSpec, and these are as one_for_one leaves them.
AllNamed == \A q \in DOMAIN proc : proc[q].running => Names(children, q)
Untouched == Latest(children, proc) /\ Plain(children)

LEMMA IdleStaysStep ==
  ASSUME Base, IdleStays, Good(children, proc)', ~misled' => AllNamed',
         requested' = 0 /\ flags.strategy = "one_for_one" => Untouched'
  PROVE  Core'
<1> USE BaseFacts
<1>1. kept = <<>> /\ order = <<>> /\ work = <<>> /\ why = "none" /\ pc = "idle" /\ pc' = "idle"
  BY DEF IdleStays, Base, Core, Control
<1>2. Good(<<>>, proc)' /\ Apart(<<>>, <<>>)
  BY DEF Good, CheckDups, Refers, Apart
<1>3. ListsGood'
  BY <1>1, <1>2 DEF ListsGood, IdleStays
<1>4. AtTyped' /\ Control' /\ OneTerminated' /\ Placed'
  BY <1>1 DEF IdleStays, Base, Core, AtTyped, Control, OneTerminated, Placed, config
<1>5. Account'
  BY <1>1 DEF IdleStays, Account, Held, AllNamed
<1>6. Undisturbed'
  <2> SUFFICES ASSUME requested' = 0 PROVE Undisturbed'
    BY DEF Undisturbed
  <2>1. requested = 0
    BY DEF IdleStays
  <2>2. ~misled'
    BY <2>1 DEF IdleStays, Base, Core, Undisturbed
  <2> QED
    BY <1>1, <2>2 DEF Undisturbed, IdleStays, Untouched, config
<1> QED
  BY <1>3, <1>4, <1>5, <1>6 DEF Core

\* What every running process is named by, while the supervisor is in its loop.
LEMMA LoopNames ==
  ASSUME Base, pc = "idle", ~misled
  PROVE  AllNamed
BY DEF Base, Core, Account, Held, AllNamed

LEMMA LoopUntouched ==
  ASSUME Base, pc = "idle", requested = 0, flags.strategy = "one_for_one"
  PROVE  Untouched
BY DEF Base, Core, Undisturbed, Untouched

\* ExitForgotten and DoDeleteChild: a child that is down is taken from the list.
Drops(i) ==
  /\ IdleStays /\ UNCHANGED proc
  /\ i \in 1 .. Len(children)
  /\ children' = Without(children, {children[i].id})
  /\ ~misled' => ~IsAlive(children[i].pid)

LEMMA DropsStep ==
  ASSUME Base, NEW i, Drops(i)
  PROVE  Core'
<1> USE BaseFacts
<1> DEFINE is == {j \in DOMAIN children : children[j].id \notin {children[i].id}}
<1>1. Good(children', proc)
  BY GoodWithout DEF Drops, ListsGood
<1>2. PICK ix : InOrder(children', children, is, ix)
  BY WithoutSome DEF Drops
<1>3. DOMAIN children' = 1 .. Len(children')
  BY <1>1 DEF Good
<1>4. /\ ix \in [1 .. Len(children') -> is]
      /\ \A k \in 1 .. Len(children') : children'[k] = children[ix[k]]
      /\ \A j \in is : \E k \in 1 .. Len(children') : ix[k] = j
  BY <1>2 DEF InOrder
<1>5. ASSUME ~misled' PROVE AllNamed'
  <2>1. ASSUME NEW q \in DOMAIN proc, proc[q].running PROVE Names(children', q)
    <3>1. PICK j \in DOMAIN children : children[j].pid = q
      BY <1>5, <2>1, LoopNames DEF Drops, IdleStays, AllNamed, Names
    <3>2. j # i
      BY <1>5, <2>1, <3>1 DEF Drops, IsAlive
    <3>3. j \in is
      BY <3>1, <3>2 DEF ListsGood, Good, CheckDups, Drops
    <3>4. PICK k \in 1 .. Len(children') : ix[k] = j
      BY <1>4, <3>3
    <3> HIDE DEF is
    <3> QED
      BY <1>3, <1>4, <3>1, <3>4 DEF Names
  <2> QED
    BY <2>1 DEF AllNamed, Drops
<1>6. ASSUME requested' = 0, flags.strategy = "one_for_one" PROVE Untouched'
  <2>1. Untouched
    BY <1>6, LoopUntouched DEF Drops, IdleStays
  <2>2. \A k \in DOMAIN children' : \E j \in DOMAIN children : children'[k] = children[j]
    BY <1>3, <1>4
  <2>3. Latest(children', proc) /\ Plain(children')
    BY <2>1, <2>2 DEF Untouched, Latest, Plain
  <2> QED
    BY <2>3 DEF Untouched, Drops
<1>7. Good(children, proc)'
  BY <1>1 DEF Drops
<1> QED
  BY <1>5, <1>6, <1>7, IdleStaysStep DEF Drops

\* RestartsOne and DoRestartChild: a child that is down is started again.
Revives(i, e, r) ==
  /\ IdleStays
  /\ i \in 1 .. Len(children)
  /\ e \in ChildSpec /\ e.id = children[i].id
  /\ r \in {Started(e), Ignored(e)} /\ (Starts(e, r) \/ Ignores(e, r))
  /\ children' = Update(children, r)
  /\ ~misled' => ~IsAlive(children[i].pid)
  /\ requested' = 0 => e = children[i] /\ e.pid # 0

LEMMA RevivesStep ==
  ASSUME Base, ProcGrows, NEW i, NEW e, NEW r, Revives(i, e, r)
  PROVE  Core'
<1> USE BaseFacts
<1>1. /\ r \in ChildSpec /\ r.id = e.id /\ r.terminated = e.terminated
      /\ Refer(r, proc')
      /\ \/ /\ r.pid = 0 /\ proc' = proc
         \/ /\ r.pid = Len(proc) + 1 /\ r.ignored = e.ignored
            /\ proc' = Append(proc, NewProcess(e.id))
            /\ DOMAIN proc' = DOMAIN proc \cup {r.pid} /\ r.pid \notin DOMAIN proc
            /\ \A q \in DOMAIN proc : q < r.pid /\ proc'[q] = proc[q]
            /\ proc'[r.pid] = NewProcess(e.id)
  BY StartOutcome DEF Revives
<1>2. Good(children, proc')
  BY GoodGrows DEF ListsGood
<1>3. /\ Good(children', proc') /\ Len(children') = Len(children)
      /\ \A j \in 1 .. Len(children) :
           children'[j] = IF children[j].id = r.id THEN r ELSE children[j]
  BY <1>1, <1>2, GoodUpdate DEF Revives
<1>4. DOMAIN children' = DOMAIN children
  BY <1>3 DEF Good
<1>5. i \in DOMAIN children /\ children'[i] = r
      /\ \A j \in DOMAIN children : j # i => children'[j] = children[j] /\ children[j].id # r.id
  BY <1>1, <1>3 DEF ListsGood, Good, CheckDups, Revives
<1>6. ASSUME ~misled' PROVE AllNamed'
  <2>1. ASSUME NEW q \in DOMAIN proc', proc'[q].running PROVE Names(children', q)
    <3>1. CASE q \in DOMAIN proc
      <4>1. proc[q].running
        BY <2>1, <3>1 DEF ProcGrows
      <4>2. PICK j \in DOMAIN children : children[j].pid = q
        BY <1>6, <3>1, <4>1, LoopNames DEF Revives, IdleStays, AllNamed, Names
      <4>3. j # i
        BY <1>6, <3>1, <4>1, <4>2 DEF Revives, IsAlive
      <4> QED
        BY <1>4, <1>5, <4>2, <4>3 DEF Names
    <3>2. CASE q \notin DOMAIN proc
      BY <1>1, <1>4, <1>5, <2>1, <3>2 DEF Names
    <3> QED
      BY <3>1, <3>2
  <2> QED
    BY <2>1 DEF AllNamed
<1>7. ASSUME requested' = 0, flags.strategy = "one_for_one" PROVE Untouched'
  <2>1. Latest(children, proc) /\ Plain(children)
    BY <1>7, LoopUntouched DEF Revives, IdleStays, Untouched
  <2>2. e = children[i] /\ e.pid # 0
    BY <1>7 DEF Revives
  <2>3. ASSUME NEW j \in DOMAIN children', children'[j].pid # 0, NEW q \in DOMAIN proc',
               proc'[q].id = children'[j].id
        PROVE  q <= children'[j].pid
    <3>1. CASE j = i
      BY <1>1, <1>5, <2>3, <3>1
    <3>2. CASE j # i
      <4>1. children'[j] = children[j] /\ children[j].id # e.id /\ j \in DOMAIN children
        BY <1>1, <1>4, <1>5, <3>2
      <4>2. q \in DOMAIN proc /\ proc'[q] = proc[q]
        BY <1>1, <2>3, <4>1 DEF NewProcess
      <4> QED
        BY <2>1, <2>3, <4>1, <4>2 DEF Latest
    <3> QED
      BY <3>1, <3>2
  <2>4. Plain(children')
    BY <1>1, <1>4, <1>5, <2>1, <2>2 DEF Plain
  <2> QED
    BY <2>3, <2>4 DEF Untouched, Latest
<1> QED
  BY <1>3, <1>6, <1>7, IdleStaysStep DEF Revives

\* The inactive child of DoTerminateChild, and a Start that fails in DoRestartChild:
\* the ChildSpec is written, and names the same process or, if that is down, none.
Rewrites(i, e) ==
  /\ IdleStays /\ UNCHANGED proc /\ requested' # 0
  /\ i \in 1 .. Len(children)
  /\ e \in ChildSpec /\ e.id = children[i].id
  /\ children' = Update(children, e)
  /\ e.pid = children[i].pid \/ e.pid = 0
  /\ ~misled' /\ e.pid # children[i].pid => ~IsAlive(children[i].pid)

LEMMA RewritesStep ==
  ASSUME Base, NEW i, NEW e, Rewrites(i, e)
  PROVE  Core'
<1> USE BaseFacts
<1>1. e \in ChildSpec /\ Refer(e, proc)
  BY DEF Rewrites, Refer, ListsGood, Good, Refers
<1>2. /\ Good(children', proc) /\ Len(children') = Len(children)
      /\ \A j \in 1 .. Len(children) :
           children'[j] = IF children[j].id = e.id THEN e ELSE children[j]
  <2> DEFINE es == Update(children, e)
  <2>1. Good(children, proc)
    BY DEF ListsGood
  <2>2. /\ Good(es, proc) /\ Len(es) = Len(children)
        /\ \A j \in 1 .. Len(children) :
             es[j] = IF children[j].id = e.id THEN e ELSE children[j]
    BY <1>1, <2>1, GoodUpdate
  <2>3. children' = es
    BY DEF Rewrites
  <2> HIDE DEF es
  <2> QED
    BY <2>2, <2>3
<1>3. DOMAIN children' = DOMAIN children
  BY <1>2 DEF Good
<1>4. i \in DOMAIN children /\ children'[i] = e
      /\ \A j \in DOMAIN children : j # i => children'[j] = children[j]
  BY <1>2 DEF ListsGood, Good, CheckDups, Rewrites
<1>5. ASSUME ~misled' PROVE AllNamed'
  <2>1. ASSUME NEW q \in DOMAIN proc, proc[q].running PROVE Names(children', q)
    <3>1. PICK j \in DOMAIN children : children[j].pid = q
      BY <1>5, <2>1, LoopNames DEF Rewrites, IdleStays, AllNamed, Names
    <3>2. j # i \/ children'[i].pid = q
      BY <1>4, <1>5, <2>1, <3>1 DEF Rewrites, IsAlive
    <3> QED
      BY <1>3, <1>4, <3>1, <3>2 DEF Names
  <2> QED
    BY <2>1 DEF AllNamed, Rewrites
<1>6. Good(children, proc)'
  BY <1>2 DEF Rewrites
<1> QED
  BY <1>5, <1>6, IdleStaysStep DEF Rewrites

-----------------------------------------------------------------------------
\* An ExitMsg comes from a child that is down.
LEMMA OwnerIsDown ==
  ASSUME Base, NEW m \in exits, NEW i \in Owners(m.pid)
  PROVE  /\ i \in 1 .. Len(children) /\ children[i] \in ChildSpec
         /\ children[i].pid = m.pid /\ m.pid # 0 /\ ~IsAlive(children[i].pid)
<1> USE BaseFacts
<1>1. m.pid \in DOMAIN proc /\ ~proc[m.pid].running
  BY DEF Base, Typed, ExitMsg, Heard
<1>2. i \in 1 .. Len(children) /\ children[i].pid = m.pid
  BY DEF Owners
<1> QED
  BY <1>1, <1>2 DEF IsAlive

LEMMA ExitForgottenStep ==
  ASSUME Base, NEW m \in exits, NEW i \in Owners(m.pid), ExitForgotten(m, i)
  PROVE  Core'
<1>1. Drops(i)
  BY OwnerIsDown DEF ExitForgotten, Drops, IdleStays, loops
<1> QED
  BY <1>1, DropsStep

LEMMA GivesUpStep ==
  ASSUME Base, NEW m \in exits, NEW i \in Owners(m.pid), GivesUp(m, i)
  PROVE  Core'
<1>1. StopsAll
  BY DEF GivesUp, AddRestart, BeginStop, StopOrder, StopsAll
<1> QED
  BY <1>1, StopsAllStep

LEMMA RestartsOneStep ==
  ASSUME Base, ProcGrows, NEW m \in exits, NEW i \in Owners(m.pid), RestartsOne(m, i)
  PROVE  Core'
<1>1. CASE Fails /\ BeginStop(StopOrder(children), "failed") /\ UNCHANGED children
  <2>1. StopsAll
    BY <1>1 DEF RestartsOne, AddRestart, BeginStop, StopOrder, StopsAll, Fails
  <2> QED
    BY <2>1, StopsAllStep
<1>2. CASE /\ \E r \in {Started(children[i]), Ignored(children[i])} :
                /\ Starts(children[i], r) \/ Ignores(children[i], r)
                /\ children' = Update(children, r)
           /\ UNCHANGED <<work, at, pc, why>>
  <2>1. IdleStays
    BY <1>2 DEF RestartsOne, AddRestart, IdleStays
  <2>2. PICK r \in {Started(children[i]), Ignored(children[i])} :
          /\ Starts(children[i], r) \/ Ignores(children[i], r)
          /\ children' = Update(children, r)
    BY <1>2
  <2>3. Revives(i, children[i], r)
    BY <2>1, <2>2, OwnerIsDown DEF Revives
  <2> QED
    BY <2>3, RevivesStep
<1> QED
  BY <1>1, <1>2 DEF RestartsOne

LEMMA RestartsGroupStep ==
  ASSUME Base, NEW m \in exits, NEW i \in Owners(m.pid), RestartsGroup(m, i)
  PROVE  Core'
<1> USE BaseFacts
<1> DEFINE f == First(i)
<1>1. f \in 1 .. Len(children)
  <2>1. i \in 1 .. Len(children)
    BY OwnerIsDown
  <2> QED
    BY <2>1 DEF First
<1>2. /\ pc = "idle" /\ kept' = SubSeq(children, 1, f - 1)
      /\ work' = Reverse(SubSeq(children, f, Len(children)))
      /\ at' = 1 /\ pc' = "stop" /\ why' = "restart"
      /\ flags.strategy # "one_for_one"
      /\ UNCHANGED <<config, children, order, proc, requested, misled>>
  BY DEF RestartsGroup, Kept, BeginStop, StopOrder, AddRestart
<1>3. order = <<>>
  BY <1>2 DEF Base, Core, Control
<1> HIDE DEF f
<1>4. Good(kept', proc) /\ Good(work', proc) /\ Apart(kept', work')
  BY <1>1, <1>2, GoodSplits DEF ListsGood
<1>5. /\ Len(kept') = f - 1
      /\ \A l \in 1 .. f - 1 : kept'[l] = children[l]
      /\ Len(work') = Len(children) + 1 - f
      /\ \A j \in 1 .. Len(children) + 1 - f :
           /\ Len(children) + 1 - j \in f .. Len(children)
           /\ work'[j] = children[Len(children) + 1 - j]
  <2> DEFINE head == SubSeq(children, 1, f - 1)
             tail == Reverse(SubSeq(children, f, Len(children)))
  <2>1. /\ Len(head) = f - 1 /\ \A l \in 1 .. f - 1 : head[l] = children[l]
        /\ Len(tail) = Len(children) + 1 - f
        /\ \A j \in 1 .. Len(children) + 1 - f :
             /\ Len(children) + 1 - j \in f .. Len(children)
             /\ tail[j] = children[Len(children) + 1 - j]
    BY <1>1, Splits
  <2>2. kept' = head /\ work' = tail
    BY <1>2
  <2> HIDE DEF head, tail
  <2> QED
    BY <2>1, <2>2
<1>6. DOMAIN kept' = 1 .. f - 1 /\ DOMAIN work' = 1 .. Len(children) + 1 - f
  BY <1>4, <1>5 DEF Good
<1>7. ListsGood'
  <2>1. Apart(kept', <<>>)
    BY DEF Apart
  <2> QED
    BY <1>2, <1>3, <1>4, <2>1 DEF ListsGood
<1>8. AtTyped' /\ Control' /\ OneTerminated'
  BY <1>1, <1>2, <1>3, <1>5 DEF AtTyped, Base, Core, Control, OneTerminated, config
<1>9. Account'
  <2>1. ASSUME NEW q \in DOMAIN proc, proc[q].running, ~misled PROVE Held(q)'
    <3>1. PICK l \in 1 .. Len(children) : children[l].pid = q
      BY <1>2, <2>1, LoopNames DEF AllNamed, Names
    <3>2. CASE l < f
      <4>1. l \in 1 .. f - 1
        BY <1>1, <3>2
      <4>2. Names(kept', q)
        BY <1>5, <1>6, <3>1, <4>1 DEF Names
      <4> QED
        BY <1>2, <4>2 DEF Held
    <3>3. CASE l >= f
      <4>1. /\ Len(children) + 1 - l \in 1 .. Len(children) + 1 - f
            /\ Len(children) + 1 - (Len(children) + 1 - l) = l
        BY <1>1, <3>3
      <4>2. work'[Len(children) + 1 - l].pid = q
        BY <1>5, <3>1, <4>1
      <4> QED
        BY <1>2, <1>5, <4>1, <4>2 DEF Held
    <3> QED
      BY <1>1, <3>2, <3>3
  <2> QED
    BY <1>2, <2>1 DEF Account
<1>10. Placed'
  <2>1. \A id : Place(id)' = Place(id)
    BY <1>2 DEF Place
  <2>2. ASSUME NEW j \in 1 .. Len(children) + 1 - f
        PROVE  /\ Has(children, work'[j].id) /\ Place(work'[j].id) > Len(kept')
               /\ Place(work'[j].id) = Len(children) + 1 - j
    <3>1. Len(children) + 1 - j \in 1 .. Len(children) /\ Len(children) + 1 - j > f - 1
      BY <1>1
    <3> QED
      BY <1>5, <3>1, PlaceOf DEF Has
  <2>3. \A j, k \in 1 .. Len(children) + 1 - f :
          j < k => Len(children) + 1 - j > Len(children) + 1 - k
    BY <1>1
  <2>4. Len(kept') <= Len(children)
    BY <1>1, <1>5
  <2>5. \A l \in 1 .. f - 1 : kept'[l].id = children[l].id
    BY <1>5
  <2>6. \A j \in DOMAIN work' : Has(children', work'[j].id) /\ Place(work[j].id)' > Len(kept')
    BY <1>2, <1>6, <2>1, <2>2
  <2>7. \A j, k \in DOMAIN work' : j < k => Place(work[j].id)' > Place(work[k].id)'
    BY <1>6, <2>1, <2>2, <2>3
  <2>8. DOMAIN order' = {}
    BY <1>2, <1>3
  <2>9. \A l \in DOMAIN kept' : kept'[l].id = children'[l].id
    BY <1>2, <1>6, <2>5
  <2>10. Len(kept') <= Len(children')
    BY <1>2, <2>4
  <2> QED
    BY <2>6, <2>7, <2>8, <2>9, <2>10 DEF Placed
<1>11. Undisturbed'
  BY <1>2 DEF Base, Core, Undisturbed
<1> QED
  BY <1>7, <1>8, <1>9, <1>10, <1>11 DEF Core

-----------------------------------------------------------------------------
LEMMA DoStartChildStep ==
  ASSUME Base, ProcGrows, NEW id \in Ids, DoStartChild(id)
  PROVE  Core'
<1> USE BaseFacts
<1>1. /\ IdleStays /\ requested' # 0 /\ ~Has(children, id) /\ UNCHANGED misled /\ pc = "idle"
  BY DEF DoStartChild, Request, IdleStays, loops
<1>2. CASE Fails /\ UNCHANGED children
  <2>1. UNCHANGED proc
    BY <1>2 DEF Fails
  <2>2. ~misled' => AllNamed'
    BY <1>1, <1>2, <2>1, LoopNames DEF AllNamed, Names
  <2> QED
    BY <1>1, <1>2, <2>1, <2>2, IdleStaysStep DEF ListsGood
<1>3. CASE \E r \in {Started(NewChildSpec(id)), Ignored(NewChildSpec(id))} :
             /\ Starts(NewChildSpec(id), r) \/ Ignores(NewChildSpec(id), r)
             /\ children' = Append(children, r)
  <2> DEFINE e == NewChildSpec(id)
  <2>1. e \in ChildSpec /\ e.id = id
    BY DEF NewChildSpec, ChildSpec
  <2>2. PICK r \in {Started(e), Ignored(e)} :
          (Starts(e, r) \/ Ignores(e, r)) /\ children' = Append(children, r)
    BY <1>3
  <2> HIDE DEF e
  <2>3. /\ r \in ChildSpec /\ r.id = id /\ Refer(r, proc')
        /\ \A q \in DOMAIN proc' : q \in DOMAIN proc \/ q = r.pid
    <3>1. r \in ChildSpec /\ r.id = e.id /\ Refer(r, proc')
      BY <2>1, <2>2, StartOutcome
    <3>2. DOMAIN proc' = DOMAIN proc \/ (Born(r.pid) /\ proc'[r.pid].id = e.id)
      BY <2>1, <2>2, StartOutcomeBorn
    <3> QED
      BY <2>1, <3>1, <3>2 DEF Born
  <2>4. Good(children, proc')
    BY GoodGrows DEF ListsGood
  <2>5. /\ Good(children', proc') /\ Len(children') = Len(children) + 1
        /\ \A i \in 1 .. Len(children) : children'[i] = children[i]
        /\ children'[Len(children) + 1] = r
    BY <1>1, <2>2, <2>3, <2>4, GoodAppend
  <2>6. DOMAIN children' = 1 .. Len(children) + 1
    BY <2>5 DEF Good
  <2>7. ASSUME ~misled', NEW q \in DOMAIN proc', proc'[q].running PROVE Names(children', q)
    <3>1. CASE q \in DOMAIN proc
      <4>1. proc[q].running
        BY <2>7, <3>1 DEF ProcGrows
      <4>2. PICK i \in DOMAIN children : children[i].pid = q
        BY <1>1, <2>7, <3>1, <4>1, LoopNames DEF AllNamed, Names
      <4> QED
        BY <2>5, <2>6, <4>2 DEF Names
    <3>2. CASE q = r.pid
      <4>1. Len(children) + 1 \in DOMAIN children'
        BY <2>6
      <4> QED
        BY <2>5, <3>2, <4>1 DEF Names
    <3> QED
      BY <2>3, <3>1, <3>2
  <2>8. ~misled' => AllNamed'
    BY <2>7 DEF AllNamed
  <2> QED
    BY <1>1, <2>5, <2>8, IdleStaysStep
<1> QED
  BY <1>2, <1>3 DEF DoStartChild

LEMMA DoTerminateChildStep ==
  ASSUME Base, NEW id \in Ids, DoTerminateChild(id)
  PROVE  Core'
<1> USE BaseFacts
<1>1. PICK i \in 1 .. Len(children) :
        Get(children, id) = children[i] /\ children[i].id = id /\ children[i] \in ChildSpec
  BY Found DEF DoTerminateChild
<1> DEFINE e == children[i]
<1>2. /\ pc = "idle" /\ requested' = requested + 1 /\ requested' # 0
      /\ misled' = (misled \/ Lies(e))
      /\ UNCHANGED <<config, kept, order, proc>>
  BY <1>1 DEF DoTerminateChild, Request
<1>3. CASE Active(e) /\ BeginStop(<<e>>, "request") /\ UNCHANGED children
  <2>1. /\ work' = <<e>> /\ at' = 1 /\ pc' = "stop" /\ why' = "request" /\ UNCHANGED children
        /\ ~misled' => ~misled
    BY <1>2, <1>3 DEF BeginStop
  <2>2. kept = <<>> /\ order = <<>>
    BY <1>2 DEF Base, Core, Control
  <2>3. Good(<<e>>, proc)
    <3>1. Selects(<<e>>, children, [k \in 1 .. 1 |-> i])
      BY DEF Selects
    <3>2. <<e>> \in Seq(ChildSpec)
      BY <1>1
    <3> QED
      BY <3>1, <3>2, GoodSelection DEF ListsGood
  <2> HIDE DEF e
  <2>4. Apart(<<>>, <<e>>)
    BY DEF Apart
  <2>5. ListsGood'
    BY <1>2, <2>1, <2>2, <2>3, <2>4 DEF ListsGood
  <2>6. AtTyped' /\ Control' /\ Placed'
    BY <1>2, <2>1, <2>2 DEF AtTyped, Base, Core, Control, Placed, config
  <2>7. OneTerminated'
    BY <2>1 DEF OneTerminated, e
  <2>8. Account'
    BY <1>2, <2>1, LoopNames DEF Account, Held, AllNamed, Names
  <2>9. Undisturbed'
    BY <1>2 DEF Undisturbed
  <2> QED
    BY <2>5, <2>6, <2>7, <2>8, <2>9 DEF Core
<1>4. CASE /\ ~Active(e)
           /\ children' = Update(children, [e EXCEPT !.terminated = TRUE, !.pid = 0])
           /\ UNCHANGED <<work, at, pc, why>>
  <2> DEFINE f == [e EXCEPT !.terminated = TRUE, !.pid = 0]
  <2>1. f \in ChildSpec /\ f.id = e.id /\ f.pid = 0
    BY <1>1 DEF ChildSpec
  <2>2. children' = Update(children, f)
    BY <1>4
  <2> HIDE DEF f
  <2>3. IdleStays
    BY <1>2, <1>4 DEF IdleStays
  <2>4. Rewrites(i, f)
    BY <1>2, <1>4, <2>1, <2>2, <2>3 DEF Rewrites, Lies
  <2> QED
    BY <2>4, RewritesStep
<1> QED
  BY <1>1, <1>3, <1>4 DEF DoTerminateChild

LEMMA DoRestartChildStep ==
  ASSUME Base, ProcGrows, NEW id \in Ids, DoRestartChild(id)
  PROVE  Core'
<1> USE BaseFacts
<1>1. PICK i \in 1 .. Len(children) :
        Get(children, id) = children[i] /\ children[i].id = id /\ children[i] \in ChildSpec
  BY Found DEF DoRestartChild
<1> DEFINE e == [children[i] EXCEPT !.terminated = FALSE, !.ignored = FALSE]
<1>2. e \in ChildSpec /\ e.id = children[i].id /\ e.pid = children[i].pid
  BY <1>1 DEF ChildSpec
<1>3. /\ IdleStays /\ requested' # 0
      /\ ~misled' => ~IsAlive(children[i].pid)
  <2>1. /\ pc = "idle" /\ requested' = requested + 1 /\ requested' # 0
        /\ UNCHANGED <<config, kept, order, work, at, pc, why>>
    BY DEF DoRestartChild, Request, loops
  <2>2. misled' = (misled \/ Lies(children[i])) /\ ~Active(children[i])
    BY <1>1 DEF DoRestartChild
  <2>3. ~misled' => ~misled /\ ~Lies(children[i])
    BY <2>2, Zenon
  <2> QED
    BY <2>1, <2>2, <2>3 DEF IdleStays, Lies
<1>4. \/ \E r \in {Started(e), Ignored(e)} :
           /\ Starts(e, r) \/ Ignores(e, r)
           /\ children' = Update(children, r)
      \/ Fails /\ children' = Update(children, [e EXCEPT !.terminated = TRUE])
  BY <1>1 DEF DoRestartChild
<1> HIDE DEF e
<1>5. CASE \E r \in {Started(e), Ignored(e)} :
             /\ Starts(e, r) \/ Ignores(e, r)
             /\ children' = Update(children, r)
  <2>1. PICK r \in {Started(e), Ignored(e)} :
          (Starts(e, r) \/ Ignores(e, r)) /\ children' = Update(children, r)
    BY <1>5
  <2>2. Revives(i, e, r)
    BY <1>2, <1>3, <2>1 DEF Revives
  <2> QED
    BY <2>2, RevivesStep
<1>6. CASE Fails /\ children' = Update(children, [e EXCEPT !.terminated = TRUE])
  <2> DEFINE f == [e EXCEPT !.terminated = TRUE]
  <2>1. f \in ChildSpec /\ f.id = e.id /\ f.pid = e.pid
    BY <1>2 DEF ChildSpec
  <2>2. children' = Update(children, f)
    BY <1>6
  <2> HIDE DEF f
  <2>3. Rewrites(i, f)
    BY <1>2, <1>3, <1>6, <2>1, <2>2 DEF Rewrites, Fails
  <2> QED
    BY <2>3, RewritesStep
<1> QED
  BY <1>4, <1>5, <1>6

LEMMA DoDeleteChildStep ==
  ASSUME Base, NEW id \in Ids, DoDeleteChild(id)
  PROVE  Core'
<1> USE BaseFacts
<1>1. PICK i \in 1 .. Len(children) :
        Get(children, id) = children[i] /\ children[i].id = id
  BY Found DEF DoDeleteChild
<1>2. /\ pc = "idle" /\ requested' = requested + 1 /\ requested' # 0
      /\ UNCHANGED <<config, kept, order, work, at, pc, why, proc>>
  BY DEF DoDeleteChild, Request, loops
<1>3. /\ misled' = (misled \/ Lies(children[i])) /\ ~Active(children[i])
      /\ children' = Without(children, {children[i].id})
  BY <1>1 DEF DoDeleteChild
<1>4. ~misled' => ~misled /\ ~Lies(children[i])
  BY <1>3, Zenon
<1>5. Drops(i)
  BY <1>2, <1>3, <1>4 DEF Drops, IdleStays, Lies
<1> QED
  BY <1>5, DropsStep

LEMMA TerminateStep ==
  ASSUME Base, Terminate
  PROVE  Core'
<1>1. StopsAll
  BY DEF Terminate, Request, BeginStop, StopOrder, StopsAll
<1> QED
  BY <1>1, StopsAllStep

-----------------------------------------------------------------------------
LEMMA KillersStep ==
  ASSUME Base, KillerUnlinks \/ KillerSignals
  PROVE  Quiet
<1> USE BaseFacts
<1>1. DOMAIN proc' = DOMAIN proc
  <2>1. PICK p : \/ proc' = [proc EXCEPT ![p].linked = FALSE]
                 \/ proc' = [proc EXCEPT ![p].told = TRUE]
    BY DEF KillerUnlinks, KillerSignals
  <2> QED
    BY <2>1
<1> QED
  BY <1>1 DEF KillerUnlinks, KillerSignals, Quiet

LEMMA ChildrenStep ==
  ASSUME Base, NEW q \in DOMAIN proc,
         ChildObeys(q) \/ \E reason \in {"normal", "error"} : ChildDies(q, reason)
  PROVE  Quiet
<1> USE BaseFacts
<1>1. PICK reason : Dies(q, reason)
  BY DEF ChildObeys, ChildDies
<1>2. DOMAIN proc' = DOMAIN proc
  BY <1>1 DEF Dies
<1> QED
  BY <1>2 DEF ChildObeys, ChildDies, Quiet, loops

\* Whatever happens, the lists and what the supervisor does go together.
LEMMA CoreStep ==
  ASSUME Base, [Next]_vars, ProcGrows
  PROVE  Core'
<1>1. ASSUME Quiet PROVE Core'
  BY <1>1, QuietStep
<1>2. CASE StopSkips \/ KillerReports
  BY <1>2, MarksSteps, MarksStep
<1>3. CASE StopSpawnsKiller
  BY <1>1, <1>3 DEF StopSpawnsKiller, Quiet
<1>4. CASE KillerUnlinks \/ KillerSignals
  BY <1>1, <1>4, KillersStep
<1>5. CASE StopDone \/ StartChild \/ StartFails \/ StartDone
  BY <1>5, StopDoneStep, StartChildStep, StartFailsStep, StartDoneStep
<1>6. CASE HandleExit
  <2>1. PICK m \in exits :
          \/ ExitOfNobody(m)
          \/ \E i \in Owners(m.pid) :
               ExitForgotten(m, i) \/ GivesUp(m, i) \/ RestartsOne(m, i) \/ RestartsGroup(m, i)
    BY <1>6 DEF HandleExit
  <2>2. CASE ExitOfNobody(m)
    BY <1>1, <2>2 DEF ExitOfNobody, Quiet, loops
  <2>3. ASSUME NEW i \in Owners(m.pid),
               \/ ExitForgotten(m, i) \/ GivesUp(m, i) \/ RestartsOne(m, i) \/ RestartsGroup(m, i)
        PROVE  Core'
    BY <2>3, ExitForgottenStep, GivesUpStep, RestartsOneStep, RestartsGroupStep
  <2> QED
    BY <2>1, <2>2, <2>3
<1>7. ASSUME NEW id \in Ids,
             DoStartChild(id) \/ DoTerminateChild(id) \/ DoRestartChild(id) \/ DoDeleteChild(id)
      PROVE  Core'
  BY <1>7, DoStartChildStep, DoTerminateChildStep, DoRestartChildStep, DoDeleteChildStep
<1>8. CASE Terminate
  BY <1>8, TerminateStep
<1>9. CASE Tick
  BY <1>1, <1>9 DEF Tick, Quiet, loops
<1>10. ASSUME NEW q \in DOMAIN proc,
              ChildObeys(q) \/ \E reason \in {"normal", "error"} : ChildDies(q, reason)
       PROVE  Core'
  BY <1>1, <1>10, ChildrenStep
<1>11. CASE UNCHANGED vars
  BY <1>1, <1>11 DEF vars, state, config, loops, Quiet
<1> QED
  BY <1>2, <1>3, <1>4, <1>5, <1>6, <1>7, <1>8, <1>9, <1>10, <1>11 DEF Next, SupervisorStep

-----------------------------------------------------------------------------
(* The links.                                                              *)

\* Only a childKiller unlinks a child, and it waits for that one's end; a process is
\* started with its link.
LEMMA LeashedStep ==
  ASSUME Base, Leashed, [Next]_vars
  PROVE  Leashed'
<1>0. /\ proc \in Seq(Process) /\ DOMAIN proc \subseteq Nat \ {0}
      /\ killer # "none" => pc = "kill"
  BY BaseFacts DEF Base, Typed
<1>1. ASSUME UNCHANGED <<pc, work, at, killer, proc>> PROVE Leashed'
  BY <1>1 DEF Leashed
<1>2. ASSUME NEW e, NEW r, pc # "kill", proc' = proc \/ Starts(e, r) PROVE Leashed'
  <2>1. \A q \in DOMAIN proc : proc[q].running => proc[q].linked
    BY <1>2 DEF Leashed
  <2>2. \A q \in DOMAIN proc' : proc'[q].running => proc'[q].linked
    BY <1>0, <1>2, <2>1 DEF Starts
  <2> QED
    BY <2>2 DEF Leashed
<1>3. ASSUME NEW q \in DOMAIN proc, NEW reason, Dies(q, reason), UNCHANGED <<pc, work, at, killer>>
      PROVE  Leashed'
  <2>1. /\ DOMAIN proc' = DOMAIN proc /\ ~proc'[q].running
        /\ \A p \in DOMAIN proc \ {q} : proc'[p] = proc[p]
    BY <1>0, <1>3 DEF Dies
  <2> QED
    BY <1>3, <2>1 DEF Leashed
<1>4. CASE KillerUnlinks
  <2> DEFINE c == work[at].pid
  <2>1. /\ pc = "kill" /\ killer' = "signal" /\ UNCHANGED <<pc, work, at>>
        /\ proc' = [proc EXCEPT ![c].linked = FALSE]
    BY <1>0, <1>4 DEF KillerUnlinks
  <2>2. DOMAIN proc' = DOMAIN proc /\ \A p \in DOMAIN proc \ {c} : proc'[p] = proc[p]
    BY <2>1
  <2> QED
    BY <2>1, <2>2 DEF Leashed
<1>5. CASE KillerSignals
  <2> DEFINE c == work[at].pid
  <2>1. /\ pc = "kill" /\ killer' = "wait" /\ UNCHANGED <<pc, work, at>>
        /\ proc' = [proc EXCEPT ![c].told = TRUE]
    BY <1>0, <1>5 DEF KillerSignals
  <2>2. DOMAIN proc' = DOMAIN proc /\ \A p \in DOMAIN proc \ {c} : proc'[p] = proc[p]
    BY <2>1
  <2> QED
    BY <2>1, <2>2 DEF Leashed
<1>6. CASE KillerReports
  <2>1. ~IsAlive(work[at].pid) /\ proc' = proc
    BY <1>6 DEF KillerReports, KillerSeesDown
  <2>2. \A q \in DOMAIN proc : proc[q].running => proc[q].linked
    BY <1>0, <2>1 DEF Leashed, IsAlive
  <2> QED
    BY <2>1, <2>2 DEF Leashed
<1>7. CASE StopSkips \/ StopSpawnsKiller \/ StopDone \/ StartFails \/ StartDone
  <2>1. pc # "kill" /\ proc' = proc
    BY <1>7 DEF StopSkips, StopSpawnsKiller, StopDone, StartFails, StartDone, Stopping, Starting, Fails
  <2> QED
    BY <1>2, <2>1
<1>8. CASE StartChild
  <2>1. \E e, r : Starts(e, r) \/ proc' = proc
    BY <1>8 DEF StartChild, Ignores
  <2> QED
    BY <1>2, <1>8, <2>1 DEF StartChild, Starting
<1>9. CASE HandleExit
  <2>1. PICK m \in exits :
          \/ ExitOfNobody(m)
          \/ \E i \in Owners(m.pid) :
               ExitForgotten(m, i) \/ GivesUp(m, i) \/ RestartsOne(m, i) \/ RestartsGroup(m, i)
    BY <1>9 DEF HandleExit
  <2>2. CASE ExitOfNobody(m)
    BY <1>2, <2>2 DEF ExitOfNobody
  <2>3. ASSUME NEW i, ExitForgotten(m, i) \/ GivesUp(m, i) \/ RestartsGroup(m, i) PROVE Leashed'
    BY <1>2, <2>3 DEF ExitForgotten, GivesUp, RestartsGroup
  <2>4. ASSUME NEW i, RestartsOne(m, i) PROVE Leashed'
    <3>1. pc = "idle" /\ \E e, r : Starts(e, r) \/ proc' = proc
      BY <2>4 DEF RestartsOne, Ignores, Fails
    <3> QED
      BY <1>2, <3>1
  <2> QED
    BY <2>1, <2>2, <2>3, <2>4
<1>10. ASSUME NEW id, DoStartChild(id) \/ DoRestartChild(id) PROVE Leashed'
  <2>1. pc = "idle" /\ \E e, r : Starts(e, r) \/ proc' = proc
    BY <1>10 DEF DoStartChild, DoRestartChild, Request, Ignores, Fails
  <2> QED
    BY <1>2, <2>1
<1>11. ASSUME NEW id, DoTerminateChild(id) \/ DoDeleteChild(id) PROVE Leashed'
  BY <1>2, <1>11 DEF DoTerminateChild, DoDeleteChild, Request
<1>12. CASE Terminate \/ Tick
  BY <1>2, <1>12 DEF Terminate, Tick, Request
<1>13. ASSUME NEW q \in DOMAIN proc,
              ChildObeys(q) \/ \E reason \in {"normal", "error"} : ChildDies(q, reason)
       PROVE  Leashed'
  BY <1>3, <1>13 DEF ChildObeys, ChildDies, loops
<1>14. CASE UNCHANGED vars
  BY <1>1, <1>14 DEF vars, state, config, loops
<1> QED
  BY <1>4, <1>5, <1>6, <1>7, <1>8, <1>9, <1>10, <1>11, <1>12, <1>13, <1>14
     DEF Next, SupervisorStep

-----------------------------------------------------------------------------
(* The restart types.                                                      *)

\* An older process of the child that starts another one.
Allowed(q) ==
  /\ Restart[proc[q].id] # "temporary"
  /\ flags.strategy = "one_for_one" /\ Restart[proc[q].id] = "transient" => ~Clean(proc[q].reason)

\* While nobody asks for anything a process is only started when those before it
\* may be followed.
LEMMA BirthsAllowed ==
  ASSUME Base, [Next]_vars, ProcGrows, requested' = 0
  PROVE  /\ requested = 0
         /\ \/ DOMAIN proc' = DOMAIN proc
            \/ \E r : /\ Born(r)
                      /\ \A q \in DOMAIN proc : proc[q].id = proc'[r].id => Allowed(q)
<1> USE BaseFacts
<1> DEFINE Goal == /\ requested = 0
                   /\ \/ DOMAIN proc' = DOMAIN proc
                      \/ \E r : /\ Born(r)
                                /\ \A q \in DOMAIN proc : proc[q].id = proc'[r].id => Allowed(q)
<1>1. ASSUME Quiet PROVE Goal
  BY <1>1 DEF Quiet
<1>2. CASE \/ StopSkips \/ StopSpawnsKiller \/ KillerReports
           \/ StopDone \/ StartFails \/ StartDone \/ Tick
  BY <1>2 DEF StopSkips, StopSpawnsKiller, KillerReports, StopDone, StartFails, Fails, StartDone, Tick
<1>3. CASE KillerUnlinks \/ KillerSignals
  BY <1>1, <1>3, KillersStep
<1>4. CASE StartChild
  <2>1. /\ pc = "start" /\ at \in 1 .. Len(order) /\ why \in {"init", "restart"} /\ UNCHANGED requested
    BY <1>4 DEF StartChild, Starting, AtTyped, Base, Core, Control
  <2> DEFINE e == order[at]
  <2>2. e \in ChildSpec
    BY <2>1
  <2>3. PICK r \in {Started(e), Ignored(e)} : Starts(e, r) \/ Ignores(e, r)
    BY <1>4 DEF StartChild
  <2>4. DOMAIN proc' = DOMAIN proc \/ (Born(r.pid) /\ proc'[r.pid].id = e.id)
    BY <2>2, <2>3, StartOutcomeBorn
  <2>5. requested = 0
    BY <2>1
  <2>6. ASSUME NEW q \in DOMAIN proc, proc[q].id = e.id PROVE Allowed(q)
    <3>1. why = "restart"
      BY <2>1, <2>5, <2>6, SMTT(20) DEF Base, Core, Undisturbed
    <3> QED
      BY <2>1, <2>5, <2>6, <3>1 DEF Base, Core, Undisturbed, Control, Allowed
  <2> QED
    BY <2>4, <2>5, <2>6
<1>5. CASE HandleExit
  <2>1. PICK m \in exits :
          \/ ExitOfNobody(m)
          \/ \E i \in Owners(m.pid) :
               ExitForgotten(m, i) \/ GivesUp(m, i) \/ RestartsOne(m, i) \/ RestartsGroup(m, i)
    BY <1>5 DEF HandleExit
  <2>2. CASE ExitOfNobody(m)
    BY <2>2 DEF ExitOfNobody
  <2>3. ASSUME NEW i \in Owners(m.pid), ExitForgotten(m, i) \/ GivesUp(m, i) \/ RestartsGroup(m, i)
        PROVE  Goal
    BY <2>3 DEF ExitForgotten, GivesUp, RestartsGroup, AddRestart
  <2>4. ASSUME NEW i \in Owners(m.pid), RestartsOne(m, i) PROVE Goal
    <3>1. /\ requested = 0 /\ pc = "idle" /\ flags.strategy = "one_for_one"
          /\ ~Forgets(children[i].id, m.reason)
      BY <2>4 DEF RestartsOne, AddRestart
    <3> DEFINE e == children[i]
    <3>2. CASE Fails
      BY <3>1, <3>2 DEF Fails
    <3>3. CASE \E r \in {Started(e), Ignored(e)} : Starts(e, r) \/ Ignores(e, r)
      <4>1. i \in DOMAIN children /\ e \in ChildSpec /\ e.pid = m.pid /\ m.pid # 0
        BY OwnerIsDown
      <4>2. PICK r \in {Started(e), Ignored(e)} : Starts(e, r) \/ Ignores(e, r)
        BY <3>3
      <4>3. DOMAIN proc' = DOMAIN proc \/ (Born(r.pid) /\ proc'[r.pid].id = e.id)
        BY <4>1, <4>2, StartOutcomeBorn
      <4>4. /\ m.pid \in DOMAIN proc /\ proc[m.pid].id = e.id
            /\ m.reason = proc[m.pid].reason /\ Restart[e.id] # "temporary"
            /\ Restart[e.id] = "transient" => ~Clean(m.reason)
        BY <3>1, <4>1 DEF Base, Heard, ListsGood, Good, Refers, Forgets
      <4>5. ASSUME NEW q \in DOMAIN proc, proc[q].id = e.id PROVE Allowed(q)
        <5>1. q <= m.pid
          BY <3>1, <4>1, <4>5, LoopUntouched DEF Untouched, Latest
        <5>2. CASE q = m.pid
          BY <4>4, <5>2 DEF Allowed
        <5>3. CASE q < m.pid
          BY <3>1, <4>4, <4>5, <5>3 DEF Base, RestartTypesKept, Allowed
        <5> QED
          BY <4>4, <5>1, <5>2, <5>3
      <4> QED
        BY <3>1, <4>3, <4>5
    <3> QED
      BY <2>4, <3>2, <3>3 DEF RestartsOne
  <2> QED
    BY <2>1, <2>2, <2>3, <2>4
<1>6. ASSUME NEW id \in Ids,
             DoStartChild(id) \/ DoTerminateChild(id) \/ DoRestartChild(id) \/ DoDeleteChild(id)
      PROVE  FALSE
  <2>1. requested' = requested + 1
    BY <1>6 DEF DoStartChild, DoTerminateChild, DoRestartChild, DoDeleteChild, Request
  <2> QED
    BY <2>1
<1>7. CASE Terminate
  BY <1>7 DEF Terminate, Request
<1>8. ASSUME NEW q \in DOMAIN proc,
             ChildObeys(q) \/ \E reason \in {"normal", "error"} : ChildDies(q, reason)
      PROVE  Goal
  BY <1>1, <1>8, ChildrenStep
<1>9. CASE UNCHANGED vars
  BY <1>9 DEF vars
<1> QED
  BY <1>2, <1>3, <1>4, <1>5, <1>6, <1>7, <1>8, <1>9 DEF Next, SupervisorStep

LEMMA ConfigKept ==
  ASSUME [Next]_vars
  PROVE  UNCHANGED config
BY DEF vars, state, config, Next, SupervisorStep, StopSkips, StopSpawnsKiller, KillerUnlinks,
       KillerSignals, KillerReports, StopDone, StartChild, StartFails, StartDone, HandleExit,
       ExitOfNobody, ExitForgotten, GivesUp, RestartsOne, RestartsGroup, DoStartChild,
       DoTerminateChild, DoRestartChild, DoDeleteChild, Terminate, Tick, ChildObeys, ChildDies

LEMMA RestartTypesStep ==
  ASSUME Base, [Next]_vars, ProcGrows
  PROVE  RestartTypesKept'
<1> USE BaseFacts
<1> SUFFICES ASSUME requested' = 0, NEW q \in DOMAIN proc', NEW r \in DOMAIN proc',
                    q < r, proc'[q].id = proc'[r].id
             PROVE  /\ Restart'[proc'[q].id] # "temporary"
                    /\ flags'.strategy = "one_for_one" /\ Restart'[proc'[q].id] = "transient"
                         => ~Clean(proc'[q].reason)
  BY DEF RestartTypesKept, Clean
<1>1. UNCHANGED <<flags, Restart>>
  BY ConfigKept DEF config
<1>2. /\ requested = 0
      /\ \/ DOMAIN proc' = DOMAIN proc
         \/ \E p : Born(p) /\ \A s \in DOMAIN proc : proc[s].id = proc'[p].id => Allowed(s)
  BY BirthsAllowed
<1>3. CASE q \in DOMAIN proc /\ r \in DOMAIN proc
  <2>1. proc'[q].id = proc[q].id /\ proc'[r].id = proc[r].id
    BY <1>3 DEF ProcGrows
  <2>2. /\ Restart[proc[q].id] # "temporary"
        /\ flags.strategy = "one_for_one" /\ Restart[proc[q].id] = "transient"
             => ~Clean(proc[q].reason)
    BY <1>2, <1>3, <2>1 DEF Base, RestartTypesKept
  <2>3. ~Clean(proc[q].reason) => proc'[q].reason = proc[q].reason
    BY <1>3 DEF ProcGrows, Base, Heard, Clean
  <2> QED
    BY <1>1, <2>1, <2>2, <2>3
<1>4. CASE ~(q \in DOMAIN proc /\ r \in DOMAIN proc)
  <2>1. PICK p : Born(p) /\ \A s \in DOMAIN proc : proc[s].id = proc'[p].id => Allowed(s)
    BY <1>2, <1>4
  <2>2. proc' \in Seq(Process)
    BY ProcStep DEF Base, ProcTyped
  <2>3. p \in Nat /\ \A s \in DOMAIN proc' : s \in Nat
    <3>1. p \in DOMAIN proc'
      BY <2>1 DEF Born
    <3>2. \A s \in DOMAIN proc' : s \in Nat
      BY <2>2
    <3> QED
      BY <3>1, <3>2
  <2>4. r = p /\ q \in DOMAIN proc
    BY <1>4, <2>1, <2>3 DEF Born
  <2> QED
    BY <1>1, <2>1, <2>4 DEF Allowed, Born
<1> QED
  BY <1>3, <1>4

-----------------------------------------------------------------------------
(* What the supervisor is doing, and its restarts.                         *)

DoingTyped ==
  /\ pc \in {"start", "idle", "stop", "kill", "ended"}
  /\ why \in {"none", "init", "restart", "rollback", "request", "intensity", "failed", "stopped"}
  /\ killer \in {"none", "unlink", "signal", "wait"} /\ (killer # "none" <=> pc = "kill")
  /\ spent \in [deaths : Nat, fails : Nat, ignores : Nat] /\ requested \in Nat
  /\ misled \in BOOLEAN

\* A restart is noted, and the supervisor gives up when they exceed the intensity ...
Restarts ==
  /\ pc = "idle" /\ UNCHANGED now
  /\ \E m \in exits : AddRestart(m)
  /\ why' = "intensity" <=> Exceeded(Append(restarts, now))

\* ... and otherwise it goes on giving up, or goes on.
NoRestart ==
  /\ UNCHANGED <<restarts, history>> /\ now' \in {now, now + 1}
  /\ why' = "intensity" <=> why = "intensity"

LEMMA SpentTyped ==
  ASSUME spent \in [deaths : Nat, fails : Nat, ignores : Nat]
  PROVE  /\ [spent EXCEPT !.deaths = @ + 1] \in [deaths : Nat, fails : Nat, ignores : Nat]
         /\ [spent EXCEPT !.fails = @ + 1] \in [deaths : Nat, fails : Nat, ignores : Nat]
         /\ [spent EXCEPT !.ignores = @ + 1] \in [deaths : Nat, fails : Nat, ignores : Nat]
OBVIOUS

LEMMA DoingStep ==
  ASSUME Base, [Next]_vars
  PROVE  DoingTyped' /\ (Restarts \/ NoRestart)
<1> DEFINE Goal == DoingTyped' /\ (Restarts \/ NoRestart)
<1>1. DoingTyped /\ now \in Nat
  BY DEF Base, Typed, DoingTyped
<1>2. CASE StopSkips \/ StopSpawnsKiller \/ KillerUnlinks \/ KillerSignals \/ KillerReports
  BY <1>1, <1>2 DEF DoingTyped, NoRestart, StopSkips, StopSpawnsKiller, KillerUnlinks,
                    KillerSignals, KillerReports, Stopping
<1>3. CASE StopDone
  BY <1>1, <1>3 DEF DoingTyped, NoRestart, StopDone, BackToLoop
<1>4. ASSUME NEW e, NEW r, Starts(e, r) \/ Ignores(e, r)
      PROVE  spent' \in [deaths : Nat, fails : Nat, ignores : Nat]
  BY <1>1, <1>4, SpentTyped DEF DoingTyped, Starts, Ignores
<1>5. ASSUME Fails PROVE spent' \in [deaths : Nat, fails : Nat, ignores : Nat]
  BY <1>1, <1>5, SpentTyped DEF DoingTyped, Fails
<1>6. CASE StartChild
  BY <1>1, <1>4, <1>6 DEF DoingTyped, NoRestart, StartChild
<1>7. CASE StartFails
  <2>1. why \in {"init", "restart"}
    BY <1>7 DEF StartFails, Starting, Base, Core, Control
  <2> QED
    BY <1>1, <1>5, <1>7, <2>1 DEF DoingTyped, NoRestart, StartFails, BeginStop, Starting
<1>8. CASE StartDone
  <2>1. why \in {"init", "restart"}
    BY <1>8 DEF StartDone, Base, Core, Control
  <2> QED
    BY <1>1, <1>8, <2>1 DEF DoingTyped, NoRestart, StartDone, BackToLoop
<1>9. ASSUME pc = "idle" PROVE why = "none"
  BY <1>9 DEF Base, Core, Control
<1>10. CASE HandleExit
  <2>1. PICK m \in exits :
          \/ ExitOfNobody(m)
          \/ \E i \in Owners(m.pid) :
               ExitForgotten(m, i) \/ GivesUp(m, i) \/ RestartsOne(m, i) \/ RestartsGroup(m, i)
    BY <1>10 DEF HandleExit
  <2>2. CASE ExitOfNobody(m)
    BY <1>1, <2>2 DEF DoingTyped, NoRestart, ExitOfNobody, loops
  <2>3. ASSUME NEW i, ExitForgotten(m, i) PROVE Goal
    BY <1>1, <2>3 DEF DoingTyped, NoRestart, ExitForgotten, loops
  <2>4. ASSUME NEW i, GivesUp(m, i) PROVE Goal
    <3>1. AddRestart(m) /\ UNCHANGED <<requested, misled>>
      BY <2>4 DEF GivesUp, AddRestart
    <3> QED
      BY <1>1, <2>4, <3>1 DEF DoingTyped, Restarts, GivesUp, BeginStop
  <2>5. ASSUME NEW i, RestartsOne(m, i) PROVE Goal
    <3>1. /\ AddRestart(m) /\ UNCHANGED <<requested, misled, now, killer>>
          /\ pc = "idle" /\ ~Exceeded(Append(restarts, now)) /\ why = "none"
      BY <1>9, <2>5 DEF RestartsOne, AddRestart
    <3>2. /\ spent' \in [deaths : Nat, fails : Nat, ignores : Nat]
          /\ UNCHANGED <<pc, why>> \/ (pc' = "stop" /\ why' = "failed")
      BY <1>4, <1>5, <2>5 DEF RestartsOne, BeginStop
    <3> QED
      BY <1>1, <3>1, <3>2 DEF DoingTyped, Restarts
  <2>6. ASSUME NEW i, RestartsGroup(m, i) PROVE Goal
    <3>1. AddRestart(m) /\ UNCHANGED <<requested, misled>>
      BY <2>6 DEF RestartsGroup, AddRestart
    <3> QED
      BY <1>1, <2>6, <3>1 DEF DoingTyped, Restarts, RestartsGroup, BeginStop
  <2> QED
    BY <2>1, <2>2, <2>3, <2>4, <2>5, <2>6
<1>11. ASSUME NEW id, DoStartChild(id) PROVE Goal
  <2>1. /\ requested' = requested + 1
        /\ UNCHANGED <<pc, why, killer, restarts, history, now, misled>>
    BY <1>11 DEF DoStartChild, Request, loops
  <2>2. spent' \in [deaths : Nat, fails : Nat, ignores : Nat]
    BY <1>4, <1>5, <1>11 DEF DoStartChild
  <2> QED
    BY <1>1, <2>1, <2>2 DEF DoingTyped, NoRestart
<1>12. ASSUME NEW id, DoTerminateChild(id) PROVE Goal
  <2>1. /\ requested' = requested + 1 /\ pc = "idle" /\ why = "none"
        /\ UNCHANGED <<killer, restarts, history, now, spent>>
        /\ UNCHANGED <<pc, why>> \/ (pc' = "stop" /\ why' = "request")
    BY <1>9, <1>12 DEF DoTerminateChild, Request, BeginStop
  <2>2. misled' \in BOOLEAN
    BY <1>12 DEF DoTerminateChild
  <2> QED
    BY <1>1, <2>1, <2>2 DEF DoingTyped, NoRestart
<1>13. ASSUME NEW id, DoRestartChild(id) PROVE Goal
  <2>1. /\ requested' = requested + 1
        /\ UNCHANGED <<pc, why, killer, restarts, history, now>>
    BY <1>13 DEF DoRestartChild, Request, loops
  <2>2. spent' \in [deaths : Nat, fails : Nat, ignores : Nat]
    BY <1>4, <1>5, <1>13 DEF DoRestartChild
  <2>3. misled' \in BOOLEAN
    BY <1>13 DEF DoRestartChild
  <2> QED
    BY <1>1, <2>1, <2>2, <2>3 DEF DoingTyped, NoRestart
<1>14. ASSUME NEW id, DoDeleteChild(id) PROVE Goal
  <2>1. /\ requested' = requested + 1
        /\ UNCHANGED <<pc, why, killer, restarts, history, now, spent>>
    BY <1>14 DEF DoDeleteChild, Request, loops
  <2>2. misled' \in BOOLEAN
    BY <1>14 DEF DoDeleteChild
  <2> QED
    BY <1>1, <2>1, <2>2 DEF DoingTyped, NoRestart
<1>15. CASE Terminate
  BY <1>1, <1>9, <1>15 DEF DoingTyped, NoRestart, Terminate, Request, BeginStop
<1>16. CASE Tick
  BY <1>1, <1>16 DEF DoingTyped, NoRestart, Tick, loops
<1>17. ASSUME NEW q, ChildObeys(q) PROVE Goal
  BY <1>1, <1>17 DEF DoingTyped, NoRestart, ChildObeys, loops
<1>18. ASSUME NEW q, NEW reason, ChildDies(q, reason) PROVE Goal
  BY <1>1, <1>18, SpentTyped DEF DoingTyped, NoRestart, ChildDies, loops
<1>19. CASE UNCHANGED vars
  BY <1>1, <1>19 DEF DoingTyped, NoRestart, vars, state, config, loops
<1> QED
  BY <1>2, <1>3, <1>6, <1>7, <1>8, <1>10, <1>11, <1>12, <1>13, <1>14, <1>15, <1>16, <1>17,
     <1>18, <1>19 DEF Next, SupervisorStep

-----------------------------------------------------------------------------
(* state.restarts.                                                         *)

\* Indices that come with all those before them are the first ones.
LEMMA FirstOnes ==
  ASSUME NEW n \in Nat, NEW is, is \subseteq 1 .. n,
         \A i \in is : \A j \in 1 .. i : j \in is
  PROVE  Cardinality(is) \in 0 .. n /\ is = 1 .. Cardinality(is)
<1> DEFINE c == Cardinality(is)
<1>1. IsFiniteSet(is) /\ c \in Nat
  BY IndicesAreFinite
<1>2. ASSUME NEW k \in Nat PROVE IsFiniteSet(1 .. k) /\ Cardinality(1 .. k) = k
  <2>1. 1 \in Int /\ k \in Int
    OBVIOUS
  <2> QED
    BY <2>1, FS_Interval
<1>3. ASSUME NEW i \in is PROVE i \in 1 .. c
  <2>1. UpTo(is, i) = 1 .. i
    <3>1. \A j \in is : j \in 1 .. n
      OBVIOUS
    <3>2. \A j \in is : j <= i => j \in 1 .. i
      BY <3>1
    <3>3. \A j \in 1 .. i : j \in is /\ j <= i
      BY <3>1
    <3> QED
      BY <3>2, <3>3, Zenon DEF UpTo
  <2>2. Cardinality(UpTo(is, i)) = i
    BY <1>2, <2>1
  <2>3. Cardinality(UpTo(is, i)) \in 1 .. c
    BY UpToCardinality
  <2> QED
    BY <2>2, <2>3
<1>4. is \in SUBSET (1 .. c)
  BY <1>3
<1>5. is = 1 .. c
  BY <1>1, <1>2, <1>4, FS_Subset
<1>6. c <= n
  <2>1. is \in SUBSET (1 .. n)
    OBVIOUS
  <2>2. IsFiniteSet(1 .. n) /\ Cardinality(1 .. n) = n
    BY <1>2
  <2>3. Cardinality(is) <= Cardinality(1 .. n)
    BY <2>1, <2>2, FS_Subset
  <2> QED
    BY <2>2, <2>3
<1> QED
  BY <1>1, <1>5, <1>6

\* rs is hs without the first k, all of which are too old.
EndOf(rs, hs, k, period, time) ==
  /\ k \in 0 .. Len(hs)
  /\ rs = SubSeq(hs, k + 1, Len(hs))
  /\ \A j \in 1 .. k : hs[j] + period <= time

InTime(hs, time) ==
  /\ \A j, k \in DOMAIN hs : j <= k => hs[j] <= hs[k]
  /\ \A j \in DOMAIN hs : hs[j] <= time

LEMMA Suffix ==
  ASSUME NEW hs \in Seq(Nat), NEW k \in 0 .. Len(hs)
  PROVE  /\ SubSeq(hs, k + 1, Len(hs)) \in Seq(Nat)
         /\ Len(SubSeq(hs, k + 1, Len(hs))) = Len(hs) - k
         /\ \A j \in 1 .. Len(hs) - k :
              k + j \in 1 .. Len(hs) /\ SubSeq(hs, k + 1, Len(hs))[j] = hs[k + j]
<1> DEFINE rs == SubSeq(hs, k + 1, Len(hs))
<1>1. \A i \in k + 1 .. Len(hs) : hs[i] \in Nat
  OBVIOUS
<1>2. k + 1 \in Int /\ Len(hs) \in Int
  OBVIOUS
<1>3. /\ rs \in Seq(Nat)
      /\ Len(rs) = IF k + 1 <= Len(hs) THEN Len(hs) - (k + 1) + 1 ELSE 0
      /\ \A i \in 1 .. Len(hs) - (k + 1) + 1 : rs[i] = hs[k + 1 + i - 1]
  BY <1>1, <1>2, SubSeqProperties
<1> HIDE DEF rs
<1>4. Len(rs) = Len(hs) - k
  BY <1>2, <1>3
<1>5. ASSUME NEW j \in 1 .. Len(hs) - k PROVE k + j \in 1 .. Len(hs) /\ rs[j] = hs[k + j]
  <2>1. j \in 1 .. Len(hs) - (k + 1) + 1 /\ k + 1 + j - 1 = k + j /\ k + j \in 1 .. Len(hs)
    BY <1>2
  <2> QED
    BY <1>3, <2>1
<1> QED
  BY <1>3, <1>4, <1>5 DEF rs

\* The end of the end.
LEMMA SuffixOfSuffix ==
  ASSUME NEW hs \in Seq(Nat), NEW k \in 0 .. Len(hs), NEW l \in 0 .. Len(hs) - k
  PROVE  SubSeq(SubSeq(hs, k + 1, Len(hs)), l + 1, Len(hs) - k) = SubSeq(hs, k + l + 1, Len(hs))
<1> DEFINE rs == SubSeq(hs, k + 1, Len(hs))
           ss == SubSeq(rs, l + 1, Len(rs))
           ts == SubSeq(hs, (k + l) + 1, Len(hs))
<1>1. /\ rs \in Seq(Nat) /\ Len(rs) = Len(hs) - k
      /\ \A j \in 1 .. Len(hs) - k : k + j \in 1 .. Len(hs) /\ rs[j] = hs[k + j]
  BY Suffix
<1> HIDE DEF rs
<1>2. l \in 0 .. Len(rs) /\ k + l \in 0 .. Len(hs)
  BY <1>1
<1>3. /\ ss \in Seq(Nat) /\ Len(ss) = Len(rs) - l
      /\ \A j \in 1 .. Len(rs) - l : l + j \in 1 .. Len(rs) /\ ss[j] = rs[l + j]
  BY <1>1, <1>2, Suffix
<1>4. /\ ts \in Seq(Nat) /\ Len(ts) = Len(hs) - (k + l)
      /\ \A j \in 1 .. Len(hs) - (k + l) : ts[j] = hs[(k + l) + j]
  BY <1>2, Suffix
<1> HIDE DEF ss, ts
<1>5. Len(ss) = Len(ts)
  BY <1>1, <1>3, <1>4
<1>6. ASSUME NEW j \in 1 .. Len(ss) PROVE ss[j] = ts[j]
  <2>1. /\ j \in 1 .. Len(rs) - l /\ j \in 1 .. Len(hs) - (k + l)
        /\ l + j \in 1 .. Len(hs) - k /\ k + (l + j) = (k + l) + j
    BY <1>1, <1>3
  <2> QED
    BY <1>1, <1>3, <1>4, <2>1
<1>7. ss = ts
  BY <1>3, <1>4, <1>5, <1>6, SeqEqual
<1> QED
  BY <1>1, <1>7 DEF rs, ss, ts

\* Of a history in time what is too old comes first.
LEMMA OldOnes ==
  ASSUME NEW rs \in Seq(Nat), InTime(rs, now), flags \in SupFlagsS, now \in Nat
  PROVE  /\ Recent(rs) \subseteq 1 .. Len(rs)
         /\ LET c == Cardinality(DOMAIN rs \ Recent(rs))
            IN  c \in 0 .. Len(rs) /\ DOMAIN rs \ Recent(rs) = 1 .. c
<1>1. /\ DOMAIN rs = 1 .. Len(rs) /\ Len(rs) \in Nat /\ flags.period \in Nat
      /\ \A j \in 1 .. Len(rs) : rs[j] \in Nat
  BY DEF SupFlagsS
<1> DEFINE old == DOMAIN rs \ Recent(rs)
<1>2. \A j : j \in old <=> j \in 1 .. Len(rs) /\ rs[j] + flags.period <= now
  BY <1>1 DEF Recent
<1>3. ASSUME NEW i \in old, NEW j \in 1 .. i PROVE j \in old
  <2>1. i \in 1 .. Len(rs) /\ j \in 1 .. Len(rs) /\ j <= i /\ rs[i] + flags.period <= now
    BY <1>1, <1>2
  <2>2. rs[j] <= rs[i]
    BY <1>1, <2>1 DEF InTime
  <2> HIDE DEF old
  <2> QED
    BY <1>1, <1>2, <2>1, <2>2, SMTT(20)
<1>4. old \subseteq 1 .. Len(rs)
  BY <1>2
<1>5. Recent(rs) \subseteq 1 .. Len(rs)
  BY <1>1 DEF Recent
<1> HIDE DEF old
<1>6. Cardinality(old) \in 0 .. Len(rs) /\ old = 1 .. Cardinality(old)
  BY <1>1, <1>3, <1>4, FirstOnes
<1> QED
  BY <1>5, <1>6 DEF old

\* The new restart is the last, and its time the latest.
LEMMA OneMore ==
  ASSUME NEW hs \in Seq(Nat), NEW t \in Nat, InTime(hs, t)
  PROVE  /\ Append(hs, t) \in Seq(Nat) /\ Len(Append(hs, t)) = Len(hs) + 1
         /\ \A j \in 1 .. Len(hs) : Append(hs, t)[j] = hs[j]
         /\ Append(hs, t)[Len(hs) + 1] = t
         /\ InTime(Append(hs, t), t)
<1> DEFINE gs == Append(hs, t)
<1>1. /\ gs \in Seq(Nat) /\ Len(gs) = Len(hs) + 1 /\ DOMAIN gs = 1 .. Len(hs) + 1
      /\ \A j \in 1 .. Len(hs) : gs[j] = hs[j]
      /\ gs[Len(hs) + 1] = t
  OBVIOUS
<1>2. Len(hs) \in Nat /\ DOMAIN hs = 1 .. Len(hs) /\ \A j \in 1 .. Len(hs) : hs[j] \in Nat
  OBVIOUS
<1> HIDE DEF gs
<1>3. \A j \in DOMAIN gs : gs[j] <= t /\ gs[j] \in Nat
  BY <1>1, <1>2, SMTT(20) DEF InTime
<1>4. ASSUME NEW j \in DOMAIN gs, NEW k \in DOMAIN gs, j <= k PROVE gs[j] <= gs[k]
  <2>1. CASE k = Len(hs) + 1
    BY <1>1, <1>3, <2>1
  <2>2. CASE k # Len(hs) + 1
    <3>1. j \in 1 .. Len(hs) /\ k \in 1 .. Len(hs)
      BY <1>1, <1>2, <1>4, <2>2
    <3> QED
      BY <1>1, <1>2, <1>4, <3>1 DEF InTime
  <2> QED
    BY <2>1, <2>2
<1> QED
  BY <1>1, <1>3, <1>4 DEF InTime, gs

\* With the new restart state.restarts still is the end of the history.
LEMMA AppendEnd ==
  ASSUME NEW hs \in Seq(Nat), NEW k \in 0 .. Len(hs), NEW t \in Nat
  PROVE  Append(SubSeq(hs, k + 1, Len(hs)), t) = SubSeq(Append(hs, t), k + 1, Len(hs) + 1)
<1> DEFINE rs == SubSeq(hs, k + 1, Len(hs))
           gs == Append(hs, t)
           ss == SubSeq(gs, k + 1, Len(gs))
<1>1. /\ rs \in Seq(Nat) /\ Len(rs) = Len(hs) - k
      /\ \A j \in 1 .. Len(hs) - k : k + j \in 1 .. Len(hs) /\ rs[j] = hs[k + j]
  BY Suffix
<1>2. /\ gs \in Seq(Nat) /\ Len(gs) = Len(hs) + 1
      /\ \A j \in 1 .. Len(hs) : gs[j] = hs[j]
      /\ gs[Len(hs) + 1] = t /\ Len(hs) \in Nat
  OBVIOUS
<1> HIDE DEF gs, rs
<1>3. k \in 0 .. Len(gs)
  BY <1>2
<1>4. /\ ss \in Seq(Nat) /\ Len(ss) = Len(gs) - k
      /\ \A j \in 1 .. Len(gs) - k : k + j \in 1 .. Len(gs) /\ ss[j] = gs[k + j]
  BY <1>2, <1>3, Suffix
<1>5. /\ Append(rs, t) \in Seq(Nat) /\ Len(Append(rs, t)) = Len(rs) + 1
      /\ \A j \in 1 .. Len(rs) : Append(rs, t)[j] = rs[j]
      /\ Append(rs, t)[Len(rs) + 1] = t
  BY <1>1
<1> DEFINE as == Append(rs, t)
<1> HIDE DEF ss, as
<1>6. Len(as) = Len(ss)
  BY <1>1, <1>2, <1>4, <1>5 DEF as
<1>7. ASSUME NEW j \in 1 .. Len(as) PROVE as[j] = ss[j]
  <2>1. j \in 1 .. Len(gs) - k /\ Len(rs) = Len(hs) - k /\ Len(as) = Len(rs) + 1
    BY <1>1, <1>4, <1>5, <1>6, <1>7 DEF as
  <2>2. CASE j = Len(rs) + 1
    <3>1. k + j = Len(hs) + 1
      BY <1>2, <2>1, <2>2
    <3> QED
      BY <1>2, <1>4, <1>5, <2>1, <2>2, <3>1 DEF as
  <2>3. CASE j # Len(rs) + 1
    <3>1. j \in 1 .. Len(rs) /\ j \in 1 .. Len(hs) - k
      BY <1>2, <2>1, <2>3
    <3> QED
      BY <1>1, <1>2, <1>4, <1>5, <2>1, <3>1 DEF as
  <2> QED
    BY <2>2, <2>3
<1>8. as = ss
  BY <1>4, <1>5, <1>6, <1>7, SeqEqual DEF as
<1> QED
  BY <1>2, <1>8 DEF as, rs, gs, ss

TimesTyped == restarts \in Seq(Nat) /\ history \in Seq(Nat) /\ now \in Nat

\* state.restarts with the new one is an end of the history, and what is not in it
\* is too old.
LEMMA AskedIsEnd ==
  ASSUME Base, Trim, Restarts
  PROVE  /\ history' \in Seq(Nat) /\ Len(history') = Len(history) + 1
         /\ \A j \in 1 .. Len(history) : history'[j] = history[j]
         /\ history'[Len(history) + 1] = now
         /\ InTime(history', now)
         /\ \E k \in 0 .. Len(history) :
              EndOf(Append(restarts, now), history', k, flags.period, now)
<1>1. history \in Seq(Nat) /\ restarts \in Seq(Nat) /\ now \in Nat /\ flags \in SupFlagsS
  BY DEF Base, Typed
<1>2. history' = Append(history, now) /\ InTime(history, now)
  BY DEF Restarts, AddRestart, Trim, InTime
<1>3. /\ history' \in Seq(Nat) /\ Len(history') = Len(history) + 1
      /\ \A j \in 1 .. Len(history) : history'[j] = history[j]
      /\ history'[Len(history) + 1] = now
      /\ InTime(history', now)
  BY <1>1, <1>2, OneMore
<1>4. PICK k \in 0 .. Len(history) : /\ restarts = SubSeq(history, k + 1, Len(history))
                                     /\ \A j \in 1 .. k : history[j] + flags.period <= now
  BY DEF Trim
<1>5. Append(restarts, now) = SubSeq(history', k + 1, Len(history'))
  BY <1>1, <1>2, <1>3, <1>4, AppendEnd
<1>6. \A j \in 1 .. k : j \in 1 .. Len(history)
  BY <1>1
<1>7. k \in 0 .. Len(history')
  BY <1>1, <1>3
<1>8. EndOf(Append(restarts, now), history', k, flags.period, now)
  BY <1>3, <1>4, <1>5, <1>6, <1>7 DEF EndOf
<1> QED
  BY <1>3, <1>4, <1>8

\* addRestart's loop keeps an end of the history.
LEMMA RestartsTrim ==
  ASSUME Base, Trim, [Next]_vars, Restarts
  PROVE  Trim' /\ TimesTyped'
<1> DEFINE asked == Append(restarts, now)
           old == DOMAIN asked \ Recent(asked)
           n == Len(history')
<1>1. flags \in SupFlagsS /\ now \in Nat /\ UNCHANGED flags /\ now' = now
      /\ restarts' = Trimmed(asked) /\ flags.period \in Nat
  BY ConfigKept DEF Base, Typed, Restarts, AddRestart, config, SupFlagsS
<1>2. history' \in Seq(Nat) /\ InTime(history', now) /\ n \in Nat
  BY AskedIsEnd
<1>3. PICK k \in 0 .. Len(history) : EndOf(asked, history', k, flags.period, now)
  BY AskedIsEnd
<1>4. /\ k \in 0 .. n /\ asked = SubSeq(history', k + 1, n)
      /\ \A j \in 1 .. k : history'[j] + flags.period <= now
  BY <1>3 DEF EndOf
<1> HIDE DEF asked
<1>5. /\ asked \in Seq(Nat) /\ Len(asked) = n - k
      /\ \A j \in 1 .. n - k : k + j \in 1 .. n /\ asked[j] = history'[k + j]
  BY <1>2, <1>4, Suffix
<1>6. DOMAIN asked = 1 .. n - k /\ DOMAIN history' = 1 .. n
  BY <1>2, <1>5
<1> HIDE DEF n
<1>7. InTime(asked, now)
  <2>1. \A i, j \in 1 .. n - k : i <= j => k + i <= k + j
    BY <1>2, <1>4
  <2> QED
    BY <1>2, <1>5, <1>6, <2>1 DEF InTime
<1>8. /\ Cardinality(old) \in 0 .. n - k
      /\ old = 1 .. Cardinality(old)
  BY <1>1, <1>5, <1>7, OldOnes
<1>9. PICK l \in 0 .. n - k : /\ Trimmed(asked) = SubSeq(asked, l + 1, n - k)
                              /\ \A j \in 1 .. l : j \in old
  <2>1. CASE old = {}
    <3>1. Trimmed(asked) = SubSeq(asked, 0 + 1, n - k)
      BY <1>5, <2>1 DEF Trimmed
    <3>2. 0 \in 0 .. n - k /\ \A j \in 1 .. 0 : j \in old
      BY <1>2, <1>4
    <3> QED
      BY <3>1, <3>2
  <2>2. CASE old # {}
    <3> DEFINE c == Cardinality(old)
    <3>1. Trimmed(asked) = SubSeq(asked, c, n - k)
      BY <1>5, <2>2 DEF Trimmed
    <3> HIDE DEF old
    <3> HIDE DEF c
    <3>2. c \in 0 .. n - k /\ c # 0
      BY <1>8, <2>2 DEF c
    <3>3. c - 1 \in 0 .. n - k /\ (c - 1) + 1 = c /\ \A j \in 1 .. c - 1 : j \in 1 .. c
      BY <1>2, <1>4, <3>2
    <3> QED
      BY <1>8, <3>1, <3>3 DEF c
  <2> QED
    BY <2>1, <2>2
<1>10. k + l \in 0 .. n
  BY <1>2, <1>4
<1>11. restarts' = SubSeq(history', (k + l) + 1, n)
  BY <1>1, <1>2, <1>4, <1>9, SuffixOfSuffix DEF n
<1>12. ASSUME NEW j \in 1 .. k + l PROVE history'[j] + flags.period <= now
  <2>1. CASE j <= k
    BY <1>4, <2>1
  <2>2. CASE j > k
    <3>1. j - k \in 1 .. l /\ j - k \in 1 .. n - k /\ k + (j - k) = j
      BY <1>2, <1>4, <2>2
    <3>2. j - k \in old /\ asked[j - k] = history'[j]
      BY <1>5, <1>9, <3>1
    <3>3. ~(asked[j - k] + flags.period > now) /\ asked[j - k] \in Nat
      BY <1>5, <3>1, <3>2 DEF Recent
    <3> QED
      BY <1>1, <3>2, <3>3
  <2> QED
    BY <1>4, <2>1, <2>2
<1>13. \A i, j \in DOMAIN history' : i <= j => history'[i] <= history'[j]
  BY <1>2 DEF InTime
<1>14. \A j \in DOMAIN history' : history'[j] <= now
  BY <1>2 DEF InTime
<1>15. restarts' \in Seq(Nat)
  BY <1>2, <1>10, <1>11, Suffix DEF n
<1>16. Trim'
  BY <1>1, <1>10, <1>11, <1>12, <1>13, <1>14 DEF Trim, n
<1> QED
  BY <1>1, <1>2, <1>15, <1>16 DEF TimesTyped

LEMMA TrimStep ==
  ASSUME Base, Trim, [Next]_vars
  PROVE  Trim' /\ TimesTyped'
<1>1. CASE Restarts
  BY <1>1, RestartsTrim
<1>2. CASE NoRestart
  <2>1. /\ TimesTyped /\ flags \in SupFlagsS /\ flags.period \in Nat /\ UNCHANGED flags
        /\ now' \in Nat /\ now <= now'
    BY <1>2, ConfigKept DEF Base, Typed, TimesTyped, NoRestart, config, SupFlagsS
  <2>2. \A j \in DOMAIN history : history[j] \in Nat
    BY <2>1 DEF TimesTyped
  <2>3. \A j \in DOMAIN history : history[j] <= now'
    BY <2>1, <2>2 DEF Trim, TimesTyped
  <2>4. PICK k \in 0 .. Len(history) :
          /\ restarts = SubSeq(history, k + 1, Len(history))
          /\ \A j \in 1 .. k : history[j] + flags.period <= now
    BY DEF Trim
  <2>5. \A j \in 1 .. k : history[j] + flags.period <= now'
    <3>1. \A j \in 1 .. k : history[j] \in Nat
      BY <2>1, <2>2 DEF TimesTyped
    <3> QED
      BY <2>1, <2>4, <3>1 DEF TimesTyped
  <2> QED
    BY <1>2, <2>1, <2>3, <2>4, <2>5 DEF Trim, TimesTyped, NoRestart
<1> QED
  BY <1>1, <1>2, DoingStep

\* The restarts that count, by state.restarts and by the history.
LEMMA SameCount ==
  ASSUME NEW hs \in Seq(Nat), NEW k, NEW rs, EndOf(rs, hs, k, flags.period, now),
         flags \in SupFlagsS, now \in Nat
  PROVE  Cardinality({j \in 1 .. Len(hs) : hs[j] + flags.period > now}) = Cardinality(Recent(rs))
<1> DEFINE late == {j \in 1 .. Len(hs) : hs[j] + flags.period > now}
           shift == [j \in Recent(rs) |-> k + j]
<1>1. /\ k \in 0 .. Len(hs) /\ rs = SubSeq(hs, k + 1, Len(hs)) /\ Len(hs) \in Nat
      /\ \A j \in 1 .. k : hs[j] + flags.period <= now
      /\ flags.period \in Nat
      /\ \A j \in 1 .. Len(hs) : hs[j] \in Nat
  BY DEF EndOf, SupFlagsS
<1>2. /\ rs \in Seq(Nat) /\ Len(rs) = Len(hs) - k
      /\ \A j \in 1 .. Len(hs) - k : k + j \in 1 .. Len(hs) /\ rs[j] = hs[k + j]
  BY <1>1, Suffix
<1>3. \A j : j \in Recent(rs) <=> j \in 1 .. Len(hs) - k /\ hs[k + j] + flags.period > now
  BY <1>2 DEF Recent
<1>4. \A j : j \in late <=> j \in 1 .. Len(hs) /\ hs[j] + flags.period > now
  OBVIOUS
<1> HIDE DEF late
<1>5. shift \in [Recent(rs) -> late]
  BY <1>2, <1>3, <1>4
<1>6. ASSUME NEW i \in Recent(rs), NEW j \in Recent(rs), shift[i] = shift[j] PROVE i = j
  <2>1. k + i = k + j /\ i \in Nat /\ j \in Nat
    BY <1>3, <1>6
  <2> QED
    BY <1>1, <2>1
<1>7. ASSUME NEW j \in late PROVE \E i \in Recent(rs) : shift[i] = j
  <2>1. j \in 1 .. Len(hs) /\ hs[j] + flags.period > now
    BY <1>4
  <2>2. ~(j <= k)
    <3>1. j <= k => hs[j] + flags.period <= now
      BY <1>1, <2>1
    <3>2. hs[j] + flags.period \in Nat
      BY <1>1, <2>1
    <3> QED
      BY <2>1, <3>1, <3>2
  <2>3. j - k \in 1 .. Len(hs) - k /\ k + (j - k) = j
    BY <1>1, <2>1, <2>2
  <2>4. j - k \in Recent(rs)
    BY <1>3, <2>1, <2>3
  <2> QED
    BY <2>3, <2>4
<1>8. shift \in Bijection(Recent(rs), late)
  BY <1>5, <1>6, <1>7 DEF Bijection, Injection, Surjection, IsInjective
<1>9. ExistsBijection(Recent(rs), late)
  BY <1>8 DEF ExistsBijection
<1>10. IsFiniteSet(Recent(rs))
  <2>1. Recent(rs) \subseteq 1 .. Len(rs) /\ Len(rs) \in Nat
    BY <1>2 DEF Recent
  <2> QED
    BY <2>1, IndicesAreFinite
<1>11. Cardinality(late) = Cardinality(Recent(rs))
  BY <1>9, <1>10, FS_Bijection
<1> QED
  BY <1>11 DEF late

LEMMA IntensityStep ==
  ASSUME Base, Trim, IntensityExact, [Next]_vars
  PROVE  IntensityExact'
<1>1. UNCHANGED flags /\ flags \in SupFlagsS /\ now \in Nat /\ history \in Seq(Nat)
  BY ConfigKept DEF config, Base, Typed
<1>2. CASE NoRestart
  BY <1>1, <1>2 DEF NoRestart, IntensityExact, Burst
<1>3. CASE Restarts
  <2> DEFINE n == Len(history)
             asked == Append(restarts, now)
  <2>1. why # "intensity" /\ (why' = "intensity" <=> Exceeded(asked))
    BY <1>3 DEF Restarts, Base, Core, Control
  <2>2. /\ history' \in Seq(Nat) /\ Len(history') = n + 1
        /\ \A j \in 1 .. n : history'[j] = history[j]
        /\ history'[n + 1] = now
    BY <1>3, AskedIsEnd
  <2>3. PICK k : EndOf(asked, history', k, flags.period, now)
    BY <1>3, AskedIsEnd
  <2> HIDE DEF asked
  <2>4. n \in Nat /\ DOMAIN history = 1 .. n /\ DOMAIN history' = 1 .. n + 1
    BY <1>1, <2>2
  <2> HIDE DEF n
  <2>5. Cardinality({j \in 1 .. n + 1 : history'[j] + flags.period > now}) = Cardinality(Recent(asked))
    BY <1>1, <2>2, <2>3, SameCount
  <2>6. \A i : i = n + 1 => Burst(i)' = Cardinality(Recent(asked))
    BY <1>1, <2>2, <2>5 DEF Burst
  <2>7. ASSUME NEW i \in 1 .. n PROVE Burst(i)' = Burst(i)
    <3>1. \A j \in 1 .. i : j \in 1 .. n
      BY <2>4
    <3>2. {j \in 1 .. i : history'[j] + flags.period > history'[i]}
            = {j \in 1 .. i : history[j] + flags.period > history[i]}
      BY <2>2, <3>1
    <3> QED
      BY <1>1, <3>2 DEF Burst
  <2>8. \A i \in 1 .. n : ~(Burst(i)' > flags.intensity)
    BY <2>1, <2>4, <2>7 DEF IntensityExact
  <2>9. (\E i \in DOMAIN history' : Burst(i)' > flags.intensity) <=> Exceeded(asked)
    <3>1. \A i \in DOMAIN history' : i \in 1 .. n \/ i = n + 1
      BY <2>4
    <3>2. n + 1 \in DOMAIN history'
      BY <2>4
    <3> QED
      BY <2>6, <2>8, <3>1, <3>2 DEF Exceeded
  <2> QED
    BY <1>1, <2>1, <2>9 DEF IntensityExact
<1> QED
  BY <1>2, <1>3, DoingStep

-----------------------------------------------------------------------------
(* The invariant.                                                          *)

Ind == Base /\ Leashed /\ Trim /\ IntensityExact

LEMMA InitChildren ==
  ASSUME Init
  PROVE  /\ flags \in SupFlagsS
         /\ children \in Seq(ChildSpec) /\ CheckDups(children)
         /\ \A i \in DOMAIN children :
              children[i].pid = 0 /\ ~children[i].terminated /\ ~children[i].ignored
         /\ pc \in {"start", "ended"} /\ (pc = "ended" => children = <<>>)
<1>1. PICK r \in Inits :
        LET es      == [i \in DOMAIN r.childSpecs |-> NewChildSpec(r.childSpecs[i])]
            refused == r.ignore \/ ~CheckDups(es)
        IN  /\ flags = r.supFlags
            /\ children = IF refused THEN <<>> ELSE es
            /\ pc = IF refused THEN "ended" ELSE "start"
  BY DEF Init
<1> DEFINE es == [i \in DOMAIN r.childSpecs |-> NewChildSpec(r.childSpecs[i])]
           refused == r.ignore \/ ~CheckDups(es)
<1>2. r.supFlags \in SupFlagsS /\ r.childSpecs \in Seq(Ids \cup {Blank})
  BY SupervisorAssumption DEF InitResult
<1>3. CASE refused
  <2>1. children = <<>> /\ pc = "ended" /\ flags = r.supFlags
    BY <1>1, <1>3
  <2> QED
    BY <1>2, <2>1 DEF CheckDups
<1>4. CASE ~refused
  <2>1. children = es /\ pc = "start" /\ flags = r.supFlags /\ CheckDups(es)
    BY <1>1, <1>4
  <2>2. /\ Len(r.childSpecs) \in Nat /\ DOMAIN es = 1 .. Len(r.childSpecs)
        /\ \A i \in DOMAIN es : es[i] = NewChildSpec(r.childSpecs[i])
        /\ \A i \in DOMAIN es : r.childSpecs[i] \in Ids \cup {Blank}
    BY <1>2
  <2>3. \A i \in DOMAIN es : es[i].id # Blank
    BY <2>1 DEF CheckDups
  <2> HIDE DEF es
  <2>4. ASSUME NEW i \in DOMAIN es
        PROVE  es[i] \in ChildSpec /\ es[i].pid = 0 /\ ~es[i].terminated /\ ~es[i].ignored
    <3>1. es[i] = NewChildSpec(r.childSpecs[i]) /\ es[i].id # Blank
      BY <2>2, <2>3
    <3>2. r.childSpecs[i] \in Ids
      BY <2>2, <3>1 DEF NewChildSpec
    <3> QED
      BY <3>1, <3>2 DEF NewChildSpec, ChildSpec
  <2>5. es = [i \in 1 .. Len(r.childSpecs) |-> es[i]]
    BY <2>2 DEF es
  <2>6. es \in [1 .. Len(r.childSpecs) -> ChildSpec]
    BY <2>2, <2>4, <2>5
  <2>7. es \in Seq(ChildSpec)
    BY <2>2, <2>6
  <2> QED
    BY <1>2, <2>1, <2>4, <2>7
<1> QED
  BY <1>3, <1>4

LEMMA InitInd ==
  ASSUME Init
  PROVE  Ind
<1>1. /\ flags \in SupFlagsS
      /\ children \in Seq(ChildSpec) /\ CheckDups(children)
      /\ \A i \in DOMAIN children :
           children[i].pid = 0 /\ ~children[i].terminated /\ ~children[i].ignored
      /\ pc \in {"start", "ended"} /\ (pc = "ended" => children = <<>>)
  BY InitChildren
<1>2. /\ kept = <<>> /\ order = children /\ work = <<>> /\ at = 1 /\ why = "init"
      /\ killer = "none" /\ restarts = <<>> /\ proc = <<>> /\ exits = {} /\ now = 0
      /\ spent = [deaths |-> 0, fails |-> 0, ignores |-> 0] /\ requested = 0
      /\ history = <<>> /\ misled = FALSE
  BY DEF Init
<1>3. Restart \in [Ids -> RestartType]
  BY SupervisorAssumption DEF Init
<1>4. /\ DOMAIN proc = {} /\ DOMAIN history = {} /\ DOMAIN kept = {} /\ DOMAIN work = {}
      /\ Len(kept) = 0 /\ Len(work) = 0 /\ Len(children) \in Nat
      /\ DOMAIN children = 1 .. Len(children)
  BY <1>1, <1>2
<1>5. Typed
  <2>1. \A es \in {children, kept, order, work} : es \in Seq(ChildSpec) /\ CheckDups(es)
    <3>1. <<>> \in Seq(ChildSpec) /\ CheckDups(<<>>)
      BY DEF CheckDups
    <3> QED
      BY <1>1, <1>2, <3>1
  <2>2. /\ at \in 1 .. (IF pc = "start" THEN Len(order) ELSE Len(work)) + 1
        /\ pc \in {"start", "idle", "stop", "kill", "ended"}
        /\ why \in {"none", "init", "restart", "rollback", "request", "intensity", "failed", "stopped"}
        /\ killer \in {"none", "unlink", "signal", "wait"} /\ (killer # "none" <=> pc = "kill")
    BY <1>1, <1>2, <1>4
  <2>3. /\ restarts \in Seq(Nat) /\ history \in Seq(Nat) /\ now \in Nat /\ proc \in Seq(Process)
        /\ exits \subseteq ExitMsg /\ requested \in Nat /\ misled \in BOOLEAN
    <3>1. <<>> \in Seq(Nat) /\ <<>> \in Seq(Process) /\ 0 \in Nat
      OBVIOUS
    <3>2. restarts \in Seq(Nat) /\ history \in Seq(Nat) /\ proc \in Seq(Process)
      BY <1>2, <3>1
    <3>3. now \in Nat /\ requested \in Nat /\ misled \in BOOLEAN /\ exits \subseteq ExitMsg
      BY <1>2
    <3> QED
      BY <3>2, <3>3
  <2>4. spent \in [deaths : Nat, fails : Nat, ignores : Nat]
    BY <1>2
  <2> QED
    BY <1>1, <1>3, <2>1, <2>2, <2>3, <2>4 DEF Typed
<1>6. Heard /\ RestartTypesKept /\ Trim /\ IntensityExact
  <2>1. restarts = SubSeq(history, 0 + 1, Len(history))
    BY <1>2
  <2>2. Trim
    BY <1>2, <1>4, <2>1 DEF Trim
  <2> QED
    BY <1>2, <1>4, <2>2 DEF Heard, RestartTypesKept, IntensityExact
<1>7. ListsGood
  <2>1. Good(children, proc) /\ Good(<<>>, proc)
    BY <1>1 DEF Good, Refers, CheckDups
  <2> QED
    BY <1>2, <1>4, <2>1 DEF ListsGood, Apart
<1>8. AtTyped /\ Control /\ OneTerminated
  BY <1>1, <1>2, <1>4 DEF AtTyped, Control, OneTerminated
<1>9. Account /\ Undisturbed
  BY <1>1, <1>2, <1>4 DEF Account, Undisturbed, IsAlive, Latest, Plain
<1>10. Placed
  <2>1. \A j \in DOMAIN children : Has(children, children[j].id) /\ Place(children[j].id) = j
    BY <1>4, <1>7, PlaceOf DEF Has
  <2> QED
    BY <1>2, <1>4, <2>1 DEF Placed
<1>11. Leashed
  BY <1>2, <1>4 DEF Leashed
<1> QED
  BY <1>5, <1>6, <1>7, <1>8, <1>9, <1>10, <1>11 DEF Ind, Base, Core

LEMMA StepInd ==
  ASSUME Ind, [Next]_vars
  PROVE  Ind'
<1>1. Base /\ Typed /\ Heard
  BY DEF Ind, Base
<1>2. ProcTyped' /\ Heard' /\ ProcGrows
  BY <1>1, ProcStep
<1>3. Core'
  BY <1>1, <1>2, CoreStep
<1>4. RestartTypesKept'
  BY <1>1, <1>2, RestartTypesStep
<1>5. DoingTyped'
  BY <1>1, DoingStep
<1>6. Trim' /\ TimesTyped'
  BY <1>1, TrimStep DEF Ind
<1>7. IntensityExact'
  BY <1>1, IntensityStep DEF Ind
<1>8. (flags \in SupFlagsS)' /\ (Restart \in [Ids -> RestartType])'
  BY <1>1, ConfigKept DEF Typed, config
<1>10. Leashed'
  BY <1>1, LeashedStep DEF Ind
<1>9. Typed'
  BY <1>2, <1>3, <1>5, <1>6, <1>8
     DEF Typed, ProcTyped, Core, ListsGood, Good, AtTyped, DoingTyped, TimesTyped
<1> QED
  BY <1>2, <1>3, <1>4, <1>6, <1>7, <1>9, <1>10 DEF Ind, Base

\* Everything the steps maintain together holds all the time.
THEOREM Inductive == Spec => []Ind
<1>1. Init => Ind
  BY InitInd
<1>2. Ind /\ [Next]_vars => Ind'
  BY StepInd
<1> QED
  BY <1>1, <1>2, PTL DEF Spec

-----------------------------------------------------------------------------
(* What the invariant says.                                                *)

LEMMA IndTypeOK ==
  ASSUME Ind
  PROVE  TypeOK
<1>0. Base
  BY DEF Ind
<1> USE <1>0, BaseFacts
<1>1. Typed
  BY DEF Base
<1>2. ASSUME NEW i \in DOMAIN children PROVE Info(children[i]) \in ChildInfo
  <2>1. children[i] \in ChildSpec
    OBVIOUS
  <2>2. children[i].id \in Ids /\ children[i].pid \in Nat
    BY <2>1 DEF ChildSpec
  <2>3. Status(children[i]) \in ChildStatus
    BY DEF Status, ChildStatus
  <2> QED
    BY <2>2, <2>3 DEF Info, ChildInfo
<1>3. WhichChildren \in Seq(ChildInfo)
  <2>1. WhichChildren \in [1 .. Len(children) -> ChildInfo]
    BY <1>2 DEF WhichChildren
  <2>2. \E n \in Nat : WhichChildren \in [1 .. n -> ChildInfo]
    BY <2>1
  <2> QED
    BY <2>2, SeqDef
<1>4. CountChildren \in ChildCount
  <2>1. {i \in DOMAIN children : Active(children[i])} \subseteq 1 .. Len(children)
    OBVIOUS
  <2>2. Cardinality({i \in DOMAIN children : Active(children[i])}) \in Nat
    BY <2>1, IndicesAreFinite
  <2> QED
    BY <2>2 DEF CountChildren, ChildCount
<1> QED
  BY <1>1, <1>3, <1>4 DEF TypeOK, Typed

\* Two running processes that the supervisor still has are not of one child.
LEMMA HeldOnce ==
  ASSUME Base, NEW q \in DOMAIN proc, NEW r \in DOMAIN proc, Held(q), Held(r),
         proc[q].id = proc[r].id
  PROVE  q = r
<1> USE BaseFacts
<1>1. ASSUME NEW es, Good(es, proc), NEW i \in DOMAIN es, NEW j \in DOMAIN es,
             es[i].pid = q, es[j].pid = r
      PROVE  q = r
  BY <1>1 DEF Good, Refers, CheckDups
<1>2. ASSUME NEW es, NEW fs, Good(es, proc), Good(fs, proc), Apart(es, fs),
             NEW i \in DOMAIN es, NEW j \in DOMAIN fs, es[i].pid = q, fs[j].pid = r
      PROVE  FALSE
  BY <1>2 DEF Good, Refers, Apart
<1>3. ASSUME NEW es, NEW fs, Good(es, proc), Good(fs, proc), Apart(es, fs),
             NEW i \in DOMAIN es, NEW j \in DOMAIN fs, es[i].pid = r, fs[j].pid = q
      PROVE  FALSE
  BY <1>3 DEF Good, Refers, Apart
<1>4. CASE Names(children, q) /\ Names(children, r)
  BY <1>1, <1>4 DEF Names, ListsGood
<1>5. CASE (Names(kept, q) \/ Names(order, q)) /\ (Names(kept, r) \/ Names(order, r))
  BY <1>1, <1>2, <1>3, <1>5 DEF Names, ListsGood
<1>6. CASE (Names(kept, q) \/ Names(work, q)) /\ (Names(kept, r) \/ Names(work, r))
  BY <1>1, <1>2, <1>3, <1>6 DEF Names, ListsGood
<1>7. \A j \in at .. Len(work) : pc \in {"stop", "kill"} => j \in DOMAIN work
  BY DEF AtTyped
<1>8. pc \in {"start", "idle", "stop", "kill", "ended"}
  BY DEF Base, Typed
<1>9. CASE pc = "idle" \/ why = "request"
  BY <1>4, <1>9 DEF Held
<1>10. CASE pc = "start"
  BY <1>5, <1>10 DEF Held
<1>11. CASE pc \in {"stop", "kill"} /\ why # "request"
  <2>1. /\ Names(kept, q) \/ Names(work, q)
        /\ Names(kept, r) \/ Names(work, r)
    BY <1>7, <1>11 DEF Held, Names
  <2> QED
    BY <1>6, <2>1
<1> QED
  BY <1>8, <1>9, <1>10, <1>11 DEF Held

LEMMA IndOnePerId ==
  ASSUME Ind
  PROVE  OnePerId
<1>0. Base
  BY DEF Ind
<1> USE <1>0, BaseFacts
<1> SUFFICES ASSUME ~misled, NEW id \in Ids PROVE Cardinality(Running(id)) <= 1
  BY DEF OnePerId
<1>1. ASSUME NEW q \in Running(id), NEW r \in Running(id) PROVE q = r
  <2>1. q \in DOMAIN proc /\ r \in DOMAIN proc /\ proc[q].id = proc[r].id /\ Held(q) /\ Held(r)
    BY DEF Running, Base, Core, Account
  <2> QED
    BY <2>1, HeldOnce
<1>2. CASE Running(id) = {}
  BY <1>2, FS_EmptySet
<1>3. CASE Running(id) # {}
  <2>1. PICK q : q \in Running(id)
    BY <1>3
  <2>2. Running(id) = {q}
    BY <1>1, <2>1
  <2>3. Cardinality({q}) = 1
    BY FS_Singleton
  <2> QED
    BY <2>2, <2>3
<1> QED
  BY <1>2, <1>3

LEMMA IndNoOrphan ==
  ASSUME Ind
  PROVE  NoOrphan /\ NothingLeftBehind
<1>0. Base
  BY DEF Ind
<1> USE <1>0, BaseFacts
<1>1. NoOrphan
  <2> SUFFICES ASSUME ~misled, pc = "idle", NEW q \in DOMAIN proc, proc[q].running
               PROVE  \E i \in DOMAIN children : children[i].pid = q /\ children[i].id = proc[q].id
    BY DEF NoOrphan
  <2>1. PICK i \in DOMAIN children : children[i].pid = q
    BY LoopNames DEF AllNamed, Names
  <2>2. q # 0
    OBVIOUS
  <2> QED
    BY <2>1, <2>2 DEF ListsGood, Good, Refers
<1>2. NothingLeftBehind
  BY DEF NothingLeftBehind, Running, Base, Core, Account, Held
<1> QED
  BY <1>1, <1>2

LEMMA IndReportsAgree ==
  ASSUME Ind
  PROVE  ReportsAgree
<1>0. Base
  BY DEF Ind
<1> USE <1>0, BaseFacts
<1> DEFINE running == {q \in DOMAIN proc : proc[q].running}
           active == {i \in DOMAIN children : Active(children[i])}
           pids == {w.pid : w \in ToSet(WhichChildren)}
           pidOf == [i \in active |-> children[i].pid]
<1> SUFFICES ASSUME flags.strategy = "one_for_one", requested = 0, pc = "idle"
             PROVE  pids \ {0} = running /\ CountChildren.active = Cardinality(running)
  BY DEF ReportsAgree
<1>1. AllNamed /\ Plain(children)
  BY LoopNames, LoopUntouched DEF Untouched, Base, Core, Undisturbed
<1>2. ASSUME NEW q \in running
      PROVE  \E i \in active : children[i].pid = q
  <2>1. q \in DOMAIN proc /\ proc[q].running /\ q # 0
    OBVIOUS
  <2>2. PICK i \in DOMAIN children : children[i].pid = q
    BY <1>1, <2>1 DEF AllNamed, Names
  <2>3. Active(children[i])
    BY <1>1, <2>1, <2>2 DEF Plain, Active, Status, IsAlive
  <2> QED
    BY <2>2, <2>3
<1>3. ASSUME NEW i \in active
      PROVE  i \in DOMAIN children /\ children[i].pid \in running /\ children[i].pid # 0
  <2>1. i \in DOMAIN children /\ IsAlive(children[i].pid)
    BY DEF Active, Status
  <2> QED
    BY <2>1 DEF IsAlive, ListsGood, Good, Refers
<1>4. pids = {Info(children[i]).pid : i \in DOMAIN children}
  <2>1. ToSet(WhichChildren) = {Info(children[i]) : i \in DOMAIN children}
    BY DEF ToSet, WhichChildren
  <2> QED
    BY <2>1
<1>5. \A i \in DOMAIN children :
        Info(children[i]).pid = IF i \in active THEN children[i].pid ELSE 0
  BY DEF Info, Active
<1>6. pids \ {0} = running
  <2>1. ASSUME NEW q \in running PROVE q \in pids \ {0}
    <3>1. PICK i \in active : children[i].pid = q
      BY <1>2
    <3> QED
      BY <1>3, <1>4, <1>5, <3>1
  <2>2. ASSUME NEW q \in pids \ {0} PROVE q \in running
    BY <1>3, <1>4, <1>5, <2>2
  <2> QED
    BY <2>1, <2>2
<1>7. ExistsBijection(active, running)
  <2>1. pidOf \in [active -> running]
    BY <1>3
  <2>2. ASSUME NEW i \in active, NEW j \in active, pidOf[i] = pidOf[j] PROVE i = j
    <3>1. children[i].pid \in DOMAIN proc /\ children[j].pid = children[i].pid
      BY <1>3, <2>2
    <3>2. i \in 1 .. Len(children) /\ j \in 1 .. Len(children)
      BY <1>3
    <3> QED
      BY <3>1, <3>2, OneEntry DEF ListsGood
  <2>3. \A q \in running : \E i \in active : pidOf[i] = q
    BY <1>2
  <2>4. pidOf \in Bijection(active, running)
    BY <2>1, <2>2, <2>3 DEF Bijection, Injection, Surjection, IsInjective
  <2> QED
    BY <2>4 DEF ExistsBijection
<1>8. IsFiniteSet(active)
  <2>1. active \subseteq 1 .. Len(children)
    OBVIOUS
  <2> QED
    BY <2>1, IndicesAreFinite
<1>9. Cardinality(running) = Cardinality(active)
  BY <1>7, <1>8, FS_Bijection
<1> QED
  BY <1>6, <1>9 DEF CountChildren

LEMMA IndLaterOnesAreDown ==
  ASSUME Ind
  PROVE  LaterOnesAreDown
<1>0. Base
  BY DEF Ind
<1> USE <1>0, BaseFacts
<1> SUFFICES ASSUME ~misled, why # "request", NEW i \in DOMAIN children,
                    Running(children[i].id) # {}
             PROVE  /\ pc = "kill" => i <= Place(work[at].id)
                    /\ Starting => i < Place(order[at].id)
  BY DEF LaterOnesAreDown
<1>1. PICK q \in DOMAIN proc : proc[q].running /\ proc[q].id = children[i].id
  BY DEF Running
<1>2. Held(q) /\ Placed /\ Account /\ Control
  BY <1>1 DEF Base, Core, Account
<1>3. \A es : Good(es, proc) => \A j \in DOMAIN es : es[j].pid = q => es[j].id = children[i].id
  BY <1>1 DEF Good, Refers
<1>4. Place(children[i].id) = i
  BY PlaceOf
<1>5. ASSUME pc \in {"start", "stop", "kill"}, Names(kept, q) PROVE i <= Len(kept)
  <2>1. PICK l \in DOMAIN kept : kept[l].pid = q
    BY <1>5 DEF Names
  <2>2. kept[l].id = children[i].id
    BY <1>3, <2>1 DEF ListsGood
  <2>3. kept[l].id = children[l].id /\ l \in DOMAIN children
    BY <1>2, <1>5, <2>1 DEF Placed
  <2>4. l = i
    BY <2>2, <2>3 DEF ListsGood, Good, CheckDups
  <2> QED
    BY <2>1, <2>4
<1>6. ASSUME pc = "kill" PROVE i <= Place(work[at].id)
  <2>1. at \in DOMAIN work
    BY <1>2, <1>6 DEF Control, AtTyped
  <2>2. Has(children, work[at].id) /\ Place(work[at].id) > Len(kept)
    BY <1>2, <1>6, <2>1 DEF Placed
  <2>3. Place(work[at].id) \in Int
    BY <2>2, PlaceOf DEF Has
  <2>4. CASE Names(kept, q)
    BY <1>5, <1>6, <2>2, <2>3, <2>4
  <2>5. ASSUME NEW j \in at .. Len(work), work[j].pid = q PROVE i <= Place(work[at].id)
    <3>1. j \in DOMAIN work
      BY <1>6 DEF AtTyped
    <3>2. work[j].id = children[i].id
      BY <1>3, <2>5, <3>1 DEF ListsGood
    <3>3. at < j => Place(work[at].id) > Place(work[j].id)
      BY <1>2, <1>6, <2>1, <3>1 DEF Placed
    <3>4. j = at \/ at < j
      BY <2>1
    <3> QED
      BY <1>4, <2>3, <3>2, <3>3, <3>4
  <2> QED
    BY <1>2, <1>6, <2>4, <2>5 DEF Held
<1>7. ASSUME Starting PROVE i < Place(order[at].id)
  <2>1. pc = "start" /\ at \in DOMAIN order
    BY <1>7 DEF Starting, AtTyped
  <2>2. Has(children, order[at].id) /\ Place(order[at].id) > Len(kept)
    BY <1>2, <2>1 DEF Placed
  <2>3. Place(order[at].id) \in Int
    BY <2>2, PlaceOf DEF Has
  <2>4. CASE Names(kept, q)
    BY <1>5, <2>1, <2>2, <2>3, <2>4
  <2>5. ASSUME NEW j \in DOMAIN order, order[j].pid = q PROVE i < Place(order[at].id)
    <3>1. order[j].id = children[i].id
      BY <1>3, <2>5 DEF ListsGood
    <3>2. ~(j \in at .. Len(order))
      BY <1>1, <1>2, <2>1, <2>5 DEF Account, IsAlive
    <3>3. j < at
      BY <2>1, <3>2
    <3>4. Place(order[j].id) < Place(order[at].id)
      BY <1>2, <2>1, <3>3 DEF Placed
    <3> QED
      BY <1>4, <3>1, <3>4
  <2> QED
    BY <1>2, <2>1, <2>4, <2>5 DEF Held, Names
<1> QED
  BY <1>6, <1>7

LEMMA IndIInv ==
  ASSUME Ind
  PROVE  IInv
<1>1. /\ TypeOK /\ NothingLeftBehind /\ NoOrphan /\ OnePerId /\ Leashed
      /\ RestartTypesKept /\ ReportsAgree
  BY IndTypeOK, IndNoOrphan, IndOnePerId, IndReportsAgree DEF Ind, Base
<1>2. Lists
  BY DEF Lists, Ind, Base, Core, ListsGood, Good
<1> QED
  BY <1>1, <1>2 DEF IInv, Inv, Ind, Base, Core

-----------------------------------------------------------------------------
\* Every variable keeps its type, and what a supervisor returns to its callers has
\* the type they expect.
THEOREM SupervisorTypeOK == Spec => []TypeOK
<1>1. Ind => TypeOK
  BY IndTypeOK
<1> QED
  BY <1>1, Inductive, PTL

\* With any number of children, whatever they die of and whatever is asked for in
\* the meantime: the supervisor forgets no process it started and has no two of one
\* child, leaves none behind when it ends, keeps to the restart types, and its
\* reports are true; and what runs is linked to it even when a request forgot it (HandleInfo, stopChildren, startChildren, Terminate).
THEOREM SupervisorIInv == Spec => []IInv
<1>1. Ind => IInv
  BY IndIInv
<1> QED
  BY <1>1, Inductive, PTL

\* OneForAll and RestForOne: while one of the group is stopped or started, none
\* that was started after it runs (stopChildren, startChildren).
THEOREM SupervisorLaterOnesAreDown == Spec => []LaterOnesAreDown
<1>1. Ind => LaterOnesAreDown
  BY IndLaterOnesAreDown
<1> QED
  BY <1>1, Inductive, PTL

\* addRestart's trimmed list decides as the full history would: the supervisor gives
\* up for its restarts exactly when more than the intensity fell within a period.
THEOREM SupervisorIntensityExact == Spec => []IntensityExact
<1>1. Ind => IntensityExact
  BY DEF Ind
<1> QED
  BY <1>1, Inductive, PTL
===============================================================================
