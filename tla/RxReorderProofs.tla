-------------------------- MODULE RxReorderProofs --------------------------
(***************************************************************************)
(* Proofs about RxReorder, for any sessions, window, number space and      *)
(* timeout: what the locked sections do to a session's frames, and that    *)
(* frames and memory are accounted for in whatever order the poll, the     *)
(* release work and the control path take tid->lock.                       *)
(***************************************************************************)
EXTENDS RxReorder, FiniteSetTheorems, WellFoundedInduction, TLAPS

-----------------------------------------------------------------------------
(* Arithmetic: remainders, least and largest elements.                     *)

LEMMA ModRange ==
  ASSUME NEW a \in Int, NEW b \in Nat \ {0}
  PROVE  a % b \in 0 .. b - 1
  OBVIOUS

LEMMA ModAdd ==
  ASSUME NEW b \in Nat \ {0}, NEW a \in 0 .. b - 1
  PROVE  (a + b) % b = a % b
  OBVIOUS

(* A set of naturals has a least element: its initial segments are finite  *)
(* sets, and strict inclusion of finite sets is well-founded.              *)
LEMMA Least ==
  ASSUME NEW K \in SUBSET Nat, K # {}
  PROVE  \E k \in K : \A j \in K : k <= j
  <1> DEFINE Seg(k) == {j \in K : j <= k}
             T == {Seg(k) : k \in K}
  <1>1. T \subseteq FiniteSubsetsOf(K)
    <2> SUFFICES ASSUME NEW k \in K PROVE Seg(k) \in FiniteSubsetsOf(K)  OBVIOUS
    <2>1. IsFiniteSet(0 .. k)  BY FS_Interval
    <2>2. Seg(k) \subseteq 0 .. k
      <3>1. \A j \in Seg(k) : j \in Nat /\ j <= k  OBVIOUS
      <3>2. k \in Nat  OBVIOUS
      <3> HIDE DEF Seg
      <3> QED BY <3>1, <3>2
    <2>3. IsFiniteSet(Seg(k))  BY <2>1, <2>2, FS_Subset
    <2> QED BY <2>3 DEF FiniteSubsetsOf
  <1>2. T # {}  OBVIOUS
  <1>3. PICK x \in T : \A y \in T : ~(<<y, x>> \in StrictSubsetOrdering(K))
    <2> HIDE DEF T
    <2> QED BY <1>1, <1>2, FS_StrictSubsetOrderingWellFounded, WFMin
  <1>4. PICK k \in K : x = Seg(k)  OBVIOUS
  <1>5. ASSUME NEW j \in K, j < k PROVE FALSE
    <2>0. j \in Nat /\ k \in Nat  OBVIOUS
    <2>1. Seg(j) \subseteq Seg(k)
      <3>1. \A i \in K : i \in Nat /\ (i <= j => i <= k)  BY <1>5, <2>0
      <3> QED BY <3>1
    <2>2. k \in Seg(k) /\ k \notin Seg(j)  BY <1>5, <2>0
    <2>3. <<Seg(j), x>> \in StrictSubsetOrdering(K)
      BY <2>1, <2>2, <1>4 DEF StrictSubsetOrdering
    <2> QED BY <2>3, <1>3
  <1> QED BY <1>5

LEMMA Greatest ==
  ASSUME NEW n \in Nat, NEW K \in SUBSET (0 .. n), K # {}
  PROVE  \E k \in K : \A j \in K : j <= k
  <1> DEFINE M == {n - k : k \in K}
  <1>1. M \in SUBSET Nat /\ M # {}
    <2>1. \A k \in K : n - k \in Nat  OBVIOUS
    <2> QED BY <2>1
  <1>2. PICK m \in M : \A j \in M : m <= j
    <2> HIDE DEF M
    <2> QED BY <1>1, Least
  <1>3. PICK k \in K : m = n - k  OBVIOUS
  <1>4. ASSUME NEW j \in K PROVE j <= k
    <2>1. n - j \in M  OBVIOUS
    <2> QED BY <2>1, <1>2, <1>3
  <1> QED BY <1>4

(* The i-th smallest member of a finite set of naturals exists.            *)
LEMMA Nth ==
  ASSUME NEW n \in Nat, NEW G \in SUBSET (0 .. n), NEW i \in 1 .. Cardinality(G)
  PROVE  \E k \in G : Cardinality({j \in G : j <= k}) = i
  <1> DEFINE Up(k) == {j \in G : j <= k}
             Low(k) == {j \in G : j < k}
             K == {k \in G : Cardinality(Up(k)) >= i}
  <1>1. IsFiniteSet(0 .. n)  BY FS_Interval
  <1>2. \A S \in SUBSET G : IsFiniteSet(S) /\ Cardinality(S) \in Nat
    BY <1>1, FS_Subset, FS_CardinalityType
  <1>3. K # {}
    <2>1. G # {}  BY <1>2, FS_EmptySet
    <2>2. PICK m \in G : \A j \in G : j <= m  BY <2>1, Greatest
    <2>3. Up(m) = G  BY <2>2
    <2>4. Cardinality(G) \in Nat  BY <1>2
    <2> QED BY <2>3, <2>4
  <1>4. PICK k \in K : \A j \in K : k <= j
    <2>1. K \in SUBSET Nat
      <3>1. G \subseteq Nat /\ K \subseteq G  OBVIOUS
      <3> QED BY <3>1
    <2> HIDE DEF K
    <2> QED BY <1>3, <2>1, Least
  <1>5. Cardinality(Up(k)) = Cardinality(Low(k)) + 1
    <2>0. k \in G /\ G \subseteq Int  OBVIOUS
    <2>1. Up(k) = Low(k) \cup {k} /\ k \notin Low(k)
      <3>1. \A j \in G : j <= k <=> j < k \/ j = k  BY <2>0
      <3>2. ~(k < k)  BY <2>0
      <3>3. \A j : j \in Up(k) <=> j \in Low(k) \/ j = k  BY <2>0, <3>1
      <3> HIDE DEF Up
      <3> QED BY <3>2, <3>3
    <2>2. IsFiniteSet(Low(k))  BY <1>2
    <2> QED BY <2>1, <2>2, FS_AddElement
  <1>6. CASE Low(k) = {}
    <2>1. Cardinality(Low(k)) = 0  BY <1>6, FS_EmptySet
    <2>2. Cardinality(Up(k)) = 1 /\ Cardinality(Up(k)) >= i  BY <2>1, <1>5
    <2>3. Cardinality(Up(k)) = i  BY <2>2, <1>2
    <2> QED BY <2>3
  <1>7. CASE Low(k) # {}
    <2>1. PICK m \in Low(k) : \A j \in Low(k) : j <= m
      <3>1. Low(k) \in SUBSET (0 .. n)  OBVIOUS
      <3> HIDE DEF Low
      <3> QED BY <1>7, <3>1, Greatest
    <2>2. Up(m) = Low(k)
      <3>1. m \in G /\ m < k /\ m \in Int /\ k \in Int /\ G \subseteq Int  OBVIOUS
      <3>2. \A j \in G : j <= m <=> j < k  BY <2>1, <3>1
      <3> QED BY <3>2
    <2>3. m \notin K  BY <2>1, <1>4
    <2>4. Cardinality(Low(k)) < i  BY <2>2, <2>3, <1>2
    <2>5. Cardinality(Low(k)) \in Nat /\ Cardinality(Up(k)) >= i  BY <1>2
    <2>6. Cardinality(Up(k)) = i  BY <2>4, <2>5, <1>5
    <2> QED BY <2>6
  <1> QED BY <1>6, <1>7

-----------------------------------------------------------------------------
(* Sessions: what the operators on one session keep.                       *)

Counted(t) == t.nframes = Cardinality(Used(t))

LEMMA Positive == SN \in Nat \ {0} /\ Size \in Nat \ {0} /\ 0 \in Sn /\ Empty \notin Frames
  BY SnAssumption, SizeAssumption DEF Sn, Empty, Frames

LEMMA UsedFinite ==
  ASSUME NEW t
  PROVE  \A S \in SUBSET Used(t) : IsFiniteSet(S) /\ Cardinality(S) \in Nat
  <1>1. IsFiniteSet(Slots)  BY FS_Interval, Positive DEF Slots
  <1>2. Used(t) \subseteq Slots  BY DEF Used
  <1> QED BY <1>1, <1>2, FS_Subset, FS_CardinalityType

LEMMA SlotType ==
  ASSUME NEW t \in Sessions, NEW k \in Int
  PROVE  Slot(t, k) \in Slots
  <1>1. t.head \in Int  BY Positive DEF Sessions, Sn
  <1>2. (t.head + k) % SN \in Int  BY <1>1, ModRange, Positive
  <1>3. ((t.head + k) % SN) % Size \in 0 .. Size - 1  BY <1>2, ModRange, Positive
  <1> QED BY <1>3 DEF Slot, Slots

LEMMA HeadMoved ==
  ASSUME NEW t \in Sessions, NEW n \in Nat
  PROVE  ReleaseN(t, n).head = (t.head + n) % SN
  BY DEF ReleaseN, Sessions

(* mt76_aggr_release, n times: the slots it passes are emptied and counted *)
(* off, the others are left alone.                                         *)
LEMMA ReleaseNKeeps ==
  ASSUME NEW t \in Sessions, NEW n \in Nat, Counted(t)
  PROVE  /\ ReleaseN(t, n) \in Sessions /\ Counted(ReleaseN(t, n))
         /\ Used(ReleaseN(t, n)) \subseteq Used(t)
         /\ ReleaseN(t, n).started = t.started /\ ReleaseN(t, n).stopped = t.stopped
  <1> DEFINE freed == {Slot(t, k) : k \in 0 .. n - 1}
             r == ReleaseN(t, n)
  <1>1. (t.head + n) % SN \in Sn
    <2>1. t.head \in Int  BY Positive DEF Sessions, Sn
    <2>2. t.head + n \in Int  BY <2>1
    <2>3. (t.head + n) % SN \in 0 .. SN - 1  BY <2>2, ModRange, Positive
    <2> QED BY <2>3 DEF Sn
  <1>2. /\ r.head = (t.head + n) % SN /\ r.started = t.started /\ r.stopped = t.stopped
        /\ r.buf = [i \in Slots |-> IF i \in freed THEN Empty ELSE t.buf[i]]
        /\ r.nframes = t.nframes - Cardinality(freed \cap Used(t))
        /\ r = [head |-> r.head, buf |-> r.buf, nframes |-> r.nframes,
                started |-> r.started, stopped |-> r.stopped]
    <2>1. r = [t EXCEPT !.head = (t.head + n) % SN,
                        !.buf = [i \in Slots |-> IF i \in freed THEN Empty ELSE t.buf[i]],
                        !.nframes = t.nframes - Cardinality(freed \cap Used(t))]
      BY DEF ReleaseN
    <2> HIDE DEF r, freed
    <2> QED BY <2>1 DEF Sessions
  <1>3. Used(r) = Used(t) \ freed
    BY <1>2 DEF Used
  <1>4. Cardinality(Used(r)) = Cardinality(Used(t)) - Cardinality(Used(t) \cap freed)
    BY <1>3, FS_Difference, UsedFinite
  <1>5. freed \cap Used(t) = Used(t) \cap freed /\ Cardinality(Used(t) \cap freed) \in Nat
    BY UsedFinite
  <1>6. Counted(r)
    BY <1>2, <1>4, <1>5 DEF Counted
  <1>7. r.nframes \in Int
    <2>1. t.nframes \in Int  BY DEF Sessions
    <2>2. Cardinality(freed \cap Used(t)) \in Int  BY <1>5
    <2> QED BY <2>1, <2>2, <1>2
  <1>8. r.buf \in [Slots -> Frames \cup {Empty}]
    BY <1>2 DEF Sessions
  <1>9. r.started \in BOOLEAN /\ r.stopped \in BOOLEAN
    BY <1>2 DEF Sessions
  <1>10. r \in Sessions
    BY <1>1, <1>2, <1>7, <1>8, <1>9 DEF Sessions
  <1> QED BY <1>2, <1>3, <1>6, <1>10

(* The steps that hand a frame up.                                         *)
Got(t, n) == {k \in 0 .. n - 1 : t.buf[Slot(t, k)] # Empty /\ ~Revisit(t, k)}

(* The members of a finite set of naturals by rank, in rising order.       *)
LEMMA Ranks ==
  ASSUME NEW n \in Nat, NEW G \in SUBSET (0 .. n)
  PROVE  LET N == Cardinality(G)
             nth == [i \in 1 .. N |-> CHOOSE k \in G : Cardinality({j \in G : j <= k}) = i]
         IN  /\ N \in Nat /\ nth \in [1 .. N -> G]
             /\ \A i, j \in 1 .. N : i < j => nth[i] < nth[j]
             /\ \A k \in G : \E i \in 1 .. N : nth[i] = k
  <1> DEFINE N == Cardinality(G)
             Up(k) == {j \in G : j <= k}
             nth == [i \in 1 .. N |-> CHOOSE k \in G : Cardinality(Up(k)) = i]
  <1>1. IsFiniteSet(0 .. n)  BY FS_Interval
  <1>2. \A S \in SUBSET G : IsFiniteSet(S) /\ Cardinality(S) \in Nat
    BY <1>1, FS_Subset, FS_CardinalityType
  <1>3. N \in Nat  BY <1>2
  <1>4. \A i \in 1 .. N : \E k \in G : Cardinality(Up(k)) = i  BY Nth
  <1>5. \A k \in G : Up(k) \in SUBSET G  OBVIOUS
  <1>6. \A k, l \in G : k <= l => Cardinality(Up(k)) <= Cardinality(Up(l))
    <2> SUFFICES ASSUME NEW k \in G, NEW l \in G, k <= l
                 PROVE  Cardinality(Up(k)) <= Cardinality(Up(l))
      OBVIOUS
    <2>1. k \in Int /\ l \in Int /\ G \subseteq Int  OBVIOUS
    <2>2. Up(k) \subseteq Up(l)
      <3>1. \A j \in G : j <= k => j <= l  BY <2>1
      <3> QED BY <3>1
    <2>3. IsFiniteSet(Up(l))  BY <1>2, <1>5
    <2> HIDE DEF Up
    <2> QED BY <2>2, <2>3, FS_Subset
  <1>7. \A k, l \in G : k < l => Cardinality(Up(k)) # Cardinality(Up(l))
    <2> SUFFICES ASSUME NEW k \in G, NEW l \in G, k < l,
                        Cardinality(Up(k)) = Cardinality(Up(l))
                 PROVE  FALSE
      OBVIOUS
    <2>1. k \in Int /\ l \in Int /\ G \subseteq Int  OBVIOUS
    <2>2. Up(k) \subseteq Up(l) /\ l \in Up(l) /\ l \notin Up(k)
      <3>1. \A j \in G : j <= k => j <= l  BY <2>1
      <3>2. l <= l /\ ~(l <= k)  BY <2>1
      <3> QED BY <3>1, <3>2
    <2>3. IsFiniteSet(Up(l))  BY <1>2, <1>5
    <2> HIDE DEF Up
    <2>4. Up(k) = Up(l)  BY <2>2, <2>3, FS_Subset
    <2> QED BY <2>2, <2>4
  <1>8. \A k \in G : Cardinality(Up(k)) \in 1 .. N
    <2> SUFFICES ASSUME NEW k \in G PROVE Cardinality(Up(k)) \in 1 .. N  OBVIOUS
    <2>1. k \in Up(k) /\ Up(k) \in SUBSET G /\ IsFiniteSet(Up(k))
      <3>1. k \in Int  OBVIOUS
      <3> QED BY <3>1, <1>2, <1>5
    <2>2. Cardinality(Up(k)) # 0  BY <2>1, FS_EmptySet
    <2>3. Cardinality(Up(k)) <= N  BY <1>2, <2>1, FS_Subset
    <2>4. Cardinality(Up(k)) \in Nat  BY <1>2, <2>1
    <2> QED BY <1>3, <2>2, <2>3, <2>4
  <1>0. G \subseteq Int  OBVIOUS
  <1> HIDE DEF Up, N
  <1>9. \A i \in 1 .. N : nth[i] \in G /\ Cardinality(Up(nth[i])) = i  BY <1>4
  <1>10. nth \in [1 .. N -> G]
    <2> SUFFICES \A i \in 1 .. N : nth[i] \in G  OBVIOUS
    <2> QED BY <1>9
  <1> HIDE DEF nth
  <1>11. ASSUME NEW i \in 1 .. N, NEW j \in 1 .. N, i < j
         PROVE  nth[i] < nth[j]
    <2> SUFFICES ASSUME ~(nth[i] < nth[j]) PROVE FALSE  OBVIOUS
    <2>1. nth[i] \in G /\ nth[j] \in G /\ nth[i] \in Int /\ nth[j] \in Int
      BY <1>0, <1>9
    <2>2. nth[j] <= nth[i]  BY <2>1
    <2>3. j <= i  BY <1>6, <1>9, <2>1, <2>2
    <2> QED BY <1>3, <1>11, <2>3
  <1>12. ASSUME NEW k \in G
         PROVE  \E i \in 1 .. N : nth[i] = k
    <2> DEFINE i == Cardinality(Up(k))
    <2>1. i \in 1 .. N  BY <1>8
    <2>2. nth[i] \in G /\ Cardinality(Up(nth[i])) = i  BY <1>9, <2>1
    <2>3. nth[i] = k
      <3>1. nth[i] \in Int /\ k \in Int  BY <1>0, <2>2
      <3>2. ~(nth[i] < k) /\ ~(k < nth[i])  BY <1>7, <2>2
      <3> QED BY <3>1, <3>2
    <2> QED BY <2>1, <2>3
  <1> QED BY <1>3, <1>10, <1>11, <1>12 DEF nth, N, Up

(* The list of n release steps: the frames met, step by step.              *)
LEMMA ReleasedIs ==
  ASSUME NEW t \in Sessions, NEW n \in Nat
  PROVE  \E N \in Nat : \E nth \in [1 .. N -> Got(t, n)] :
            /\ Released(t, n) = [i \in 1 .. N |-> t.buf[Slot(t, nth[i])].sn]
            /\ \A i, j \in 1 .. N : i < j => nth[i] < nth[j]
            /\ \A k \in Got(t, n) : \E i \in 1 .. N : nth[i] = k
  <1> DEFINE G == Got(t, n)
             N == Cardinality(G)
             pick(i) == CHOOSE k \in G : Cardinality({j \in G : j <= k}) = i
             nth == [i \in 1 .. N |-> pick(i)]
  <1>1. G \in SUBSET (0 .. n)  BY DEF Got
  <1>2. Released(t, n) = [i \in 1 .. N |-> t.buf[Slot(t, pick(i))].sn]
    BY DEF Released, Got
  <1> HIDE DEF G
  <1>3. /\ N \in Nat /\ nth \in [1 .. N -> G]
        /\ \A i, j \in 1 .. N : i < j => nth[i] < nth[j]
        /\ \A k \in G : \E i \in 1 .. N : nth[i] = k
    BY <1>1, Ranks
  <1> HIDE DEF N, pick
  <1>4. \A i \in 1 .. N : nth[i] = pick(i)  OBVIOUS
  <1> HIDE DEF nth
  <1>5. Released(t, n) = [i \in 1 .. N |-> t.buf[Slot(t, nth[i])].sn]
    BY <1>2, <1>4
  <1> QED BY <1>3, <1>5 DEF G

(* What those steps hand up is a list of sequence numbers.                 *)
LEMMA ReleasedType ==
  ASSUME NEW t \in Sessions, NEW n \in Nat
  PROVE  Released(t, n) \in Seq(Sn)
  <1>1. PICK N \in Nat : \E nth \in [1 .. N -> Got(t, n)] :
            /\ Released(t, n) = [i \in 1 .. N |-> t.buf[Slot(t, nth[i])].sn]
            /\ \A i, j \in 1 .. N : i < j => nth[i] < nth[j]
            /\ \A k \in Got(t, n) : \E i \in 1 .. N : nth[i] = k
    BY ReleasedIs
  <1>2. PICK nth \in [1 .. N -> Got(t, n)] :
            Released(t, n) = [i \in 1 .. N |-> t.buf[Slot(t, nth[i])].sn]
    BY <1>1
  <1>3. ASSUME NEW i \in 1 .. N PROVE t.buf[Slot(t, nth[i])].sn \in Sn
    <2>1. nth[i] \in Got(t, n)  OBVIOUS
    <2>2. nth[i] \in Int /\ t.buf[Slot(t, nth[i])] # Empty  BY <2>1 DEF Got
    <2>3. Slot(t, nth[i]) \in Slots  BY <2>2, SlotType
    <2>4. t.buf[Slot(t, nth[i])] \in Frames  BY <2>2, <2>3 DEF Sessions
    <2> QED BY <2>4 DEF Frames
  <1> QED BY <1>2, <1>3

LEMMA StepsType ==
  ASSUME NEW t \in Sessions, NEW h \in Sn
  PROVE  StepsTo(t, h) \in Nat
  <1>1. h - t.head \in Int  BY Positive DEF Sessions, Sn
  <1> QED BY <1>1, ModRange, Positive DEF StepsTo, Dist

(* The loop of mt76_rx_aggr_release_head ends: at the latest where the     *)
(* numbers come round.  It releases a frame at every step.                 *)
LEMMA HeadRunType ==
  ASSUME NEW t \in Sessions
  PROVE  /\ HeadRun(t) \in Nat /\ Gap(t, HeadRun(t))
         /\ \A j \in 0 .. HeadRun(t) - 1 : j \in Got(t, HeadRun(t))
  <1> DEFINE K == {k \in 0 .. SN : Gap(t, k)}
  <1>1. SN \in K
    <2>1. Slot(t, 0) = Slot(t, SN)
      BY ModAdd, Positive DEF Slot, Sessions, Sn
    <2>2. 0 \in 0 .. SN - 1 /\ SN \in 0 .. SN  BY Positive
    <2> QED BY <2>1, <2>2 DEF Gap, Revisit
  <1>2. PICK k \in K : \A j \in K : k <= j
    <2>1. K \in SUBSET Nat /\ K # {}  BY <1>1, Positive
    <2> HIDE DEF K
    <2> QED BY <2>1, Least
  <1>3. k \in 0 .. SN /\ Gap(t, k)  OBVIOUS
  <1>4. \A j \in 0 .. k - 1 : ~Gap(t, j)
    <2> SUFFICES ASSUME NEW j \in 0 .. k - 1, Gap(t, j) PROVE FALSE  OBVIOUS
    <2>1. j \in K /\ j < k  BY <1>3, Positive
    <2> QED BY <2>1, <1>2, <1>3, Positive
  <1>5. /\ HeadRun(t) \in 0 .. SN /\ Gap(t, HeadRun(t))
        /\ \A j \in 0 .. HeadRun(t) - 1 : ~Gap(t, j)
    BY <1>3, <1>4 DEF HeadRun
  <1>6. \A j \in 0 .. HeadRun(t) - 1 : j \in Got(t, HeadRun(t))
    BY <1>5 DEF Gap, Got
  <1> QED BY <1>5, <1>6, Positive

(* What a section that releases frames leaves of a session t.              *)
Kept(t, r) ==
    r \in Sessions /\ Counted(r) /\ Used(r) \subseteq Used(t) /\ r.stopped = t.stopped

LEMMA ReleaseKept ==
  ASSUME NEW t \in Sessions, Counted(t), NEW n \in Nat
  PROVE  Kept(t, ReleaseN(t, n))
  BY ReleaseNKeeps DEF Kept

LEMMA AdvanceKept ==
  ASSUME NEW t \in Sessions, Counted(t), NEW h \in Sn
  PROVE  Kept(t, Advance(t, h).tid) /\ Advance(t, h).out \in Seq(Sn)
  <1> DEFINE a == ReleaseFrames(t, h)
             b == ReleaseHead(a)
  <1>1. Kept(t, a) /\ Released(t, StepsTo(t, h)) \in Seq(Sn)
    BY StepsType, ReleaseKept, ReleasedType DEF ReleaseFrames
  <1>2. a \in Sessions /\ Counted(a)  BY <1>1 DEF Kept
  <1>3. Kept(a, b) /\ Released(a, HeadRun(a)) \in Seq(Sn)
    <2> HIDE DEF a
    <2> QED BY <1>2, HeadRunType, ReleaseKept, ReleasedType DEF ReleaseHead
  <1>4. Kept(t, b)  BY <1>1, <1>3 DEF Kept
  <1>5. Advance(t, h) = [tid |-> b, out |-> Released(t, StepsTo(t, h)) \o Released(a, HeadRun(a))]
    BY DEF Advance
  <1> HIDE DEF a, b
  <1> QED BY <1>1, <1>3, <1>4, <1>5

(* The furthest of some buffered frames exists, and has a number.          *)
LEMMA FurthestType ==
  ASSUME NEW a \in Sessions, NEW exp \in SUBSET Used(a), exp # {}
  PROVE  a.buf[CHOOSE i \in exp : \A j \in exp :
                 Dist(a.buf[j].sn, a.head) <= Dist(a.buf[i].sn, a.head)].sn \in Sn
  <1> DEFINE far(i) == Dist(a.buf[i].sn, a.head)
             last == CHOOSE i \in exp : \A j \in exp :
                        Dist(a.buf[j].sn, a.head) <= Dist(a.buf[i].sn, a.head)
             D == {far(i) : i \in exp}
  <1>1. \A i \in exp : a.buf[i].sn \in Sn
    BY DEF Used, Sessions, Frames
  <1>2. \A i \in exp : far(i) \in 0 .. SN - 1
    <2>1. ASSUME NEW i \in exp PROVE a.buf[i].sn - a.head \in Int
      BY <1>1, Positive DEF Sessions, Sn
    <2> QED BY <2>1, ModRange, Positive DEF Dist
  <1>3. SN - 1 \in Nat /\ D \in SUBSET (0 .. SN - 1) /\ D # {}
    BY <1>2, Positive
  <1>4. PICK d \in D : \A e \in D : e <= d
    <2> HIDE DEF D
    <2> QED BY <1>3, Greatest
  <1>5. PICK i \in exp : d = far(i)  OBVIOUS
  <1>6. \A j \in exp : far(j) <= far(i)  BY <1>4, <1>5
  <1>7. last \in exp  BY <1>6
  <1> QED BY <1>1, <1>7

(* mt76_rx_aggr_check_release.                                             *)
LEMMA CheckReleaseKept ==
  ASSUME NEW t \in Sessions, Counted(t)
  PROVE  Kept(t, CheckRelease(t).tid) /\ CheckRelease(t).out \in Seq(Sn)
  <1> DEFINE a == ReleaseHead(t)
             exp == {i \in Used(a) : Expired(a.buf[i])}
             last == CHOOSE i \in exp : \A j \in exp :
                        Dist(a.buf[j].sn, a.head) <= Dist(a.buf[i].sn, a.head)
             b == IF exp = {} THEN [tid |-> a, out |-> <<>>]
                              ELSE Advance(a, a.buf[last].sn)
  <1>1. Kept(t, a) /\ Released(t, HeadRun(t)) \in Seq(Sn)
    BY HeadRunType, ReleaseKept, ReleasedType DEF ReleaseHead
  <1>2. a \in Sessions /\ Counted(a)  BY <1>1 DEF Kept
  <1> HIDE DEF a
  <1>3. ASSUME exp # {} PROVE a.buf[last].sn \in Sn
    BY <1>2, <1>3, FurthestType
  <1>4. Kept(a, b.tid) /\ b.out \in Seq(Sn)
    <2>1. CASE exp = {}
      <3>1. b.tid = a /\ b.out = <<>>  BY <2>1
      <3> HIDE DEF b
      <3>2. Kept(a, a)  BY <1>2 DEF Kept
      <3> QED BY <3>1, <3>2
    <2>2. CASE exp # {}
      <3> HIDE DEF exp, last
      <3> QED BY <2>2, <1>2, <1>3, AdvanceKept
    <2> QED BY <2>1, <2>2
  <1>5. CheckRelease(t) = IF t.nframes = 0 THEN [tid |-> t, out |-> <<>>]
                          ELSE [tid |-> b.tid, out |-> Released(t, HeadRun(t)) \o b.out]
    BY DEF CheckRelease, a
  <1>6. Kept(t, t) /\ <<>> \in Seq(Sn)  BY DEF Kept
  <1>7. Kept(t, b.tid)  BY <1>1, <1>4 DEF Kept
  <1> HIDE DEF b
  <1> QED BY <1>1, <1>4, <1>5, <1>6, <1>7

(* mt76_rx_aggr_check_ctl.                                                 *)
LEMMA CheckCtlKept ==
  ASSUME NEW t \in Sessions, Counted(t), NEW ssn \in Sn
  PROVE  Kept(t, CheckCtl(t, ssn).tid) /\ CheckCtl(t, ssn).out \in Seq(Sn)
  <1>1. CASE t.stopped
    <2>1. CheckCtl(t, ssn) = [tid |-> t, out |-> <<>>]  BY <1>1 DEF CheckCtl
    <2>2. Kept(t, t) /\ <<>> \in Seq(Sn)  BY DEF Kept
    <2> QED BY <2>1, <2>2
  <1>2. CASE ~t.stopped
    BY <1>2, AdvanceKept DEF CheckCtl
  <1> QED BY <1>1, <1>2

(* The steps that make room for a frame beyond the window.                 *)
LEMMA RoomType ==
  ASSUME NEW t \in Sessions, NEW sn \in Sn
  PROVE  RoomSteps(t, sn) \in Nat
  <1>1. sn - Size \in Int  BY Positive DEF Sn
  <1>2. SnSub(sn, Size) \in Int  BY <1>1, ModRange, Positive DEF SnSub
  <1>3. SnInc(SnSub(sn, Size)) \in Sn
    <2>1. \A x \in Int : (x + 1) % SN \in 0 .. SN - 1  BY ModRange, Positive
    <2> QED BY <1>2, <2>1 DEF SnInc, Sn
  <1> QED BY <1>3, StepsType DEF RoomSteps

(* mt76_rx_aggr_reorder: a frame enters the buffer only of a session that  *)
(* is not stopped, and never without queueing the release work.            *)
LEMMA ReorderKept ==
  ASSUME NEW t0 \in Sessions, Counted(t0), NEW sn \in Sn
  PROVE  LET r == Reorder(t0, sn)
         IN  /\ r.tid \in Sessions /\ Counted(r.tid) /\ r.tid.stopped = t0.stopped
             /\ r.out \in Seq(Sn) /\ r.queue \in BOOLEAN
             /\ t0.stopped => r.tid = t0 /\ ~r.queue
             /\ r.queue \/ Used(r.tid) \subseteq Used(t0)
  <1> DEFINE old == SnLess(sn, t0.head)
             t == [t0 EXCEPT !.started = TRUE]
  <1>1. t \in Sessions /\ Used(t) = Used(t0) /\ Counted(t) /\ t.stopped = t0.stopped /\ t.head = t0.head
    <2>1. t \in Sessions /\ t.buf = t0.buf /\ t.nframes = t0.nframes /\ t.stopped = t0.stopped /\ t.head = t0.head
      BY DEF Sessions
    <2> HIDE DEF t
    <2> QED BY <2>1 DEF Used, Counted
  <1>2. <<sn>> \in Seq(Sn) /\ <<>> \in Seq(Sn)  OBVIOUS
  <1>3. CASE t0.stopped \/ (~t0.started /\ old)
    BY <1>2, <1>3 DEF Reorder, Pass
  <1>4. CASE ~t0.stopped /\ ~(~t0.started /\ old) /\ old
    <2>1. Reorder(t0, sn) = Drop(t, <<>>)  BY <1>4 DEF Reorder
    <2> HIDE DEF t
    <2> QED BY <2>1, <1>1, <1>2, <1>4 DEF Drop
  <1>5. CASE ~t0.stopped /\ ~old /\ sn = t0.head
    <2> DEFINE a == [t EXCEPT !.head = SnInc(@)]
               n == IF t.nframes = 0 THEN 0 ELSE HeadRun(a)
    <2>1. Reorder(t0, sn) = [tid |-> ReleaseN(a, n), out |-> <<sn>> \o Released(a, n),
                             drop |-> FALSE, queue |-> FALSE]
      BY <1>5 DEF Reorder, AtHead
    <2>2. a \in Sessions /\ Used(a) = Used(t) /\ Counted(a) /\ a.stopped = t.stopped
      <3>1. SnInc(t.head) \in Sn  BY <1>1, ModRange, Positive DEF SnInc, Sessions, Sn
      <3> HIDE DEF t
      <3>2. a \in Sessions /\ a.buf = t.buf /\ a.nframes = t.nframes /\ a.stopped = t.stopped
        BY <1>1, <3>1 DEF Sessions
      <3> HIDE DEF a
      <3> QED BY <1>1, <3>2 DEF Used, Counted
    <2> HIDE DEF a, t
    <2>3. n \in Nat  BY <2>2, HeadRunType
    <2> HIDE DEF n
    <2>4. Kept(a, ReleaseN(a, n)) /\ Released(a, n) \in Seq(Sn)
      BY <2>2, <2>3, ReleaseKept, ReleasedType
    <2> QED BY <2>1, <2>2, <2>4, <1>1, <1>2, <1>5 DEF Kept
  <1>6. CASE ~t0.stopped /\ ~old /\ sn # t0.head
    <2> DEFINE a == ReleaseN(t, RoomSteps(t, sn))
               out == Released(t, RoomSteps(t, sn))
               b == [a EXCEPT !.buf[sn % Size] = [sn |-> sn, age |-> 0], !.nframes = @ + 1]
    <2>1. Reorder(t0, sn) = IF a.buf[sn % Size] # Empty THEN Drop(a, out)
            ELSE [tid |-> ReleaseHead(b), out |-> out \o Released(b, HeadRun(b)),
                  drop |-> FALSE, queue |-> TRUE]
      BY <1>6 DEF Reorder, Buffer
    <2> HIDE DEF t
    <2>2. Kept(t, a) /\ out \in Seq(Sn)  BY <1>1, RoomType, ReleaseKept, ReleasedType
    <2>3. sn % Size \in Slots  BY ModRange, Positive DEF Sn, Slots
    <2> HIDE DEF a, out
    <2>4. CASE a.buf[sn % Size] # Empty
      BY <2>1, <2>2, <2>4, <1>1, <1>6 DEF Drop, Kept
    <2>5. CASE a.buf[sn % Size] = Empty
      <3> DEFINE f == [sn |-> sn, age |-> 0]
      <3>1. f \in Frames /\ f # Empty  BY TimeoAssumption, Positive DEF Frames
      <3> HIDE DEF f
      <3>2. /\ b \in Sessions /\ b.stopped = a.stopped /\ b.nframes = a.nframes + 1
            /\ b.buf = [a.buf EXCEPT ![sn % Size] = f]
        <4> DEFINE nb == [a.buf EXCEPT ![sn % Size] = f]
        <4>1. b = [a EXCEPT !.buf = nb, !.nframes = a.nframes + 1]
          BY <2>2 DEF Kept, Sessions, f
        <4>2. a \in Sessions /\ nb \in [Slots -> Frames \cup {Empty}]
          BY <2>2, <2>3, <3>1 DEF Kept, Sessions
        <4>3. a.nframes + 1 \in Int  BY <4>2 DEF Sessions
        <4>4. nb = [a.buf EXCEPT ![sn % Size] = f]  OBVIOUS
        <4> HIDE DEF b, nb
        <4>5. b \in Sessions  BY <4>1, <4>2, <4>3 DEF Sessions
        <4>6. b.stopped = a.stopped /\ b.nframes = a.nframes + 1 /\ b.buf = nb
          BY <4>1, <4>2 DEF Sessions
        <4> QED BY <4>4, <4>5, <4>6
      <3> HIDE DEF b
      <3>3. Used(b) = Used(a) \cup {sn % Size} /\ sn % Size \notin Used(a)
        BY <2>2, <2>3, <2>5, <3>1, <3>2 DEF Used, Kept, Sessions
      <3>4. Counted(b)
        <4>1. a.nframes = Cardinality(Used(a))  BY <2>2 DEF Kept, Counted
        <4>2. IsFiniteSet(Used(a))  BY UsedFinite
        <4>3. Cardinality(Used(a) \cup {sn % Size}) = Cardinality(Used(a)) + 1
          BY <3>3, <4>2, FS_AddElement
        <4>4. b.nframes = Cardinality(Used(b))
          <5>1. b.nframes = Cardinality(Used(a)) + 1  BY <3>2, <4>1
          <5> QED BY <5>1, <4>3, <3>3
        <4> QED BY <4>4 DEF Counted
      <3>5. Kept(b, ReleaseHead(b)) /\ Released(b, HeadRun(b)) \in Seq(Sn)
        BY <3>2, <3>4, HeadRunType, ReleaseKept, ReleasedType DEF ReleaseHead
      <3> QED BY <2>1, <2>2, <2>5, <3>2, <3>5, <1>1, <1>6 DEF Kept
    <2> QED BY <2>4, <2>5
  <1> QED BY <1>3, <1>4, <1>5, <1>6

-----------------------------------------------------------------------------
(* The window: distances in the number space, and the frames a section     *)
(* leaves in the buffer.                                                   *)

LEMMA DistIs ==
  ASSUME NEW a \in Sn, NEW h \in Sn
  PROVE  Dist(a, h) = IF a >= h THEN a - h ELSE a - h + SN
  <1>1. SN \in Nat \ {0} /\ a \in 0 .. SN - 1 /\ h \in 0 .. SN - 1  BY Positive DEF Sn
  <1>2. CASE a >= h  BY <1>1, <1>2 DEF Dist
  <1>3. CASE ~(a >= h)
    <2>1. a - h + SN \in 0 .. SN - 1  BY <1>1, <1>3
    <2>2. a - h = (a - h + SN) - SN  BY <1>1
    <2>3. \A r \in 0 .. SN - 1 : (r - SN) % SN = r  BY <1>1
    <2> QED BY <1>3, <2>1, <2>2, <2>3 DEF Dist
  <1> QED BY <1>2, <1>3

LEMMA ModIs ==
  ASSUME NEW x \in 0 .. 2 * SN - 1
  PROVE  x % SN = IF x < SN THEN x ELSE x - SN
  <1>1. SN \in Nat \ {0}  BY Positive
  <1>2. CASE x < SN  BY <1>1, <1>2
  <1>3. CASE ~(x < SN)
    <2>1. x - SN \in 0 .. SN - 1 /\ x = (x - SN) + SN  BY <1>1, <1>3
    <2>2. \A r \in 0 .. SN - 1 : (r + SN) % SN = r  BY <1>1
    <2> QED BY <1>3, <2>1, <2>2
  <1> QED BY <1>2, <1>3

LEMMA DistTo ==
  ASSUME NEW a \in Sn, NEW h \in Sn
  PROVE  Dist(a, h) \in 0 .. SN - 1 /\ (h + Dist(a, h)) % SN = a
  <1>1. SN \in Nat \ {0} /\ a \in 0 .. SN - 1 /\ h \in 0 .. SN - 1  BY Positive DEF Sn
  <1>2. Dist(a, h) \in 0 .. SN - 1 /\ h + Dist(a, h) \in {a, a + SN}
    BY <1>1, DistIs
  <1> QED BY <1>1, <1>2, ModIs

LEMMA DistFrom ==
  ASSUME NEW a \in Sn, NEW h \in Sn, NEW n \in Nat, n <= Dist(a, h)
  PROVE  (h + n) % SN \in Sn /\ Dist(a, (h + n) % SN) = Dist(a, h) - n
  <1>1. SN \in Nat \ {0} /\ a \in 0 .. SN - 1 /\ h \in 0 .. SN - 1  BY Positive DEF Sn
  <1>2. Dist(a, h) \in 0 .. SN - 1  BY DistTo
  <1> DEFINE g == (h + n) % SN
  <1>3. h + n \in 0 .. 2 * SN - 1  BY <1>1, <1>2
  <1>4. g = IF h + n < SN THEN h + n ELSE (h + n) - SN
    <2> DEFINE x == h + n
    <2>1. x \in 0 .. 2 * SN - 1  BY <1>3
    <2> HIDE DEF x
    <2>2. x % SN = IF x < SN THEN x ELSE x - SN  BY <2>1, ModIs
    <2> QED BY <2>2 DEF x
  <1>5. g \in Sn  BY <1>1, <1>3, <1>4 DEF Sn
  <1> HIDE DEF g
  <1>6. Dist(a, g) = IF a >= g THEN a - g ELSE a - g + SN  BY <1>5, DistIs
  <1>7. Dist(a, h) = IF a >= h THEN a - h ELSE a - h + SN  BY DistIs
  <1>8. Dist(a, g) = Dist(a, h) - n  BY <1>1, <1>2, <1>3, <1>4, <1>6, <1>7
  <1> QED BY <1>5, <1>8 DEF g

(* Each frame in the slot its number selects, less than a window ahead;    *)
(* and none at the head itself.                                            *)
Near(t) == \A i \in Used(t) :
    t.buf[i].sn % Size = i /\ Dist(t.buf[i].sn, t.head) \in 0 .. Size - 1
Ahead(t) == \A i \in Used(t) :
    t.buf[i].sn % Size = i /\ Dist(t.buf[i].sn, t.head) \in 1 .. Size - 1

(* A frame that n release steps leave behind is at least n ahead.          *)
LEMMA LeftBehind ==
  ASSUME NEW t \in Sessions, Near(t), NEW n \in Nat, NEW i \in Used(ReleaseN(t, n))
  PROVE  LET r == ReleaseN(t, n)
         IN  /\ i \in Used(t) /\ r.buf[i] = t.buf[i] /\ t.buf[i].sn \in Sn
             /\ \A k \in 0 .. n - 1 : Slot(t, k) # i
             /\ n <= Dist(t.buf[i].sn, t.head)
             /\ Dist(r.buf[i].sn, r.head) = Dist(t.buf[i].sn, t.head) - n
             /\ Slot(t, Dist(t.buf[i].sn, t.head)) = i
  <1> DEFINE freed == {Slot(t, k) : k \in 0 .. n - 1}
             r == ReleaseN(t, n)
  <1>1. /\ r.head = (t.head + n) % SN
        /\ r.buf = [j \in Slots |-> IF j \in freed THEN Empty ELSE t.buf[j]]
    <2> HIDE DEF freed
    <2>1. r = [t EXCEPT !.head = (t.head + n) % SN,
                        !.buf = [j \in Slots |-> IF j \in freed THEN Empty ELSE t.buf[j]],
                        !.nframes = t.nframes - Cardinality(freed \cap Used(t))]
      BY DEF ReleaseN, freed
    <2> HIDE DEF r
    <2> QED BY <2>1 DEF Sessions
  <1>2. i \in Slots /\ r.buf[i] # Empty  BY DEF Used
  <1> HIDE DEF r
  <1>3. i \notin freed /\ r.buf[i] = t.buf[i] /\ i \in Used(t)
    <2> HIDE DEF freed
    <2> QED BY <1>1, <1>2 DEF Used
  <1> DEFINE f == t.buf[i]
             d == Dist(f.sn, t.head)
  <1>4. f.sn \in Sn /\ t.head \in Sn
    BY <1>2, <1>3 DEF Used, Sessions, Frames
  <1>5. f.sn % Size = i  BY <1>3 DEF Near
  <1>6. d \in 0 .. SN - 1 /\ (t.head + d) % SN = f.sn  BY <1>4, DistTo
  <1>7. Slot(t, d) = i  BY <1>5, <1>6 DEF Slot
  <1> HIDE DEF f, d
  <1>8. n <= d
    <2> SUFFICES ASSUME ~(n <= d) PROVE FALSE  OBVIOUS
    <2>1. d \in 0 .. n - 1  BY <1>6
    <2> QED BY <2>1, <1>3, <1>7
  <1>9. Dist(f.sn, r.head) = d - n
    BY <1>1, <1>4, <1>8, DistFrom DEF d
  <1>10. \A k \in 0 .. n - 1 : Slot(t, k) # i  BY <1>3
  <1> HIDE DEF freed
  <1> QED BY <1>3, <1>4, <1>7, <1>8, <1>9, <1>10 DEF f, d, r

LEMMA ReleaseNear ==
  ASSUME NEW t \in Sessions, Near(t), NEW n \in Nat
  PROVE  Near(ReleaseN(t, n))
  <1> DEFINE r == ReleaseN(t, n)
  <1> SUFFICES ASSUME NEW i \in Used(r)
               PROVE  r.buf[i].sn % Size = i /\ Dist(r.buf[i].sn, r.head) \in 0 .. Size - 1
    BY DEF Near
  <1>1. /\ i \in Used(t) /\ r.buf[i] = t.buf[i]
        /\ n <= Dist(t.buf[i].sn, t.head)
        /\ Dist(r.buf[i].sn, r.head) = Dist(t.buf[i].sn, t.head) - n
    BY LeftBehind
  <1>2. t.buf[i].sn % Size = i /\ Dist(t.buf[i].sn, t.head) \in 0 .. Size - 1
    BY <1>1 DEF Near
  <1>3. Dist(t.buf[i].sn, t.head) - n \in 0 .. Size - 1
    BY <1>1, <1>2, Positive
  <1> HIDE DEF r
  <1> QED BY <1>1, <1>2, <1>3

(* mt76_rx_aggr_release_head leaves no frame at the head.                  *)
LEMMA HeadAhead ==
  ASSUME NEW t \in Sessions, Near(t)
  PROVE  Ahead(ReleaseHead(t))
  <1> DEFINE n == HeadRun(t)
             r == ReleaseN(t, n)
  <1>1. n \in Nat /\ Gap(t, n)  BY HeadRunType
  <1> HIDE DEF n
  <1> SUFFICES ASSUME NEW i \in Used(r)
               PROVE  r.buf[i].sn % Size = i /\ Dist(r.buf[i].sn, r.head) \in 1 .. Size - 1
    BY DEF Ahead, ReleaseHead, n
  <1> DEFINE d == Dist(t.buf[i].sn, t.head)
  <1>2. /\ i \in Used(t) /\ r.buf[i] = t.buf[i] /\ n <= d
        /\ Dist(r.buf[i].sn, r.head) = d - n /\ Slot(t, d) = i
        /\ \A k \in 0 .. n - 1 : Slot(t, k) # i
    BY <1>1, LeftBehind
  <1>3. t.buf[i].sn % Size = i /\ d \in 0 .. Size - 1
    BY <1>2 DEF Near
  <1>4. t.buf[i] # Empty  BY <1>2 DEF Used
  <1> HIDE DEF r, d
  <1>5. d # n
    BY <1>1, <1>2, <1>4 DEF Gap, Revisit
  <1>6. d - n \in 1 .. Size - 1  BY <1>1, <1>2, <1>3, <1>5, Positive
  <1> QED BY <1>2, <1>3, <1>6

LEMMA AheadNear ==
  ASSUME NEW t, Ahead(t)
  PROVE  Near(t)
  <1>1. \A d \in 1 .. Size - 1 : d \in 0 .. Size - 1  OBVIOUS
  <1> QED BY <1>1 DEF Ahead, Near

LEMMA AdvanceAhead ==
  ASSUME NEW t \in Sessions, Counted(t), Near(t), NEW h \in Sn
  PROVE  Ahead(Advance(t, h).tid)
  <1> DEFINE a == ReleaseFrames(t, h)
  <1>1. a \in Sessions /\ Near(a)
    BY StepsType, ReleaseKept, ReleaseNear DEF ReleaseFrames, Kept
  <1>2. Advance(t, h).tid = ReleaseHead(a)  BY DEF Advance
  <1> HIDE DEF a
  <1> QED BY <1>1, <1>2, HeadAhead

LEMMA CheckReleaseAhead ==
  ASSUME NEW t \in Sessions, Counted(t), Ahead(t)
  PROVE  Ahead(CheckRelease(t).tid)
  <1> DEFINE a == ReleaseHead(t)
             exp == {i \in Used(a) : Expired(a.buf[i])}
             last == CHOOSE i \in exp : \A j \in exp :
                        Dist(a.buf[j].sn, a.head) <= Dist(a.buf[i].sn, a.head)
  <1>1. a \in Sessions /\ Counted(a) /\ Ahead(a)
    BY HeadRunType, ReleaseKept, AheadNear, HeadAhead DEF ReleaseHead, Kept
  <1>2. CheckRelease(t).tid = IF t.nframes = 0 THEN t
                              ELSE IF exp = {} THEN a ELSE Advance(a, a.buf[last].sn).tid
    BY DEF CheckRelease
  <1> HIDE DEF a
  <1>3. ASSUME exp # {} PROVE a.buf[last].sn \in Sn
    BY <1>1, <1>3, FurthestType
  <1> HIDE DEF exp, last
  <1>4. ASSUME exp # {} PROVE Ahead(Advance(a, a.buf[last].sn).tid)
    BY <1>1, <1>3, <1>4, AheadNear, AdvanceAhead
  <1> QED BY <1>1, <1>2, <1>4

(* Two numbers less than a window apart use different slots, also across   *)
(* the wrap when the window divides the number space.                      *)
LEMMA NoMultiple ==
  ASSUME NEW z \in Int, NEW e \in 1 .. Size - 1
  PROVE  e # Size * z
  <1>1. Size \in Nat \ {0}  BY Positive
  <1>2. CASE z <= 0
    <2>1. Size * z <= 0  BY <1>1, <1>2
    <2> QED BY <2>1
  <1>3. CASE z >= 1
    <2>1. Size * (z - 1) >= 0  BY <1>1, <1>3
    <2>2. Size * (z - 1) = Size * z - Size  BY <1>1
    <2>3. Size * z >= Size  BY <1>1, <2>1, <2>2
    <2> QED BY <1>1, <2>3
  <1> QED BY <1>2, <1>3

LEMMA DivMod ==
  ASSUME NEW x \in Int
  PROVE  x \div Size \in Int /\ x = Size * (x \div Size) + (x % Size)
  BY Positive

LEMMA SlotsApart ==
  ASSUME SN % Size = 0, NEW h \in Sn, NEW e \in 1 .. Size - 1
  PROVE  ((h + e) % SN) % Size # h % Size
  <1>1. /\ SN \in Nat \ {0} /\ Size \in Nat \ {0} /\ 2 * Size < SN
        /\ h \in 0 .. SN - 1
    BY Positive, SnAssumption DEF Sn
  <1> DEFINE y == (h + e) % SN
  <1>2. y = h + e \/ y = (h + e) - SN
    <2> DEFINE x == h + e
    <2>1. x \in 0 .. 2 * SN - 1  BY <1>1
    <2> HIDE DEF x
    <2>2. x % SN = IF x < SN THEN x ELSE x - SN  BY <2>1, ModIs
    <2> QED BY <2>2 DEF x
  <1> HIDE DEF y
  <1>3. y \in Int  BY <1>1, <1>2
  <1> SUFFICES ASSUME y % Size = h % Size PROVE FALSE  BY DEF y
  <1> DEFINE a == h \div Size
             b == y \div Size
             q == SN \div Size
             r == h % Size
  <1>4. a \in Int /\ h = Size * a + r  BY <1>1, DivMod
  <1>5. b \in Int /\ y = Size * b + r  BY <1>3, DivMod
  <1>6. q \in Int /\ SN = Size * q
    <2>1. q \in Int /\ SN = Size * q + (SN % Size)  BY <1>1, DivMod
    <2>2. Size * q \in Int  BY <1>1, <2>1
    <2> HIDE DEF q
    <2> QED BY <2>1, <2>2
  <1>7. r \in Int  BY <1>1, ModRange
  <1> HIDE DEF a, b, q, r
  <1>8. CASE y = h + e
    <2>1. e = Size * (b - a)  BY <1>1, <1>4, <1>5, <1>7, <1>8
    <2> QED BY <2>1, <1>4, <1>5, NoMultiple
  <1>9. CASE y = (h + e) - SN
    <2>1. e = Size * ((b - a) + q)  BY <1>1, <1>4, <1>5, <1>6, <1>7, <1>9
    <2> QED BY <2>1, <1>4, <1>5, <1>6, NoMultiple
  <1> QED BY <1>2, <1>8, <1>9

LEMMA SlotsDiffer ==
  ASSUME SN % Size = 0, NEW h \in Sn, NEW x \in Sn, NEW y \in Sn,
         Dist(x, h) \in 0 .. Size - 1, Dist(y, h) \in 0 .. Size - 1,
         x % Size = y % Size
  PROVE  x = y
  <1>1. ASSUME NEW u \in Sn, NEW v \in Sn, u % Size = v % Size,
               Dist(u, h) \in 0 .. Size - 1, Dist(v, h) \in 0 .. Size - 1,
               Dist(u, h) < Dist(v, h)
        PROVE  FALSE
    <2> DEFINE e == Dist(v, h) - Dist(u, h)
    <2>1. (h + Dist(u, h)) % SN = u  BY DistTo
    <2>2. Dist(u, h) \in Nat /\ Dist(u, h) <= Dist(v, h) /\ e \in 1 .. Size - 1
      <3>1. \A c, d \in 0 .. Size - 1 : c < d => c \in Nat /\ c <= d /\ d - c \in 1 .. Size - 1
        BY Positive
      <3> QED BY <1>1, <3>1
    <2>3. Dist(v, u) = e  BY <2>1, <2>2, DistFrom
    <2>4. (u + e) % SN = v  BY <2>3, DistTo
    <2> HIDE DEF e
    <2> QED BY <1>1, <2>2, <2>4, SlotsApart
  <1>2. Dist(x, h) = Dist(y, h)  BY <1>1
  <1>3. (h + Dist(x, h)) % SN = x /\ (h + Dist(y, h)) % SN = y  BY DistTo
  <1> QED BY <1>2, <1>3

(* How far ahead a frame that makes room for itself lands.                 *)
LEMMA RoomMakesRoom ==
  ASSUME Size >= 2, NEW h \in Sn, NEW sn \in Sn, ~SnLess(sn, h), sn # h
  PROVE  LET n == IF SnLess(sn, (h + Size) % SN) THEN 0
                  ELSE IF SnLess(h, SnInc(SnSub(sn, Size)))
                       THEN Dist(SnInc(SnSub(sn, Size)), h) ELSE 0
         IN  /\ n \in Nat /\ n <= Dist(sn, h) /\ Dist(sn, h) - n \in 1 .. Size - 1
             /\ Dist(sn, h) < Size => n = 0
  <1>1. /\ SN \in Nat \ {0} /\ Size \in Nat \ {0} /\ 2 * Size < SN
        /\ sn \in 0 .. SN - 1 /\ h \in 0 .. SN - 1
    BY Positive, SnAssumption DEF Sn
  <1> DEFINE d == Dist(sn, h)
             g == (h + Size) % SN
             s == SnSub(sn, Size)
             k == SnInc(s)
  <1>2. d = IF sn >= h THEN sn - h ELSE sn - h + SN  BY DistIs
  <1>3. d \in 1 .. SN - 1 /\ 2 * d <= SN
    BY <1>1, <1>2 DEF SnLess
  <1>4. g = IF h + Size < SN THEN h + Size ELSE (h + Size) - SN
    <2> DEFINE x == h + Size
    <2>1. x \in 0 .. 2 * SN - 1  BY <1>1
    <2> HIDE DEF x
    <2>2. x % SN = IF x < SN THEN x ELSE x - SN  BY <2>1, ModIs
    <2> QED BY <2>2 DEF x
  <1>5. g \in Sn  BY <1>1, <1>4 DEF Sn
  <1> HIDE DEF g, d
  <1>6. Dist(sn, g) = IF sn >= g THEN sn - g ELSE sn - g + SN  BY <1>5, DistIs
  <1>7. CASE d < Size
    <2>1. Dist(sn, g) = d - Size + SN
      BY <1>1, <1>2, <1>3, <1>4, <1>6, <1>7
    <2>2. SnLess(sn, g)  BY <1>1, <1>3, <1>7, <2>1 DEF SnLess
    <2> QED BY <1>1, <1>3, <1>7, <2>2 DEF d, g
  <1>8. CASE ~(d < Size)
    <2>1. Dist(sn, g) = d - Size
      BY <1>1, <1>2, <1>3, <1>4, <1>6, <1>8
    <2>2. ~SnLess(sn, g)  BY <1>1, <1>3, <1>8, <2>1 DEF SnLess
    <2>3. s = IF sn >= Size THEN sn - Size ELSE sn - Size + SN
      <3>1. Size \in Sn  BY <1>1 DEF Sn
      <3> QED BY <3>1, DistIs DEF SnSub, Dist
    <2>4. s \in 0 .. SN - 1  BY <1>1, <2>3
    <2>5. k = IF s + 1 < SN THEN s + 1 ELSE (s + 1) - SN
      <3> HIDE DEF s
      <3> DEFINE x == s + 1
      <3>1. x \in 0 .. 2 * SN - 1  BY <1>1, <2>4
      <3> HIDE DEF x
      <3>2. x % SN = IF x < SN THEN x ELSE x - SN  BY <3>1, ModIs
      <3> QED BY <3>2 DEF SnInc, x
    <2>6. k \in Sn  BY <1>1, <2>4, <2>5 DEF Sn
    <2> HIDE DEF s, k
    <2>7. Dist(k, h) = IF k >= h THEN k - h ELSE k - h + SN  BY <2>6, DistIs
    <2>8. Dist(h, k) = IF h >= k THEN h - k ELSE h - k + SN  BY <2>6, DistIs
    <2>9. Dist(k, h) = d - Size + 1
      BY <1>1, <1>2, <1>3, <1>8, <2>3, <2>5, <2>7
    <2>10. Dist(h, k) = SN - (d - Size + 1)
      BY <1>1, <1>2, <1>3, <1>8, <2>3, <2>5, <2>8
    <2>11. SnLess(h, k)  BY <1>1, <1>3, <1>8, <2>10 DEF SnLess
    <2>12. /\ Dist(k, h) \in Nat /\ Dist(k, h) <= d
           /\ d - Dist(k, h) \in 1 .. Size - 1
      BY <1>1, <1>3, <1>8, <2>9
    <2>13. ~(d < Size)  BY <1>8
    <2> QED BY <2>2, <2>11, <2>12, <2>13 DEF d, g, s, k
  <1> QED BY <1>7, <1>8

(* mt76_rx_aggr_reorder buffers a frame: where the steps that make room    *)
(* for it leave the session, and that a taken slot holds the same number.  *)
LEMMA BufferRoom ==
  ASSUME Size >= 2, SN % Size = 0, NEW t \in Sessions, Counted(t), Ahead(t),
         NEW sn \in Sn, ~SnLess(sn, t.head), sn # t.head
  PROVE  LET n == RoomSteps(t, sn)
             a == ReleaseN(t, n)
             j == sn % Size
         IN  /\ n \in Nat /\ n <= Dist(sn, t.head) /\ j \in Slots
             /\ Dist(sn, t.head) < Size => n = 0
             /\ a \in Sessions /\ Counted(a) /\ Near(a)
             /\ a.head = (t.head + n) % SN
             /\ Dist(sn, a.head) \in 1 .. Size - 1
             /\ a.buf[j] # Empty =>
                  j \in Used(t) /\ t.buf[j].sn = sn /\ Dist(sn, t.head) < Size
  <1> DEFINE n == RoomSteps(t, sn)
             a == ReleaseN(t, n)
             j == sn % Size
  <1>1. /\ t.head \in Sn /\ n \in Nat
        /\ n <= Dist(sn, t.head) /\ Dist(sn, t.head) - n \in 1 .. Size - 1
        /\ Dist(sn, t.head) < Size => n = 0
    <2>1. t.head \in Sn  BY DEF Sessions
    <2>2. n = IF SnLess(sn, (t.head + Size) % SN) THEN 0
              ELSE IF SnLess(t.head, SnInc(SnSub(sn, Size)))
                   THEN Dist(SnInc(SnSub(sn, Size)), t.head) ELSE 0
      BY DEF RoomSteps, StepsTo
    <2> HIDE DEF n
    <2> QED BY <2>1, <2>2, RoomMakesRoom
  <1> HIDE DEF n
  <1>2. Near(t)  BY AheadNear
  <1>3. a \in Sessions /\ Counted(a) /\ Near(a)
    BY <1>1, <1>2, ReleaseNKeeps, ReleaseNear
  <1>4. a.head = (t.head + n) % SN  BY <1>1, HeadMoved
  <1>5. Dist(sn, a.head) \in 1 .. Size - 1  BY <1>1, <1>4, DistFrom
  <1>6. j \in Slots  BY ModRange, Positive DEF Sn, Slots
  <1>7. ASSUME a.buf[j] # Empty
        PROVE  j \in Used(t) /\ t.buf[j].sn = sn /\ Dist(sn, t.head) < Size
    <2>1. j \in Used(a)  BY <1>6, <1>7 DEF Used
    <2>2. /\ j \in Used(t) /\ a.buf[j] = t.buf[j] /\ a.buf[j].sn \in Sn
          /\ a.buf[j].sn % Size = j /\ Dist(a.buf[j].sn, a.head) \in 0 .. Size - 1
      BY <2>1, <1>1, <1>2, <1>3, LeftBehind DEF Near
    <2>3. a.head \in Sn /\ Dist(sn, a.head) \in 0 .. Size - 1
      BY <1>3, <1>5, Positive DEF Sessions
    <2> HIDE DEF a
    <2>4. a.buf[j].sn = sn  BY <2>2, <2>3, SlotsDiffer
    <2>5. Dist(t.buf[j].sn, t.head) \in 1 .. Size - 1  BY <2>2 DEF Ahead
    <2> QED BY <2>2, <2>4, <2>5, Positive
  <1> QED BY <1>1, <1>3, <1>4, <1>5, <1>6, <1>7 DEF n

(* The session with that frame in its slot.                                *)
LEMMA BufferPut ==
  ASSUME NEW a \in Sessions, Near(a), NEW sn \in Sn, sn % Size \in Slots,
         Dist(sn, a.head) \in 1 .. Size - 1
  PROVE  LET b == [a EXCEPT !.buf[sn % Size] = [sn |-> sn, age |-> 0],
                            !.nframes = @ + 1]
         IN  /\ b \in Sessions /\ b.head = a.head /\ Near(b)
             /\ b.buf[sn % Size].sn = sn /\ b.buf[sn % Size] # Empty
             /\ \A i \in Slots : i # sn % Size => b.buf[i] = a.buf[i]
  <1> DEFINE f == [sn |-> sn, age |-> 0]
             j == sn % Size
             nb == [a.buf EXCEPT ![j] = f]
             b == [a EXCEPT !.buf[j] = f, !.nframes = @ + 1]
  <1>1. f \in Frames /\ f # Empty /\ f.sn = sn
    BY TimeoAssumption, Positive DEF Frames
  <1> HIDE DEF f
  <1>2. nb \in [Slots -> Frames \cup {Empty}]  BY <1>1 DEF Sessions
  <1>3. nb[j] = f /\ \A i \in Slots : i # j => nb[i] = a.buf[i]
    BY DEF Sessions
  <1>4. b = [a EXCEPT !.buf = nb, !.nframes = a.nframes + 1]
    BY DEF Sessions
  <1>5. a.nframes + 1 \in Int  BY DEF Sessions
  <1> HIDE DEF nb, b
  <1>6. b \in Sessions /\ b.buf = nb /\ b.head = a.head
    BY <1>2, <1>4, <1>5 DEF Sessions
  <1>7. Near(b)
    <2> SUFFICES ASSUME NEW i \in Used(b)
                 PROVE  nb[i].sn % Size = i /\ Dist(nb[i].sn, a.head) \in 0 .. Size - 1
      BY <1>6 DEF Near
    <2>1. CASE i = j
      <3>1. nb[i].sn = sn  BY <2>1, <1>1, <1>3
      <3> QED BY <3>1, <2>1, Positive
    <2>2. CASE i # j
      <3>1. nb[i] = a.buf[i] /\ i \in Used(a)  BY <2>2, <1>3, <1>6 DEF Used
      <3> QED BY <3>1 DEF Near
    <2> QED BY <2>1, <2>2
  <1> QED BY <1>1, <1>3, <1>6, <1>7 DEF b, f

(* mt76_rx_aggr_reorder marks the session started, and for the frame at    *)
(* the head steps over its number.                                         *)
LEMMA Started ==
  ASSUME NEW t0 \in Sessions, Counted(t0), Ahead(t0)
  PROVE  LET t == [t0 EXCEPT !.started = TRUE]
         IN  /\ t \in Sessions /\ t.head = t0.head /\ t.buf = t0.buf
             /\ t.nframes = t0.nframes /\ t.stopped = t0.stopped
             /\ Used(t) = Used(t0) /\ Counted(t) /\ Ahead(t) /\ Near(t)
  <1> DEFINE t == [t0 EXCEPT !.started = TRUE]
  <1>1. /\ t \in Sessions /\ t.head = t0.head /\ t.buf = t0.buf
        /\ t.nframes = t0.nframes /\ t.stopped = t0.stopped
    BY DEF Sessions
  <1> HIDE DEF t
  <1>2. Used(t) = Used(t0)  BY <1>1 DEF Used
  <1>3. Counted(t) /\ Ahead(t)  BY <1>1, <1>2 DEF Counted, Ahead
  <1> QED BY <1>1, <1>2, <1>3, AheadNear DEF t

LEMMA StepOver ==
  ASSUME NEW t \in Sessions, Counted(t), Ahead(t)
  PROVE  LET a == [t EXCEPT !.head = SnInc(@)]
         IN  /\ a \in Sessions /\ a.head = (t.head + 1) % SN
             /\ Used(a) = Used(t) /\ Counted(a) /\ Near(a)
  <1> DEFINE a == [t EXCEPT !.head = SnInc(@)]
  <1>1. t.head \in Sn /\ SnInc(t.head) \in Sn
    <2>1. t.head \in Sn  BY DEF Sessions
    <2>2. t.head + 1 \in Int  BY <2>1, Positive DEF Sn
    <2>3. SnInc(t.head) \in Sn  BY <2>2, ModRange, Positive DEF SnInc, Sn
    <2> QED BY <2>1, <2>3
  <1>2. /\ a \in Sessions /\ a.head = SnInc(t.head) /\ a.buf = t.buf
        /\ a.nframes = t.nframes
    BY <1>1 DEF Sessions
  <1> HIDE DEF a
  <1>3. Used(a) = Used(t)  BY <1>2 DEF Used
  <1>4. ASSUME NEW i \in Used(t)
        PROVE  t.buf[i].sn % Size = i /\ Dist(t.buf[i].sn, a.head) \in 0 .. Size - 1
    <2>1. t.buf[i].sn % Size = i /\ Dist(t.buf[i].sn, t.head) \in 1 .. Size - 1
      BY DEF Ahead
    <2>2. t.buf[i].sn \in Sn  BY DEF Used, Sessions, Frames
    <2>3. Dist(t.buf[i].sn, (t.head + 1) % SN) = Dist(t.buf[i].sn, t.head) - 1
      BY <2>1, <2>2, <1>1, DistFrom, Positive
    <2> QED BY <2>1, <2>3, <1>2, Positive DEF SnInc
  <1>5. Near(a) /\ Counted(a)  BY <1>2, <1>3, <1>4 DEF Near, Counted
  <1> QED BY <1>2, <1>3, <1>5 DEF a, SnInc

(* mt76_rx_aggr_reorder puts a frame inside the window, and the head moves *)
(* past every frame it releases.                                           *)
LEMMA ReorderAhead ==
  ASSUME Size >= 2, SN % Size = 0, NEW t0 \in Sessions, Counted(t0), Ahead(t0), NEW sn \in Sn
  PROVE  Ahead(Reorder(t0, sn).tid)
  <1> DEFINE old == SnLess(sn, t0.head)
             t == [t0 EXCEPT !.started = TRUE]
             r == Reorder(t0, sn)
  <1>1. /\ t \in Sessions /\ t.head = t0.head /\ t.nframes = t0.nframes
        /\ Counted(t) /\ Ahead(t) /\ Near(t)
    BY Started
  <1>2. CASE t0.stopped \/ (~t0.started /\ old)
    BY <1>2 DEF Reorder, Pass
  <1>3. CASE ~t0.stopped /\ ~(~t0.started /\ old) /\ old
    <2>1. r.tid = t  BY <1>3 DEF Reorder, Drop
    <2> HIDE DEF t, r
    <2> QED BY <2>1, <1>1 DEF r
  <1>4. CASE ~t0.stopped /\ ~old /\ sn = t0.head
    <2> DEFINE a == [t EXCEPT !.head = SnInc(@)]
    <2>1. r.tid = ReleaseN(a, IF t.nframes = 0 THEN 0 ELSE HeadRun(a))
      BY <1>1, <1>4 DEF Reorder, AtHead
    <2> HIDE DEF t, r
    <2>2. a \in Sessions /\ Used(a) = Used(t) /\ Counted(a) /\ Near(a)
      BY <1>1, StepOver
    <2> HIDE DEF a
    <2>3. CASE t.nframes = 0
      <3>1. Used(a) = {}
        <4>1. Cardinality(Used(a)) = 0  BY <1>1, <2>2, <2>3 DEF Counted
        <4> QED BY <4>1, UsedFinite, FS_EmptySet
      <3>2. Used(ReleaseN(a, 0)) = {}  BY <3>1, <2>2, ReleaseNKeeps
      <3> QED BY <3>2, <2>1, <2>3 DEF Ahead, r
    <2>4. CASE t.nframes # 0
      BY <2>1, <2>2, <2>4, HeadAhead DEF ReleaseHead, r
    <2> QED BY <2>3, <2>4
  <1>5. CASE ~t0.stopped /\ ~old /\ sn # t0.head
    <2> DEFINE n == RoomSteps(t, sn)
               a == ReleaseN(t, n)
               j == sn % Size
               b == [a EXCEPT !.buf[j] = [sn |-> sn, age |-> 0], !.nframes = @ + 1]
    <2>1. r.tid = IF a.buf[j] # Empty THEN a ELSE ReleaseHead(b)
      BY <1>1, <1>5 DEF Reorder, Buffer, Drop
    <2> HIDE DEF t, r
    <2>2. ~SnLess(sn, t.head) /\ sn # t.head  BY <1>1, <1>5
    <2>3. /\ n \in Nat /\ j \in Slots /\ a \in Sessions /\ Near(a)
          /\ Dist(sn, t.head) < Size => n = 0
          /\ Dist(sn, a.head) \in 1 .. Size - 1
          /\ a.buf[j] # Empty => Dist(sn, t.head) < Size
      BY <1>1, <2>2, BufferRoom
    <2> HIDE DEF n
    <2>4. CASE a.buf[j] # Empty
      <3>1. n = 0  BY <2>3, <2>4
      <3> SUFFICES ASSUME NEW i \in Used(a)
                   PROVE  /\ a.buf[i].sn % Size = i
                          /\ Dist(a.buf[i].sn, a.head) \in 1 .. Size - 1
        BY <2>1, <2>4 DEF Ahead, r
      <3>2. i \in Used(t) /\ a.buf[i] = t.buf[i]
            /\ Dist(a.buf[i].sn, a.head) = Dist(t.buf[i].sn, t.head) - n
        BY <1>1, <2>3, LeftBehind
      <3>3. t.buf[i].sn % Size = i /\ Dist(t.buf[i].sn, t.head) \in 1 .. Size - 1
        BY <3>2, <1>1 DEF Ahead
      <3>4. Dist(a.buf[i].sn, a.head) \in 1 .. Size - 1
        BY <3>1, <3>2, <3>3
      <3> QED BY <3>2, <3>3, <3>4
    <2>5. CASE a.buf[j] = Empty
      <3>1. b \in Sessions /\ Near(b)
        <4> HIDE DEF a
        <4> QED BY <2>3, BufferPut
      <3> HIDE DEF b
      <3> QED BY <3>1, <2>1, <2>5, HeadAhead DEF r
    <2> QED BY <2>4, <2>5
  <1> QED BY <1>2, <1>3, <1>4, <1>5

-----------------------------------------------------------------------------
(* The lists: what a section hands up, in which order, and how far the     *)
(* head moves.                                                             *)

(* The number k steps above the head is k ahead of it.                     *)
LEMMA DistUp ==
  ASSUME NEW h \in Sn, NEW k \in 0 .. SN - 1
  PROVE  (h + k) % SN \in Sn /\ Dist((h + k) % SN, h) = k
  <1>1. SN \in Nat \ {0} /\ h \in 0 .. SN - 1 /\ k \in 0 .. SN - 1
    BY Positive DEF Sn
  <1> DEFINE g == (h + k) % SN
  <1>2. g = IF h + k < SN THEN h + k ELSE (h + k) - SN
    <2> DEFINE x == h + k
    <2>1. x \in 0 .. 2 * SN - 1  BY <1>1
    <2> HIDE DEF x
    <2>2. x % SN = IF x < SN THEN x ELSE x - SN  BY <2>1, ModIs
    <2> QED BY <2>2 DEF x
  <1>3. g \in Sn  BY <1>1, <1>2 DEF Sn
  <1> HIDE DEF g
  <1>4. Dist(g, h) = IF g >= h THEN g - h ELSE g - h + SN  BY <1>3, DistIs
  <1>5. Dist(g, h) = k  BY <1>1, <1>2, <1>4
  <1> QED BY <1>3, <1>5 DEF g

(* A head m steps on: m less to go, as long as the numbers do not come     *)
(* round.                                                                  *)
LEMMA DistBack ==
  ASSUME NEW h \in Sn, NEW m \in Nat, NEW a \in Sn,
         m + Dist(a, (h + m) % SN) < SN
  PROVE  Dist(a, h) = m + Dist(a, (h + m) % SN)
  <1>1. SN \in Nat \ {0} /\ h \in 0 .. SN - 1 /\ a \in 0 .. SN - 1
    BY Positive DEF Sn
  <1> DEFINE g == (h + m) % SN
             e == Dist(a, g)
  <1>2. g \in Sn
    <2>1. h + m \in Int  BY <1>1
    <2> QED BY <2>1, <1>1, ModRange DEF Sn
  <1>3. e \in 0 .. SN - 1 /\ m + e < SN  BY <1>2, DistTo
  <1>4. m \in 0 .. SN - 1  BY <1>1, <1>3
  <1>5. Dist(g, h) = m  BY <1>4, DistUp
  <1> HIDE DEF g
  <1>6. e = IF a >= g THEN a - g ELSE a - g + SN  BY <1>2, DistIs
  <1>7. m = IF g >= h THEN g - h ELSE g - h + SN  BY <1>2, <1>5, DistIs
  <1>8. Dist(a, h) = IF a >= h THEN a - h ELSE a - h + SN  BY DistIs
  <1>9. g \in 0 .. SN - 1  BY <1>2 DEF Sn
  <1> HIDE DEF e
  <1>10. Dist(a, h) = m + e  BY <1>1, <1>3, <1>4, <1>6, <1>7, <1>8, <1>9
  <1> QED BY <1>10 DEF e, g

(* A release step hands up the frame numbered like the head it finds.      *)
LEMMA GotNear ==
  ASSUME SN % Size = 0, NEW t \in Sessions, Near(t), NEW n \in Nat, NEW k \in Got(t, n)
  PROVE  LET i == Slot(t, k)
         IN  /\ k \in 0 .. n - 1 /\ i \in Used(t) /\ t.buf[i].sn \in Sn
             /\ Dist(t.buf[i].sn, t.head) = k /\ k \in 0 .. Size - 1
  <1> DEFINE i == Slot(t, k)
             f == t.buf[i]
             d == Dist(f.sn, t.head)
             x == (t.head + k) % SN
  <1>1. k \in 0 .. n - 1 /\ k \in Nat /\ f # Empty /\ ~Revisit(t, k)
    BY DEF Got
  <1>2. i \in Slots  BY <1>1, SlotType
  <1>3. i \in Used(t) /\ f.sn \in Sn /\ t.head \in Sn
    BY <1>1, <1>2 DEF Used, Sessions, Frames
  <1>4. f.sn % Size = i /\ d \in 0 .. Size - 1  BY <1>3 DEF Near
  <1>5. Slot(t, d) = i  BY <1>3, <1>4, DistTo DEF Slot
  <1>6. x % Size = i  BY DEF Slot
  <1>7. Size \in Nat \ {0} /\ 2 * Size < SN /\ SN \in Nat  BY Positive, SnAssumption
  <1> HIDE DEF d, f, i
  <1>8. k <= d
    <2> SUFFICES ASSUME ~(k <= d) PROVE FALSE  OBVIOUS
    <2>1. d \in 0 .. k - 1  BY <1>1, <1>4, <1>7
    <2>2. Slot(t, d) = Slot(t, k)  BY <1>5 DEF i
    <2> QED BY <2>1, <2>2, <1>1 DEF Revisit
  <1>9. k \in 0 .. Size - 1 /\ k \in 0 .. SN - 1  BY <1>1, <1>4, <1>7, <1>8
  <1>10. x \in Sn /\ Dist(x, t.head) = k  BY <1>3, <1>9, DistUp
  <1> HIDE DEF x
  <1>11. x = f.sn
    <2>1. Dist(x, t.head) \in 0 .. Size - 1 /\ Dist(f.sn, t.head) \in 0 .. Size - 1
      BY <1>4, <1>9, <1>10 DEF d
    <2>2. x % Size = f.sn % Size  BY <1>4, <1>6
    <2> QED BY <2>1, <2>2, <1>3, <1>10, SlotsDiffer
  <1> QED BY <1>1, <1>3, <1>9, <1>10, <1>11 DEF f, i

(* A list of numbers between lo and hi ahead of h, in rising order.        *)
Sorted(R, h, lo, hi) ==
    /\ R \in Seq(Sn)
    /\ \A i \in 1 .. Len(R) : lo <= Dist(R[i], h) /\ Dist(R[i], h) < hi
    /\ \A i, j \in 1 .. Len(R) : i < j => Dist(R[i], h) < Dist(R[j], h)

LEMMA ReleasedSorted ==
  ASSUME SN % Size = 0, NEW t \in Sessions, Near(t), NEW n \in Nat
  PROVE  Sorted(Released(t, n), t.head, 0, n)
  <1>1. PICK N \in Nat : \E nth \in [1 .. N -> Got(t, n)] :
            /\ Released(t, n) = [i \in 1 .. N |-> t.buf[Slot(t, nth[i])].sn]
            /\ \A i, j \in 1 .. N : i < j => nth[i] < nth[j]
            /\ \A k \in Got(t, n) : \E i \in 1 .. N : nth[i] = k
    BY ReleasedIs
  <1>2. PICK nth \in [1 .. N -> Got(t, n)] :
            /\ Released(t, n) = [i \in 1 .. N |-> t.buf[Slot(t, nth[i])].sn]
            /\ \A i, j \in 1 .. N : i < j => nth[i] < nth[j]
    BY <1>1
  <1> DEFINE R == Released(t, n)
  <1>3. R \in Seq(Sn) /\ Len(R) = N  BY <1>2, ReleasedType
  <1>4. ASSUME NEW i \in 1 .. N
        PROVE  Dist(R[i], t.head) = nth[i] /\ nth[i] \in 0 .. n - 1
    <2>1. nth[i] \in Got(t, n)  OBVIOUS
    <2>2. R[i] = t.buf[Slot(t, nth[i])].sn  BY <1>2
    <2> HIDE DEF R
    <2> QED BY <2>1, <2>2, GotNear
  <1> HIDE DEF R
  <1>5. \A i \in 1 .. N : 0 <= Dist(R[i], t.head) /\ Dist(R[i], t.head) < n
    BY <1>4
  <1>6. \A i, j \in 1 .. N : i < j => Dist(R[i], t.head) < Dist(R[j], t.head)
    BY <1>2, <1>4
  <1> QED BY <1>3, <1>5, <1>6 DEF Sorted, R

(* A list taken from a head m steps on, seen from the first one.           *)
LEMMA Shifted ==
  ASSUME NEW h \in Sn, NEW m \in Nat, NEW n \in Nat, m + n <= SN,
         NEW R, Sorted(R, (h + m) % SN, 0, n)
  PROVE  Sorted(R, h, m, m + n)
  <1> DEFINE g == (h + m) % SN
  <1>1. g \in Sn
    <2>1. h + m \in Int  BY Positive DEF Sn
    <2> QED BY <2>1, ModRange, Positive DEF Sn
  <1>2. ASSUME NEW i \in 1 .. Len(R)
        PROVE  /\ Dist(R[i], h) = m + Dist(R[i], g)
               /\ Dist(R[i], g) \in Int /\ 0 <= Dist(R[i], g) /\ Dist(R[i], g) < n
    <2>1. R[i] \in Sn  BY DEF Sorted
    <2>2. Dist(R[i], g) < n /\ 0 <= Dist(R[i], g)  BY DEF Sorted
    <2>3. Dist(R[i], g) \in Int  BY <1>1, <2>1, DistTo
    <2>4. m + Dist(R[i], g) < SN
      <3> DEFINE e == Dist(R[i], g)
      <3>1. e < n /\ e \in Int  BY <2>2, <2>3
      <3> HIDE DEF e
      <3>2. m + e < SN  BY <3>1, Positive
      <3> QED BY <3>2 DEF e
    <2> QED BY <2>1, <2>2, <2>3, <2>4, DistBack
  <1>3. \A i, j \in 1 .. Len(R) : i < j => Dist(R[i], g) < Dist(R[j], g)
    BY DEF Sorted
  <1> HIDE DEF g
  <1>4. \A i \in 1 .. Len(R) : m <= Dist(R[i], h) /\ Dist(R[i], h) < m + n
    BY <1>2
  <1>5. \A i, j \in 1 .. Len(R) : i < j => Dist(R[i], h) < Dist(R[j], h)
    BY <1>2, <1>3
  <1>6. R \in Seq(Sn)  BY DEF Sorted
  <1> QED BY <1>4, <1>5, <1>6 DEF Sorted

(* One list after another that goes on where it stops.                     *)
LEMMA Joined ==
  ASSUME NEW h \in Sn, NEW m \in Nat, NEW n \in Nat, m <= n,
         NEW R, NEW S, Sorted(R, h, 0, m), Sorted(S, h, m, n)
  PROVE  Sorted(R \o S, h, 0, n)
  <1> DEFINE Q == R \o S
             p == Len(R)
             q == Len(S)
  <1>1. R \in Seq(Sn) /\ S \in Seq(Sn) /\ p \in Nat /\ q \in Nat  BY DEF Sorted
  <1>2. Q \in Seq(Sn) /\ Len(Q) = p + q  BY <1>1
  <1>3. \A i \in 1 .. p : Q[i] = R[i]  BY <1>1
  <1>4. \A i \in p + 1 .. p + q : Q[i] = S[i - p] /\ i - p \in 1 .. q  BY <1>1
  <1> HIDE DEF Q
  <1>5. /\ \A i \in 1 .. p : 0 <= Dist(R[i], h) /\ Dist(R[i], h) < m
        /\ \A i, j \in 1 .. p : i < j => Dist(R[i], h) < Dist(R[j], h)
    BY DEF Sorted
  <1>6. /\ \A i \in 1 .. q : m <= Dist(S[i], h) /\ Dist(S[i], h) < n
        /\ \A i, j \in 1 .. q : i < j => Dist(S[i], h) < Dist(S[j], h)
    BY DEF Sorted
  <1>7. \A i \in 1 .. p + q : i \in 1 .. p \/ i \in p + 1 .. p + q  BY <1>1
  <1>8. \A i \in 1 .. p + q : Dist(Q[i], h) \in Int
    <2> SUFFICES ASSUME NEW i \in 1 .. p + q PROVE Dist(Q[i], h) \in Int  OBVIOUS
    <2>1. Q[i] \in Sn  BY <1>2
    <2> QED BY <2>1, DistTo
  <1> HIDE DEF p, q
  <1>9. ASSUME NEW i \in 1 .. p
        PROVE  0 <= Dist(Q[i], h) /\ Dist(Q[i], h) < m
    BY <1>3, <1>5
  <1>10. ASSUME NEW i \in p + 1 .. p + q
         PROVE  m <= Dist(Q[i], h) /\ Dist(Q[i], h) < n
    BY <1>4, <1>6
  <1>11. ASSUME NEW i \in 1 .. p + q
         PROVE  0 <= Dist(Q[i], h) /\ Dist(Q[i], h) < n
    BY <1>7, <1>8, <1>9, <1>10
  <1>12. ASSUME NEW i \in 1 .. p + q, NEW j \in 1 .. p + q, i < j
         PROVE  Dist(Q[i], h) < Dist(Q[j], h)
    <2>1. CASE i \in 1 .. p /\ j \in 1 .. p
      BY <2>1, <1>3, <1>5, <1>12
    <2>2. CASE i \in 1 .. p /\ j \in p + 1 .. p + q
      BY <2>2, <1>8, <1>9, <1>10
    <2>3. CASE i \in p + 1 .. p + q /\ j \in p + 1 .. p + q
      <3>1. i - p < j - p  BY <1>1, <1>12
      <3>2. Dist(S[i - p], h) < Dist(S[j - p], h)  BY <2>3, <3>1, <1>4, <1>6
      <3> QED BY <2>3, <3>2, <1>4
    <2> QED BY <2>1, <2>2, <2>3, <1>1, <1>7, <1>12
  <1> QED BY <1>2, <1>11, <1>12 DEF Sorted, Q

(* What a section does to a session's head and hands up: at most half the  *)
(* number space forward, and only frames it moves past, in order.          *)
Moves(t, r, list) ==
    \E n \in Nat : 2 * n <= SN /\ r.head = (t.head + n) % SN /\ Sorted(list, t.head, 0, n)

LEMMA WideSpace ==
  ASSUME Size >= 2, SN % Size = 0
  PROVE  3 * Size <= SN /\ 2 * (Size + 1) <= SN
  <1>1. SN \in Nat \ {0} /\ Size \in Nat /\ 2 * Size < SN  BY Positive, SnAssumption
  <1> DEFINE e == SN - 2 * Size
             q == SN \div Size
  <1>2. q \in Int /\ SN = Size * q
    <2>1. q \in Int /\ SN = Size * q + (SN % Size)  BY <1>1, DivMod
    <2>2. Size * q \in Int  BY <1>1, <2>1
    <2> HIDE DEF q
    <2> QED BY <2>1, <2>2
  <1> HIDE DEF q
  <1>3. e >= Size
    <2> SUFFICES ASSUME ~(e >= Size) PROVE FALSE  OBVIOUS
    <2>1. e \in 1 .. Size - 1  BY <1>1
    <2>2. e = Size * (q - 2)  BY <1>1, <1>2
    <2> HIDE DEF e
    <2> QED BY <2>1, <2>2, <1>2, NoMultiple
  <1> QED BY <1>1, <1>3

(* Two moves in a row are one.                                             *)
LEMMA HeadOn ==
  ASSUME NEW h \in Sn, NEW n \in Nat, NEW m \in Nat, n + m < SN
  PROVE  (((h + n) % SN) + m) % SN = (h + (n + m)) % SN
  <1> DEFINE x == h + n
             g == x % SN
             z == h + (n + m)
  <1>1. SN \in Nat \ {0} /\ h \in 0 .. SN - 1  BY Positive DEF Sn
  <1>2. x \in 0 .. 2 * SN - 1 /\ z \in 0 .. 2 * SN - 1 /\ z = x + m  BY <1>1
  <1> HIDE DEF x, z
  <1>3. g = IF x < SN THEN x ELSE x - SN  BY <1>2, ModIs
  <1>4. z % SN = IF z < SN THEN z ELSE z - SN  BY <1>2, ModIs
  <1>5. CASE x < SN
    <2>1. g + m = z  BY <1>2, <1>3, <1>5
    <2> QED BY <2>1 DEF x, z
  <1>6. CASE ~(x < SN)
    <2> DEFINE y == g + m
    <2>1. y = z - SN /\ z >= SN  BY <1>1, <1>2, <1>3, <1>6
    <2>2. y \in 0 .. SN - 1 /\ y = z % SN  BY <1>1, <1>2, <1>4, <2>1
    <2> HIDE DEF y
    <2>3. y % SN = y  BY <1>1, <2>2
    <2> QED BY <2>2, <2>3 DEF x, y, z
  <1> QED BY <1>5, <1>6

(* The steps to a head that is not behind go less than half way round.     *)
LEMMA StepsBound ==
  ASSUME NEW t \in Sessions, NEW h \in Sn
  PROVE  StepsTo(t, h) \in Nat /\ 2 * StepsTo(t, h) <= SN
  <1>1. /\ SN \in Nat \ {0} /\ t.head \in 0 .. SN - 1 /\ h \in 0 .. SN - 1
        /\ t.head \in Sn
    BY Positive DEF Sn, Sessions
  <1>2. Dist(t.head, h) = IF t.head >= h THEN t.head - h ELSE t.head - h + SN
    BY <1>1, DistIs
  <1>3. Dist(h, t.head) = IF h >= t.head THEN h - t.head ELSE h - t.head + SN
    BY <1>1, DistIs
  <1>4. StepsTo(t, h) = IF 2 * Dist(t.head, h) > SN THEN Dist(h, t.head) ELSE 0
    BY DEF StepsTo, SnLess
  <1> QED BY <1>1, <1>2, <1>3, <1>4

(* After n steps, the run at the head stays within the window the session  *)
(* had before them.                                                        *)
LEMMA RunInWindow ==
  ASSUME SN % Size = 0, NEW t \in Sessions, Counted(t), Near(t), NEW n \in Nat
  PROVE  LET m == HeadRun(ReleaseN(t, n))
         IN  m \in Nat /\ (m = 0 \/ n + m <= Size)
  <1> DEFINE a == ReleaseN(t, n)
             m == HeadRun(a)
  <1>1. a \in Sessions /\ Near(a)  BY ReleaseNKeeps, ReleaseNear
  <1>2. m \in Nat
    <2> HIDE DEF a
    <2> QED BY <1>1, HeadRunType
  <1> SUFFICES ASSUME m # 0 PROVE n + m <= Size  BY <1>2
  <1> DEFINE k == m - 1
             i == Slot(a, k)
  <1>3. k \in Got(a, m)
    <2> HIDE DEF a
    <2>1. k \in 0 .. m - 1  BY <1>2
    <2> QED BY <2>1, <1>1, HeadRunType
  <1>4. i \in Used(a) /\ Dist(a.buf[i].sn, a.head) = k
    <2> HIDE DEF a, k, m
    <2> QED BY <1>1, <1>2, <1>3, GotNear
  <1>5. /\ i \in Used(t) /\ Dist(a.buf[i].sn, a.head) = Dist(t.buf[i].sn, t.head) - n
    <2> HIDE DEF i
    <2> QED BY <1>4, LeftBehind
  <1>6. Dist(t.buf[i].sn, t.head) \in 0 .. Size - 1  BY <1>5 DEF Near
  <1> HIDE DEF i, a, m
  <1> QED BY <1>2, <1>4, <1>5, <1>6, Positive

(* A section that moves the head n steps and then takes the run it finds.  *)
LEMMA TwoStages ==
  ASSUME SN % Size = 0, NEW t \in Sessions, NEW n \in Nat,
         NEW R, Sorted(R, t.head, 0, n),
         NEW a, a \in Sessions, Near(a), a.head = (t.head + n) % SN,
         NEW m \in Nat, 2 * (n + m) <= SN
  PROVE  Moves(t, ReleaseN(a, m), R \o Released(a, m))
  <1> DEFINE S == Released(a, m)
  <1>1. t.head \in Sn /\ a.head \in Sn /\ SN \in Nat  BY Positive DEF Sessions
  <1>2. n + m \in Nat /\ n + m < SN  BY Positive
  <1>3. Sorted(S, a.head, 0, m)  BY ReleasedSorted
  <1> HIDE DEF S
  <1>4. Sorted(S, t.head, n, n + m)  BY <1>1, <1>2, <1>3, Shifted
  <1>5. Sorted(R \o S, t.head, 0, n + m)  BY <1>1, <1>4, Joined
  <1>6. ReleaseN(a, m).head = (t.head + (n + m)) % SN
    <2>1. ReleaseN(a, m).head = (a.head + m) % SN  BY HeadMoved
    <2> QED BY <2>1, <1>1, <1>2, HeadOn
  <1> QED BY <1>2, <1>5, <1>6 DEF Moves, S

(* mt76_rx_aggr_release_frames and _release_head.                          *)
LEMMA AdvanceMoves ==
  ASSUME Size >= 2, SN % Size = 0,
         NEW t \in Sessions, Counted(t), Near(t), NEW h \in Sn
  PROVE  Moves(t, Advance(t, h).tid, Advance(t, h).out)
  <1> DEFINE n == StepsTo(t, h)
             a == ReleaseN(t, n)
             m == HeadRun(a)
  <1>1. n \in Nat /\ 2 * n <= SN  BY StepsBound
  <1>2. /\ Advance(t, h).tid = ReleaseN(a, m)
        /\ Advance(t, h).out = Released(t, n) \o Released(a, m)
    BY DEF Advance, ReleaseFrames, ReleaseHead
  <1> HIDE DEF n
  <1>3. a \in Sessions /\ Near(a) /\ a.head = (t.head + n) % SN
    BY <1>1, ReleaseNKeeps, ReleaseNear, HeadMoved
  <1>4. m \in Nat /\ (m = 0 \/ n + m <= Size)  BY <1>1, RunInWindow
  <1> HIDE DEF a
  <1>5. 2 * (n + m) <= SN
    <2> HIDE DEF m
    <2> QED BY <1>1, <1>4, WideSpace, Positive
  <1>6. Moves(t, ReleaseN(a, m), Released(t, n) \o Released(a, m))
    <2>1. Sorted(Released(t, n), t.head, 0, n)  BY <1>1, ReleasedSorted
    <2> HIDE DEF m
    <2> QED BY <2>1, <1>1, <1>3, <1>4, <1>5, TwoStages
  <1> QED BY <1>2, <1>6

LEMMA StaysMoves ==
  ASSUME NEW t \in Sessions, NEW r, r.head = t.head
  PROVE  Moves(t, r, <<>>)
  <1>1. Sorted(<<>>, t.head, 0, 0)  BY DEF Sorted
  <1>2. (t.head + 0) % SN = t.head
    <2>1. SN \in Nat \ {0} /\ t.head \in 0 .. SN - 1 BY Positive DEF Sessions, Sn
    <2>2. t.head + 0 = t.head  BY <2>1
    <2> QED BY <2>1, <2>2
  <1>3. 0 \in Nat /\ 2 * 0 <= SN  BY Positive
  <1> QED BY <1>1, <1>2, <1>3 DEF Moves

LEMMA CheckCtlMoves ==
  ASSUME Size >= 2, SN % Size = 0,
         NEW t \in Sessions, Counted(t), Near(t), NEW ssn \in Sn
  PROVE  Moves(t, CheckCtl(t, ssn).tid, CheckCtl(t, ssn).out)
  <1>1. CASE t.stopped
    <2>1. CheckCtl(t, ssn) = [tid |-> t, out |-> <<>>]  BY <1>1 DEF CheckCtl
    <2>2. Moves(t, t, <<>>)  BY StaysMoves
    <2> QED BY <2>1, <2>2
  <1>2. CASE ~t.stopped
    <2>1. CheckCtl(t, ssn) = Advance(t, ssn)  BY <1>2 DEF CheckCtl
    <2> QED BY <2>1, AdvanceMoves
  <1> QED BY <1>1, <1>2

(* mt76_rx_aggr_check_release: between two sections no frame waits at the  *)
(* head, so its first mt76_rx_aggr_release_head finds none.                *)
LEMMA NoRun ==
  ASSUME SN % Size = 0, NEW t \in Sessions, Ahead(t)
  PROVE  HeadRun(t) = 0
  <1>1. HeadRun(t) \in Nat /\ Near(t)  BY HeadRunType, AheadNear
  <1> SUFFICES ASSUME HeadRun(t) # 0 PROVE FALSE  OBVIOUS
  <1> DEFINE m == HeadRun(t)
             i == Slot(t, 0)
  <1>2. 0 \in Got(t, m)
    <2>1. 0 \in 0 .. m - 1  BY <1>1
    <2> QED BY <2>1, HeadRunType
  <1>3. i \in Used(t) /\ Dist(t.buf[i].sn, t.head) = 0
    <2>1. m \in Nat  BY <1>1
    <2> HIDE DEF m
    <2> QED BY <2>1, <1>1, <1>2, GotNear
  <1> HIDE DEF i
  <1> QED BY <1>3 DEF Ahead

LEMMA CheckReleaseMoves ==
  ASSUME Size >= 2, SN % Size = 0, NEW t \in Sessions, Counted(t), Ahead(t)
  PROVE  Moves(t, CheckRelease(t).tid, CheckRelease(t).out)
  <1> DEFINE a == ReleaseHead(t)
             R == Released(t, HeadRun(t))
             exp == {i \in Used(a) : Expired(a.buf[i])}
             last == CHOOSE i \in exp : \A j \in exp :
                        Dist(a.buf[j].sn, a.head) <= Dist(a.buf[i].sn, a.head)
             b == IF exp = {} THEN [tid |-> a, out |-> <<>>]
                              ELSE Advance(a, a.buf[last].sn)
  <1>1. CASE t.nframes = 0
    <2>1. CheckRelease(t) = [tid |-> t, out |-> <<>>]  BY <1>1 DEF CheckRelease
    <2>2. Moves(t, t, <<>>)  BY StaysMoves
    <2> QED BY <2>1, <2>2
  <1>2. CASE t.nframes # 0
    <2>1. CheckRelease(t) = [tid |-> b.tid, out |-> R \o b.out]
      BY <1>2 DEF CheckRelease
    <2>2. HeadRun(t) = 0 /\ Near(t)  BY NoRun, AheadNear
    <2>3. Sorted(R, t.head, 0, 0)  BY <2>2, ReleasedSorted
    <2>4. a \in Sessions /\ Counted(a) /\ Near(a) /\ a.head = t.head
      <3>1. a = ReleaseN(t, 0)  BY <2>2 DEF ReleaseHead
      <3>2. ReleaseN(t, 0) \in Sessions /\ Counted(ReleaseN(t, 0)) /\ Near(ReleaseN(t, 0))
        BY <2>2, ReleaseNKeeps, ReleaseNear
      <3>3. ReleaseN(t, 0).head = (t.head + 0) % SN  BY HeadMoved
      <3>4. (t.head + 0) % SN = t.head
        <4>1. SN \in Nat \ {0} /\ t.head \in 0 .. SN - 1  BY Positive DEF Sessions, Sn
        <4>2. t.head + 0 = t.head  BY <4>1
        <4> QED BY <4>1, <4>2
      <3> QED BY <3>1, <3>2, <3>3, <3>4
    <2> HIDE DEF a, R
    <2>5. Moves(a, b.tid, b.out)
      <3>1. CASE exp = {}
        <4>1. b.tid = a /\ b.out = <<>>  BY <3>1
        <4> QED BY <4>1, <2>4, StaysMoves
      <3>2. CASE exp # {}
        <4>1. a.buf[last].sn \in Sn  BY <3>2, <2>4, FurthestType
        <4> HIDE DEF exp, last
        <4>2. b = Advance(a, a.buf[last].sn)  BY <3>2
        <4>3. Moves(a, Advance(a, a.buf[last].sn).tid, Advance(a, a.buf[last].sn).out)
          BY <2>4, <4>1, AdvanceMoves
        <4> QED BY <4>2, <4>3
      <3> QED BY <3>1, <3>2
    <2> HIDE DEF b
    <2>6. PICK n \in Nat : /\ 2 * n <= SN /\ b.tid.head = (t.head + n) % SN
                           /\ Sorted(b.out, t.head, 0, n)
      BY <2>4, <2>5 DEF Moves
    <2>7. Sorted(R \o b.out, t.head, 0, n)
      <3>1. t.head \in Sn /\ 0 <= n /\ 0 \in Nat  BY DEF Sessions
      <3> QED BY <3>1, <2>3, <2>6, Joined
    <2> QED BY <2>1, <2>6, <2>7 DEF Moves
  <1> QED BY <1>1, <1>2

LEMMA RunNear ==
  ASSUME SN % Size = 0, NEW t \in Sessions, Near(t)
  PROVE  HeadRun(t) \in Nat /\ HeadRun(t) <= Size
  <1> DEFINE m == HeadRun(t)
  <1>1. m \in Nat /\ Size \in Nat  BY HeadRunType, Positive
  <1>2. ASSUME m # 0 PROVE m - 1 \in 0 .. Size - 1
    <2>1. m - 1 \in 0 .. m - 1  BY <1>1, <1>2
    <2>2. m - 1 \in Got(t, m)  BY <2>1, HeadRunType
    <2> HIDE DEF m
    <2> QED BY <2>2, <1>1, GotNear
  <1> HIDE DEF m
  <1>3. m <= Size  BY <1>1, <1>2
  <1> QED BY <1>1, <1>3 DEF m

(* The run at the head of a session with a frame just put in: the frame    *)
(* closes at most one gap of those the window had.                         *)
LEMMA RunWithFrame ==
  ASSUME SN % Size = 0, NEW t \in Sessions, Near(t), NEW n \in Nat,
         NEW a, a = ReleaseN(t, n),
         NEW b \in Sessions, Near(b), b.head = a.head, NEW j \in Slots,
         \A i \in Slots : i # j => b.buf[i] = a.buf[i],
         Dist(b.buf[j].sn, b.head) \in 1 .. Size - 1
  PROVE  HeadRun(b) \in Nat /\ (HeadRun(b) = 0 \/ n + HeadRun(b) <= Size + 1)
  <1> DEFINE m == HeadRun(b)
             e == Dist(b.buf[j].sn, b.head)
  <1>1. m \in Nat /\ Size \in Nat /\ e \in 1 .. Size - 1  BY HeadRunType, Positive
  <1>2. ASSUME NEW k \in 0 .. m - 1
        PROVE  k = e \/ n + k <= Size - 1
    <2>1. k \in Got(b, m)  BY HeadRunType
    <2> DEFINE i == Slot(b, k)
    <2>2. i \in Used(b) /\ Dist(b.buf[i].sn, b.head) = k /\ k \in 0 .. Size - 1
      <3> HIDE DEF m
      <3> QED BY <1>1, <2>1, GotNear
    <2> HIDE DEF i
    <2>3. CASE i = j  BY <2>2, <2>3
    <2>4. CASE i # j
      <3>1. i \in Used(a) /\ b.buf[i] = a.buf[i]  BY <2>2, <2>4 DEF Used
      <3>2. i \in Used(t) /\ Dist(a.buf[i].sn, a.head) = Dist(t.buf[i].sn, t.head) - n
        BY <3>1, LeftBehind
      <3>3. Dist(t.buf[i].sn, t.head) \in 0 .. Size - 1  BY <3>2 DEF Near
      <3>4. k = Dist(t.buf[i].sn, t.head) - n  BY <2>2, <3>1, <3>2
      <3> QED BY <3>3, <3>4, <1>1
    <2> QED BY <2>3, <2>4
  <1> HIDE DEF m, e
  <1>3. CASE m = 0  BY <1>1, <1>3 DEF m
  <1>4. CASE m = 1
    <2>1. 0 = e \/ n + 0 <= Size - 1  BY <1>2, <1>4
    <2>2. n + m <= Size + 1  BY <2>1, <1>1, <1>4
    <2> QED BY <2>2, <1>1 DEF m
  <1>5. CASE m >= 2
    <2>1. m - 1 \in 0 .. m - 1 /\ m - 2 \in 0 .. m - 1  BY <1>1, <1>5
    <2>2. m - 1 = e \/ n + (m - 1) <= Size - 1  BY <1>2, <2>1
    <2>3. m - 2 = e \/ n + (m - 2) <= Size - 1  BY <1>2, <2>1
    <2>4. n + m <= Size + 1  BY <2>2, <2>3, <1>1
    <2> QED BY <2>4, <1>1 DEF m
  <1> QED BY <1>1, <1>3, <1>4, <1>5

(* mt76_rx_aggr_reorder.                                                   *)
LEMMA ReorderMoves ==
  ASSUME Size >= 2, SN % Size = 0, NEW t0 \in Sessions, Counted(t0), Ahead(t0),
         NEW sn \in Sn
  PROVE  LET r == Reorder(t0, sn)
         IN  \/ /\ t0.stopped \/ (~t0.started /\ SnLess(sn, t0.head))
                /\ r.tid = t0
             \/ Moves(t0, r.tid, r.out)
  <1> DEFINE old == SnLess(sn, t0.head)
             t == [t0 EXCEPT !.started = TRUE]
             r == Reorder(t0, sn)
  <1>1. /\ t \in Sessions /\ t.head = t0.head /\ t.nframes = t0.nframes
        /\ Counted(t) /\ Ahead(t) /\ Near(t)
    BY Started
  <1>2. CASE t0.stopped \/ (~t0.started /\ old)
    BY <1>2 DEF Reorder, Pass
  <1>3. CASE ~t0.stopped /\ ~(~t0.started /\ old) /\ old
    <2>1. r.tid = t /\ r.out = <<>>  BY <1>3 DEF Reorder, Drop
    <2> HIDE DEF t, r
    <2> QED BY <2>1, <1>1, StaysMoves DEF r
  <1>4. CASE ~t0.stopped /\ ~old /\ sn = t0.head
    <2> DEFINE a == [t EXCEPT !.head = SnInc(@)]
               m == IF t.nframes = 0 THEN 0 ELSE HeadRun(a)
    <2>1. r.tid = ReleaseN(a, m) /\ r.out = <<sn>> \o Released(a, m)
      BY <1>1, <1>4 DEF Reorder, AtHead
    <2> HIDE DEF r, t
    <2>2. a \in Sessions /\ a.head = (t.head + 1) % SN /\ Near(a)
      BY <1>1, StepOver
    <2> HIDE DEF a
    <2>3. m \in Nat /\ 2 * (1 + m) <= SN
      <3>1. HeadRun(a) \in Nat /\ HeadRun(a) <= Size  BY <2>2, RunNear
      <3>2. m \in Nat /\ m <= Size  BY <3>1, Positive
      <3> HIDE DEF m
      <3> QED BY <3>2, WideSpace, Positive
    <2> HIDE DEF m
    <2>4. Sorted(<<sn>>, t.head, 0, 1)
      <3>1. sn - sn = 0 /\ 0 % SN = 0  BY Positive DEF Sn
      <3>2. Dist(sn, t.head) = 0  BY <3>1, <1>1, <1>4 DEF Dist
      <3>3. <<sn>> \in Seq(Sn) /\ Len(<<sn>>) = 1 /\ <<sn>>[1] = sn  OBVIOUS
      <3>4. \A i \in 1 .. 1 : i = 1  OBVIOUS
      <3> QED BY <3>2, <3>3, <3>4 DEF Sorted
    <2>5. Moves(t, ReleaseN(a, m), <<sn>> \o Released(a, m))
      BY <1>1, <2>2, <2>3, <2>4, TwoStages
    <2> QED BY <2>1, <2>5, <1>1 DEF Moves, r
  <1>5. CASE ~t0.stopped /\ ~old /\ sn # t0.head
    <2> DEFINE n == RoomSteps(t, sn)
               a == ReleaseN(t, n)
               j == sn % Size
               b == [a EXCEPT !.buf[j] = [sn |-> sn, age |-> 0], !.nframes = @ + 1]
    <2>1. /\ a.buf[j] # Empty => r.tid = a /\ r.out = Released(t, n)
          /\ a.buf[j] = Empty =>
               /\ r.tid = ReleaseN(b, HeadRun(b))
               /\ r.out = Released(t, n) \o Released(b, HeadRun(b))
      BY <1>1, <1>5 DEF Reorder, Buffer, Drop, ReleaseHead
    <2> HIDE DEF t, r
    <2>2. ~SnLess(sn, t.head) /\ sn # t.head  BY <1>1, <1>5
    <2>3. /\ n \in Nat /\ n <= Dist(sn, t.head) /\ j \in Slots
          /\ a \in Sessions /\ Near(a) /\ a.head = (t.head + n) % SN
          /\ Dist(sn, a.head) \in 1 .. Size - 1
      BY <1>1, <2>2, BufferRoom
    <2> HIDE DEF n
    <2>4. 2 * n <= SN
      <3>1. Dist(sn, t.head) \in 0 .. SN - 1  BY <1>1, DistTo DEF Sessions
      <3>2. 2 * Dist(sn, t.head) <= SN  BY <3>1, <2>2, Positive DEF SnLess
      <3> QED BY <3>1, <3>2, <2>3, Positive
    <2>5. Sorted(Released(t, n), t.head, 0, n)  BY <1>1, <2>3, ReleasedSorted
    <2>6. CASE a.buf[j] # Empty
      <3>1. Moves(t, a, Released(t, n))  BY <2>3, <2>4, <2>5 DEF Moves
      <3> QED BY <2>1, <2>6, <3>1, <1>1 DEF Moves, r
    <2>7. CASE a.buf[j] = Empty
      <3>1. /\ b \in Sessions /\ b.head = a.head /\ Near(b) /\ b.buf[j].sn = sn
            /\ \A i \in Slots : i # j => b.buf[i] = a.buf[i]
        <4> HIDE DEF a
        <4> QED BY <2>3, BufferPut
      <3> HIDE DEF b
      <3> DEFINE m == HeadRun(b)
      <3>2. m \in Nat /\ (m = 0 \/ n + m <= Size + 1)
        <4>1. Dist(b.buf[j].sn, b.head) \in 1 .. Size - 1  BY <2>3, <3>1
        <4> HIDE DEF j
        <4> QED BY <4>1, <1>1, <2>3, <3>1, RunWithFrame
      <3> HIDE DEF a, m
      <3>3. 2 * (n + m) <= SN  BY <2>3, <2>4, <3>2, WideSpace, Positive
      <3>4. b.head = (t.head + n) % SN  BY <2>3, <3>1
      <3>5. Moves(t, ReleaseN(b, m), Released(t, n) \o Released(b, m))
        BY <1>1, <2>3, <2>5, <3>1, <3>2, <3>3, <3>4, TwoStages
      <3> QED BY <2>1, <2>7, <3>5, <1>1 DEF Moves, r, m
    <2> QED BY <2>6, <2>7
  <1> QED BY <1>2, <1>3, <1>4, <1>5

(* The numbers a session holds.                                            *)
Held(t) == {t.buf[i].sn : i \in Used(t)}

(* A frame that mt76_rx_aggr_reorder is given and that is not old.         *)
LEMMA ReorderLoses ==
  ASSUME Size >= 2, SN % Size = 0, NEW t0 \in Sessions, Counted(t0), Ahead(t0),
         NEW sn \in Sn, ~SnLess(sn, t0.head)
  PROVE  LET r == Reorder(t0, sn)
         IN  \/ \E i \in 1 .. Len(r.out) : r.out[i] = sn
             \/ sn \in Held(r.tid) \/ sn \in Held(t0)
  <1> DEFINE t == [t0 EXCEPT !.started = TRUE]
             r == Reorder(t0, sn)
  <1>1. /\ t \in Sessions /\ t.head = t0.head /\ t.nframes = t0.nframes
        /\ t.buf = t0.buf /\ Used(t) = Used(t0)
        /\ Counted(t) /\ Ahead(t) /\ Near(t)
    BY Started
  <1>2. CASE t0.stopped
    <2>1. r.out = <<sn>>  BY <1>2 DEF Reorder, Pass
    <2>2. Len(<<sn>>) = 1 /\ <<sn>>[1] = sn /\ 1 \in 1 .. 1  OBVIOUS
    <2> HIDE DEF r
    <2> QED BY <2>1, <2>2 DEF r
  <1>3. CASE ~t0.stopped /\ sn = t0.head
    <2> DEFINE a == [t EXCEPT !.head = SnInc(@)]
               m == IF t.nframes = 0 THEN 0 ELSE HeadRun(a)
               R == Released(a, m)
    <2>1. r.out = <<sn>> \o R  BY <1>1, <1>3 DEF Reorder, AtHead
    <2> HIDE DEF r, t
    <2>2. R \in Seq(Sn)
      <3>1. a \in Sessions  BY <1>1, StepOver
      <3> HIDE DEF a
      <3>2. m \in Nat  BY <3>1, HeadRunType
      <3> HIDE DEF m
      <3> QED BY <3>1, <3>2, ReleasedType
    <2> HIDE DEF R
    <2>3. <<sn>> \o R \in Seq(Sn) /\ Len(<<sn>> \o R) = 1 + Len(R) /\ Len(R) \in Nat
          /\ (<<sn>> \o R)[1] = sn
      BY <2>2
    <2> QED BY <2>1, <2>3 DEF r
  <1>4. CASE ~t0.stopped /\ sn # t0.head
    <2> DEFINE n == RoomSteps(t, sn)
               a == ReleaseN(t, n)
               j == sn % Size
               b == [a EXCEPT !.buf[j] = [sn |-> sn, age |-> 0], !.nframes = @ + 1]
    <2>1. a.buf[j] = Empty =>
               /\ r.tid = ReleaseN(b, HeadRun(b))
               /\ r.out = Released(t, n) \o Released(b, HeadRun(b))
      BY <1>1, <1>4 DEF Reorder, Buffer, ReleaseHead
    <2> HIDE DEF t, r
    <2>2. ~SnLess(sn, t.head) /\ sn # t.head  BY <1>1, <1>4
    <2>3. /\ n \in Nat /\ j \in Slots /\ a \in Sessions /\ Near(a)
          /\ Dist(sn, a.head) \in 1 .. Size - 1
          /\ a.buf[j] # Empty => j \in Used(t) /\ t.buf[j].sn = sn
      BY <1>1, <2>2, BufferRoom
    <2>4. CASE a.buf[j] # Empty
      BY <2>3, <2>4, <1>1 DEF Held
    <2>5. CASE a.buf[j] = Empty
      <3>1. /\ b \in Sessions /\ b.head = a.head /\ Near(b)
            /\ b.buf[j].sn = sn /\ b.buf[j] # Empty
            /\ \A i \in Slots : i # j => b.buf[i] = a.buf[i]
        <4> HIDE DEF a
        <4> QED BY <2>3, BufferPut
      <3> HIDE DEF b, a, n, j
      <3> DEFINE m == HeadRun(b)
                 P == Released(t, n)
                 Q == Released(b, m)
      <3>2. m \in Nat  BY <3>1, HeadRunType
      <3>3. CASE \E k \in 0 .. m - 1 : Slot(b, k) = j
        <4>1. PICK k \in 0 .. m - 1 : Slot(b, k) = j  BY <3>3
        <4>2. k \in Got(b, m)  BY <3>1, HeadRunType
        <4>3. \E i \in 1 .. Len(Q) : Q[i] = sn
          <5> HIDE DEF m
          <5>1. PICK N \in Nat : \E nth \in [1 .. N -> Got(b, m)] :
                    /\ Released(b, m) = [i \in 1 .. N |-> b.buf[Slot(b, nth[i])].sn]
                    /\ \A i, l \in 1 .. N : i < l => nth[i] < nth[l]
                    /\ \A l \in Got(b, m) : \E i \in 1 .. N : nth[i] = l
            BY <3>1, <3>2, ReleasedIs
          <5>2. PICK nth \in [1 .. N -> Got(b, m)] :
                    /\ Released(b, m) = [i \in 1 .. N |-> b.buf[Slot(b, nth[i])].sn]
                    /\ \A l \in Got(b, m) : \E i \in 1 .. N : nth[i] = l
            BY <5>1
          <5>3. Q \in Seq(Sn)  BY <3>1, <3>2, ReleasedType
          <5>4. Len(Q) = N  BY <5>2, <5>3
          <5>5. PICK i \in 1 .. N : nth[i] = k  BY <5>2, <4>2
          <5>6. Q[i] = sn  BY <5>2, <5>5, <4>1, <3>1
          <5> QED BY <5>4, <5>6
        <4>4. P \in Seq(Sn) /\ Q \in Seq(Sn)
          <5> HIDE DEF m
          <5> QED BY <1>1, <2>3, <3>1, <3>2, ReleasedType
        <4> HIDE DEF P, Q
        <4>5. PICK i \in 1 .. Len(Q) : Q[i] = sn  BY <4>3
        <4>6. Len(P) \in Nat /\ Len(Q) \in Nat /\ Len(P \o Q) = Len(P) + Len(Q)
          BY <4>4
        <4>7. (P \o Q)[Len(P) + i] = sn /\ Len(P) + i \in 1 .. Len(P \o Q)
          BY <4>4, <4>5, <4>6
        <4>8. r.out = P \o Q  BY <2>1, <2>5 DEF P, Q
        <4> QED BY <4>7, <4>8 DEF r
      <3>4. CASE ~\E k \in 0 .. m - 1 : Slot(b, k) = j
        <4> DEFINE c == ReleaseN(b, m)
                   freed == {Slot(b, k) : k \in 0 .. m - 1}
        <4>1. c.buf = [i \in Slots |-> IF i \in freed THEN Empty ELSE b.buf[i]]
          <5> HIDE DEF m
          <5> QED BY <3>1 DEF ReleaseN, Sessions
        <4>2. j \notin freed  BY <3>4
        <4> HIDE DEF c, freed
        <4>3. c.buf[j] = b.buf[j]  BY <4>1, <4>2, <2>3
        <4>4. j \in Used(c) /\ c.buf[j].sn = sn  BY <4>3, <3>1, <2>3 DEF Used
        <4>5. sn \in Held(c)  BY <4>4 DEF Held
        <4> QED BY <4>5, <2>1, <2>5 DEF c, r
      <3> QED BY <3>3, <3>4
    <2> QED BY <2>4, <2>5
  <1> QED BY <1>2, <1>3, <1>4

-----------------------------------------------------------------------------
(* The inductive invariant: where a session is in its life, and what that  *)
(* says of its work and its flag.                                          *)

Published ==
    aggr # NoTid => ctl.pc = "idle" /\ tid[aggr] # Freed /\ ~tid[aggr].stopped

Closing ==
    /\ ctl.pc \in {"shutdown", "cancel", "sync"} <=> ctl.tid # NoTid
    /\ ctl.tid # NoTid => tid[ctl.tid] # Freed
    /\ ctl.pc \in {"cancel", "sync"} => tid[ctl.tid].stopped

Reading ==
    /\ napi.pc = "idle" <=> napi.tid = NoTid
    /\ napi.tid # NoTid => tid[napi.tid] # Freed

Works == \A t \in Tids :
    /\ work[t].canceling <=> ctl.pc = "sync" /\ ctl.tid = t
    /\ work[t].canceling => ~work[t].pending
    /\ aggr # t /\ ctl.tid # t =>
          tid[t].stopped /\ ~work[t].pending /\ work[t].pc = "idle"

Numbers == \A t \in Tids : tid[t] # Freed => Counted(tid[t])

IInv == /\ TypeOK /\ Numbers /\ StoppedEmpty /\ TimerArmed
        /\ Published /\ Closing /\ Reading /\ Works

LEMMA FreedType ==
  /\ Freed \in Sessions /\ Used(Freed) = {} /\ Freed.stopped
  /\ \A t : Counted(t) => t # Freed
  <1>1. Freed \in Sessions /\ Freed.stopped /\ Freed.nframes = -1  BY Positive DEF Freed, Sessions
  <1>2. Used(Freed) = {}  BY DEF Used, Freed
  <1>3. ASSUME NEW t, Counted(t) PROVE t # Freed
    <2>1. Cardinality(Used(t)) \in Nat  BY UsedFinite
    <2> QED BY <2>1, <1>1, <1>3 DEF Counted
  <1> QED BY <1>1, <1>2, <1>3

LEMMA TidType ==
  ASSUME TypeOK, NEW t \in Tids
  PROVE  tid[t] \in Sessions
  BY FreedType DEF TypeOK

LEMMA InitIInv == Init => IInv
  <1> SUFFICES ASSUME Init PROVE IInv  OBVIOUS
  <1> USE DEF Init
  <1>1. <<>> \in Seq(Sn)  OBVIOUS
  <1>2. TypeOK
    BY <1>1 DEF TypeOK, IdleNapi, IdleWork, IdleCtl, NoFrame
  <1>3. Numbers /\ StoppedEmpty /\ TimerArmed
    BY FreedType DEF Numbers, StoppedEmpty, TimerArmed, Live
  <1>4. Published /\ Closing /\ Reading /\ Works
    BY FreedType DEF Published, Closing, Reading, Works, IdleNapi, IdleWork, IdleCtl
  <1> QED BY <1>2, <1>3, <1>4 DEF IInv

(* A step that leaves sessions and works alone.                            *)
LEMMA NapiPreserves ==
  ASSUME IInv, (\E skb \in Inputs : NapiFetch(skb)) \/ NapiComplete
  PROVE  IInv'
  <1>1. UNCHANGED <<aggr, tid, work, ctl>>  BY DEF NapiFetch, NapiComplete
  <1>2. Numbers' /\ StoppedEmpty' /\ TimerArmed' /\ Published' /\ Closing' /\ Works'
    BY <1>1 DEF IInv, Numbers, StoppedEmpty, TimerArmed, Live, Published, Closing, Works
  <1>3. CASE NapiComplete
    <2>1. napi' = IdleNapi /\ <<>> \in Seq(Sn)  BY <1>3 DEF NapiComplete
    <2>2. TypeOK'  BY <1>1, <2>1 DEF IInv, TypeOK, IdleNapi, NoFrame
    <2>3. Reading'  BY <2>1 DEF Reading, IdleNapi
    <2> QED BY <1>2, <2>2, <2>3 DEF IInv
  <1>4. CASE \E skb \in Inputs : NapiFetch(skb)
    <2>1. PICK skb \in Inputs : NapiFetch(skb)  BY <1>4
    <2>2. /\ napi' \in [pc : {"idle", "lock", "complete"}, tid : Tids \cup {NoTid},
                        skb : Inputs \cup {NoFrame}, frames : Seq(Sn)]
          /\ napi'.pc = "lock" /\ napi'.tid = aggr /\ aggr # NoTid
      <3>1. napi' = [IdleNapi EXCEPT !.pc = "lock", !.tid = aggr, !.skb = skb] /\ aggr # NoTid
        BY <2>1 DEF NapiFetch
      <3>2. <<>> \in Seq(Sn)  OBVIOUS
      <3>3. IdleNapi \in [pc : {"idle", "lock", "complete"}, tid : Tids \cup {NoTid},
                          skb : Inputs \cup {NoFrame}, frames : Seq(Sn)]
        BY <3>2 DEF IdleNapi
      <3>4. aggr \in Tids \cup {NoTid}  BY DEF IInv, TypeOK
      <3> QED BY <3>1, <3>3, <3>4
    <2>3. TypeOK'  BY <1>1, <2>2 DEF IInv, TypeOK
    <2>4. Reading'  BY <1>1, <2>2 DEF IInv, Reading, Published
    <2> QED BY <1>2, <2>3, <2>4 DEF IInv
  <1> QED BY <1>3, <1>4

(* A work of mt76_rx_aggr_reorder_work, and what queueing it changes.       *)
WorkRecords == [pending : BOOLEAN, pc : {"idle", "requeue"}, more : BOOLEAN,
                canceling : BOOLEAN, frames : Seq(Sn)]

LEMMA QueueKeeps ==
  ASSUME NEW w \in WorkRecords
  PROVE  /\ Queue(w) \in WorkRecords
         /\ Queue(w).pc = w.pc /\ Queue(w).more = w.more
         /\ Queue(w).canceling = w.canceling
         /\ w.canceling => Queue(w) = w
         /\ ~w.canceling => Queue(w).pending
  <1>1. CASE w.canceling  BY <1>1 DEF Queue
  <1>2. CASE ~w.canceling
    <2>1. Queue(w) = [w EXCEPT !.pending = TRUE]  BY <1>2 DEF Queue
    <2> QED BY <2>1, <1>2 DEF WorkRecords
  <1> QED BY <1>1, <1>2

(* The poll in its locked section, whatever list it releases.              *)
LEMMA LockedPreserves ==
  ASSUME IInv, NEW s \in Sessions, NEW out \in Seq(Sn), NEW queue \in BOOLEAN,
         napi.pc = "lock",
         Counted(s), s.stopped = tid[napi.tid].stopped,
         queue => ~s.stopped,
         s.stopped => Used(s) = {},
         queue \/ Used(s) \subseteq Used(tid[napi.tid]),
         tid' = [tid EXCEPT ![napi.tid] = s],
         napi' = [napi EXCEPT !.pc = "complete", !.skb = NoFrame, !.frames = out],
         work' = IF queue THEN [work EXCEPT ![napi.tid] = Queue(@)] ELSE work,
         UNCHANGED <<aggr, ctl>>
  PROVE  IInv'
  <1> DEFINE T == napi.tid
  <1>1. T \in Tids /\ tid[T] # Freed /\ napi.tid # NoTid
    BY DEF IInv, TypeOK, Reading
  <1>2. s # Freed  BY FreedType
  <1>3. tid \in [Tids -> Sessions]  BY FreedType DEF IInv, TypeOK
  <1>4. /\ tid' \in [Tids -> Sessions] /\ tid'[T] = s
        /\ \A t \in Tids \ {T} : tid'[t] = tid[t]
    BY <1>1, <1>3
  <1>w. work \in [Tids -> WorkRecords]  BY DEF IInv, TypeOK, WorkRecords
  <1>q. \A t \in Tids :
          work'[t] = IF t = T /\ queue THEN Queue(work[t]) ELSE work[t]
    BY <1>1, <1>w
  <1>k. \A t \in Tids :
          /\ Queue(work[t]) \in WorkRecords
          /\ Queue(work[t]).pc = work[t].pc /\ Queue(work[t]).more = work[t].more
          /\ Queue(work[t]).canceling = work[t].canceling
          /\ work[t].canceling => Queue(work[t]) = work[t]
          /\ ~work[t].canceling => Queue(work[t]).pending
    BY <1>w, QueueKeeps
  <1>5. work' \in [Tids -> [pending : BOOLEAN, pc : {"idle", "requeue"}, more : BOOLEAN,
                            canceling : BOOLEAN, frames : Seq(Sn)]]
    <2>1. \A t \in Tids : work'[t] \in WorkRecords  BY <1>w, <1>q, <1>k
    <2>2. work' \in [Tids -> WorkRecords]  BY <2>1, <1>1, <1>w
    <2> QED BY <2>2 DEF WorkRecords
  <1>6. \A t \in Tids :
          /\ work'[t].pc = work[t].pc /\ work'[t].more = work[t].more
          /\ work'[t].canceling = work[t].canceling
          /\ work[t].pending => work'[t].pending
          /\ t # T \/ ~queue => work'[t] = work[t]
          /\ work[t].canceling => work'[t].pending = work[t].pending
    <2> SUFFICES ASSUME NEW t \in Tids
                 PROVE  /\ work'[t].pc = work[t].pc /\ work'[t].more = work[t].more
                        /\ work'[t].canceling = work[t].canceling
                        /\ work[t].pending => work'[t].pending
                        /\ t # T \/ ~queue => work'[t] = work[t]
                        /\ work[t].canceling => work'[t].pending = work[t].pending
      OBVIOUS
    <2>1. CASE t = T /\ queue
      <3>1. work'[t] = Queue(work[t])  BY <1>q, <2>1
      <3> QED BY <3>1, <2>1, <1>k
    <2>2. CASE ~(t = T /\ queue)
      <3>1. work'[t] = work[t]  BY <1>q, <2>2
      <3> QED BY <3>1, <2>2
    <2> QED BY <2>1, <2>2
  <1>7. queue => work'[T].pending
    <2> SUFFICES ASSUME queue PROVE work'[T].pending  OBVIOUS
    <2>1. ~work[T].canceling
      BY <1>1 DEF IInv, Works, Closing
    <2>2. work'[T] = Queue(work[T])  BY <1>1, <1>q
    <2> QED BY <2>1, <2>2, <1>1, <1>k
  <1>8. TypeOK'
    <2>1. napi' \in [pc : {"idle", "lock", "complete"}, tid : Tids \cup {NoTid},
                     skb : Inputs \cup {NoFrame}, frames : Seq(Sn)]
      BY DEF IInv, TypeOK
    <2>2. aggr' = aggr /\ ctl' = ctl  OBVIOUS
    <2> QED BY <2>1, <2>2, <1>4, <1>5 DEF IInv, TypeOK
  <1>9. Numbers'
    BY <1>4 DEF IInv, Numbers
  <1>10. StoppedEmpty'
    BY <1>4 DEF IInv, StoppedEmpty
  <1>11. TimerArmed'
    <2> SUFFICES ASSUME NEW t \in Tids, Live(t)', Used(tid'[t]) # {}
                 PROVE  work'[t].pending \/ (work'[t].pc = "requeue" /\ work'[t].more)
      BY DEF TimerArmed
    <2>1. CASE t = T /\ queue  BY <2>1, <1>7
    <2>2. CASE t = T /\ ~queue
      BY <2>2, <1>1, <1>4, <1>6 DEF IInv, TimerArmed, Live
    <2>3. CASE t # T
      BY <2>3, <1>4, <1>6 DEF IInv, TimerArmed, Live
    <2> QED BY <2>1, <2>2, <2>3
  <1>12. Published' /\ Closing'
    BY <1>1, <1>2, <1>4 DEF IInv, TypeOK, Published, Closing
  <1>13. Reading'
    <2>1. napi'.pc = "complete" /\ napi'.tid = T  BY DEF IInv, TypeOK
    <2> QED BY <2>1, <1>1, <1>2, <1>4 DEF Reading
  <1>14. Works'
    <2> SUFFICES ASSUME NEW t \in Tids
                 PROVE  /\ work'[t].canceling <=> ctl.pc = "sync" /\ ctl.tid = t
                        /\ work'[t].canceling => ~work'[t].pending
                        /\ aggr # t /\ ctl.tid # t =>
                              tid'[t].stopped /\ ~work'[t].pending /\ work'[t].pc = "idle"
      BY DEF Works
    <2>1. tid'[t].stopped = tid[t].stopped  BY <1>4
    <2>2. aggr # t /\ ctl.tid # t => t # T \/ ~queue  BY DEF IInv, Works
    <2>3. /\ work[t].canceling <=> ctl.pc = "sync" /\ ctl.tid = t
          /\ work[t].canceling => ~work[t].pending
          /\ aggr # t /\ ctl.tid # t =>
                tid[t].stopped /\ ~work[t].pending /\ work[t].pc = "idle"
      BY DEF IInv, Works
    <2>4. /\ work'[t].pc = work[t].pc /\ work'[t].canceling = work[t].canceling
          /\ t # T \/ ~queue => work'[t] = work[t]
          /\ work[t].canceling => work'[t].pending = work[t].pending
      BY <1>6
    <2> HIDE DEF T
    <2> QED BY <2>1, <2>2, <2>3, <2>4
  <1> QED BY <1>8, <1>9, <1>10, <1>11, <1>12, <1>13, <1>14 DEF IInv

LEMMA FramePreserves ==
  ASSUME IInv, NapiReorder \/ NapiBar
  PROVE  IInv'
  <1> DEFINE t == tid[napi.tid]
  <1>1. napi.pc = "lock" /\ napi.tid \in Tids /\ t # Freed
    BY DEF IInv, TypeOK, Reading, NapiReorder, NapiBar
  <1>2. t \in Sessions /\ Counted(t) /\ (t.stopped => Used(t) = {})
    BY <1>1, TidType DEF IInv, Numbers, StoppedEmpty
  <1>3. napi.skb.sn \in Sn
    BY Positive DEF IInv, TypeOK, Inputs, NoFrame
  <1>4. CASE NapiReorder
    <2> DEFINE r == Reorder(t, napi.skb.sn)
    <2>1. /\ r.tid \in Sessions /\ Counted(r.tid) /\ r.tid.stopped = t.stopped
          /\ r.out \in Seq(Sn) /\ r.queue \in BOOLEAN
          /\ t.stopped => r.tid = t /\ ~r.queue
          /\ r.queue \/ Used(r.tid) \subseteq Used(t)
      <3> HIDE DEF t
      <3> QED BY <1>2, <1>3, ReorderKept
    <2>2. /\ tid' = [tid EXCEPT ![napi.tid] = r.tid]
          /\ napi' = [napi EXCEPT !.pc = "complete", !.skb = NoFrame, !.frames = r.out]
          /\ work' = IF r.queue THEN [work EXCEPT ![napi.tid] = Queue(@)] ELSE work
          /\ UNCHANGED <<aggr, ctl>>
      BY <1>4 DEF NapiReorder
    <2>3. (r.queue => ~r.tid.stopped) /\ (r.tid.stopped => Used(r.tid) = {})
      BY <2>1, <1>2
    <2> HIDE DEF r
    <2> QED BY <1>1, <2>1, <2>2, <2>3, LockedPreserves
  <1>5. CASE NapiBar
    <2> DEFINE r == CheckCtl(t, napi.skb.sn)
    <2>1. Kept(t, r.tid) /\ r.out \in Seq(Sn)
      <3> HIDE DEF t
      <3> QED BY <1>2, <1>3, CheckCtlKept
    <2>2. /\ tid' = [tid EXCEPT ![napi.tid] = r.tid]
          /\ napi' = [napi EXCEPT !.pc = "complete", !.skb = NoFrame, !.frames = r.out]
          /\ work' = IF FALSE THEN [work EXCEPT ![napi.tid] = Queue(@)] ELSE work
          /\ UNCHANGED <<aggr, ctl>>
      BY <1>5 DEF NapiBar
    <2>3. /\ r.tid \in Sessions /\ Counted(r.tid) /\ r.tid.stopped = t.stopped
          /\ r.tid.stopped => Used(r.tid) = {}
          /\ Used(r.tid) \subseteq Used(t)
      BY <2>1, <1>2 DEF Kept
    <2> HIDE DEF r
    <2> QED BY <1>1, <2>1, <2>2, <2>3, LockedPreserves
  <1> QED BY <1>4, <1>5

(* The release work in its locked section.                                 *)
LEMMA WorkReleasePreserves ==
  ASSUME IInv, NEW T \in Tids, WorkRelease(T)
  PROVE  IInv'
  <1> DEFINE r == CheckRelease(tid[T])
             w == [work[T] EXCEPT !.pending = FALSE, !.pc = "requeue",
                                  !.more = r.tid.nframes > 0, !.frames = r.out]
  <1>1. /\ work[T].pending /\ work[T].pc = "idle"
        /\ tid' = [tid EXCEPT ![T] = r.tid]
        /\ work' = [work EXCEPT ![T] = w]
        /\ UNCHANGED <<aggr, napi, ctl>>
    BY DEF WorkRelease, IInv, TypeOK
  <1>2. aggr = T \/ ctl.tid = T  BY <1>1 DEF IInv, Works
  <1>3. T # NoTid /\ tid[T] # Freed
    BY <1>2, NoTidAssumption DEF IInv, Published, Closing
  <1>4. tid[T] \in Sessions /\ Counted(tid[T]) /\ (tid[T].stopped => Used(tid[T]) = {})
    BY <1>3, TidType DEF IInv, Numbers, StoppedEmpty
  <1>5. Kept(tid[T], r.tid) /\ r.out \in Seq(Sn)  BY <1>4, CheckReleaseKept
  <1> DEFINE s == r.tid
  <1> HIDE DEF r
  <1>6. /\ s \in Sessions /\ Counted(s) /\ s # Freed /\ s.stopped = tid[T].stopped
        /\ s.stopped => Used(s) = {}
    BY <1>4, <1>5, FreedType DEF Kept
  <1>7. Used(s) # {} => s.nframes > 0
    <2>1. Cardinality(Used(s)) \in Nat /\ IsFiniteSet(Used(s))  BY UsedFinite
    <2> QED BY <2>1, <1>6, FS_EmptySet DEF Counted
  <1>8. w = [pending |-> FALSE, pc |-> "requeue", more |-> s.nframes > 0,
             canceling |-> work[T].canceling, frames |-> r.out]
    <2>1. work[T] \in [pending : BOOLEAN, pc : {"idle", "requeue"}, more : BOOLEAN,
                       canceling : BOOLEAN, frames : Seq(Sn)]
      BY DEF IInv, TypeOK
    <2> DEFINE p == s.nframes > 0
    <2>2. w = [work[T] EXCEPT !.pending = FALSE, !.pc = "requeue", !.more = p,
                              !.frames = r.out]
      OBVIOUS
    <2> HIDE DEF w, p
    <2>3. w = [pending |-> FALSE, pc |-> "requeue", more |-> p,
               canceling |-> work[T].canceling, frames |-> r.out]
      BY <2>1, <2>2
    <2> QED BY <2>3 DEF p
  <1>9. w.pc = "requeue" /\ ~w.pending /\ w.canceling = work[T].canceling
        /\ (Used(s) # {} => w.more)
    BY <1>7, <1>8
  <1>10. w \in [pending : BOOLEAN, pc : {"idle", "requeue"}, more : BOOLEAN,
                canceling : BOOLEAN, frames : Seq(Sn)]
    <2>1. (s.nframes > 0) \in BOOLEAN /\ work[T].canceling \in BOOLEAN
      BY DEF IInv, TypeOK
    <2> QED BY <2>1, <1>5, <1>8
  <1> HIDE DEF s, w
  <1>11. tid \in [Tids -> Sessions]  BY FreedType DEF IInv, TypeOK
  <1>12. /\ tid' \in [Tids -> Sessions] /\ tid'[T] = s
         /\ \A t \in Tids \ {T} : tid'[t] = tid[t]
    BY <1>1, <1>6, <1>11 DEF s
  <1>13. /\ work' \in [Tids -> [pending : BOOLEAN, pc : {"idle", "requeue"}, more : BOOLEAN,
                                canceling : BOOLEAN, frames : Seq(Sn)]]
         /\ work'[T] = w /\ \A t \in Tids \ {T} : work'[t] = work[t]
    BY <1>1, <1>10 DEF IInv, TypeOK
  <1>14. TypeOK'
    BY <1>1, <1>12, <1>13 DEF IInv, TypeOK
  <1>15. Numbers' /\ StoppedEmpty'
    BY <1>6, <1>12 DEF IInv, Numbers, StoppedEmpty
  <1>16. TimerArmed'
    <2> SUFFICES ASSUME NEW t \in Tids, Live(t)', Used(tid'[t]) # {}
                 PROVE  work'[t].pending \/ (work'[t].pc = "requeue" /\ work'[t].more)
      BY DEF TimerArmed
    <2>1. CASE t = T  BY <2>1, <1>9, <1>12, <1>13
    <2>2. CASE t # T
      BY <2>2, <1>12, <1>13 DEF IInv, TimerArmed, Live
    <2> QED BY <2>1, <2>2
  <1>17. Published' /\ Closing' /\ Reading'
    BY <1>1, <1>6, <1>12 DEF IInv, TypeOK, Published, Closing, Reading
  <1>18. Works'
    <2> SUFFICES ASSUME NEW t \in Tids
                 PROVE  /\ work'[t].canceling <=> ctl.pc = "sync" /\ ctl.tid = t
                        /\ work'[t].canceling => ~work'[t].pending
                        /\ aggr # t /\ ctl.tid # t =>
                              tid'[t].stopped /\ ~work'[t].pending /\ work'[t].pc = "idle"
      BY <1>1 DEF Works
    <2>1. CASE t = T
      <3>1. work[t].canceling <=> ctl.pc = "sync" /\ ctl.tid = t  BY DEF IInv, Works
      <3> QED BY <2>1, <3>1, <1>2, <1>9, <1>13
    <2>2. CASE t # T
      BY <2>2, <1>12, <1>13 DEF IInv, Works
    <2> QED BY <2>1, <2>2
  <1> QED BY <1>14, <1>15, <1>16, <1>17, <1>18 DEF IInv

(* A step of the works alone: the requeue after the unlock, the cancel.    *)
LEMMA RequeuePreserves ==
  ASSUME IInv, NEW T \in Tids, WorkRequeue(T)
  PROVE  IInv'
  <1> DEFINE q == IF work[T].more THEN Queue(work[T]) ELSE work[T]
             w == [q EXCEPT !.pc = "idle", !.more = FALSE, !.frames = <<>>]
  <1>1. /\ work[T].pc = "requeue" /\ work' = [work EXCEPT ![T] = w]
        /\ UNCHANGED <<aggr, tid, napi, ctl>>
    BY DEF WorkRequeue, IInv, TypeOK
  <1>2. <<>> \in Seq(Sn)  OBVIOUS
  <1>3. work[T] \in [pending : BOOLEAN, pc : {"idle", "requeue"}, more : BOOLEAN,
                     canceling : BOOLEAN, frames : Seq(Sn)]
    BY DEF IInv, TypeOK
  <1>4. /\ w \in [pending : BOOLEAN, pc : {"idle", "requeue"}, more : BOOLEAN,
                  canceling : BOOLEAN, frames : Seq(Sn)]
        /\ w.pc = "idle" /\ w.canceling = work[T].canceling
        /\ work[T].canceling => w.pending = work[T].pending
        /\ work[T].pending => w.pending
        /\ work[T].more /\ ~work[T].canceling => w.pending
    BY <1>2, <1>3 DEF Queue
  <1> HIDE DEF w
  <1>5. aggr = T \/ ctl.tid = T  BY <1>1 DEF IInv, Works
  <1>6. /\ work' \in [Tids -> [pending : BOOLEAN, pc : {"idle", "requeue"}, more : BOOLEAN,
                               canceling : BOOLEAN, frames : Seq(Sn)]]
        /\ work'[T] = w /\ \A t \in Tids \ {T} : work'[t] = work[t]
    BY <1>1, <1>4 DEF IInv, TypeOK
  <1>7. TypeOK'  BY <1>1, <1>6 DEF IInv, TypeOK
  <1>8. TimerArmed'
    <2> SUFFICES ASSUME NEW t \in Tids, Live(t), Used(tid[t]) # {}
                 PROVE  work'[t].pending \/ (work'[t].pc = "requeue" /\ work'[t].more)
      BY <1>1 DEF TimerArmed, Live
    <2>1. CASE t = T
      <3>1. ~work[T].canceling  BY <2>1 DEF IInv, Works, Closing, Live
      <3>2. work[T].pending \/ work[T].more  BY <2>1 DEF IInv, TimerArmed
      <3> QED BY <2>1, <3>1, <3>2, <1>4, <1>6
    <2>2. CASE t # T  BY <2>2, <1>6 DEF IInv, TimerArmed
    <2> QED BY <2>1, <2>2
  <1>9. Works'
    <2> SUFFICES ASSUME NEW t \in Tids
                 PROVE  /\ work'[t].canceling <=> ctl.pc = "sync" /\ ctl.tid = t
                        /\ work'[t].canceling => ~work'[t].pending
                        /\ aggr # t /\ ctl.tid # t =>
                              tid[t].stopped /\ ~work'[t].pending /\ work'[t].pc = "idle"
      BY <1>1 DEF Works
    <2>1. /\ work[t].canceling <=> ctl.pc = "sync" /\ ctl.tid = t
          /\ work[t].canceling => ~work[t].pending
          /\ aggr # t /\ ctl.tid # t =>
                tid[t].stopped /\ ~work[t].pending /\ work[t].pc = "idle"
      BY DEF IInv, Works
    <2>2. CASE t = T  BY <2>1, <2>2, <1>4, <1>5, <1>6
    <2>3. CASE t # T  BY <2>1, <2>3, <1>6
    <2> QED BY <2>2, <2>3
  <1>10. Numbers' /\ StoppedEmpty' /\ Published' /\ Closing' /\ Reading'
    BY <1>1 DEF IInv, Numbers, StoppedEmpty, Published, Closing, Reading
  <1> QED BY <1>7, <1>8, <1>9, <1>10 DEF IInv

(* mt76_rx_aggr_shutdown: the loop ends with every slot empty, because     *)
(* nframes counts the occupied ones.                                       *)
LEMMA PurgeEmpties ==
  ASSUME NEW t \in Sessions, Counted(t)
  PROVE  Purge(t) \in Sessions /\ Counted(Purge(t)) /\ Purge(t).stopped /\ Used(Purge(t)) = {}
  <1> DEFINE n == Cardinality(Used(t))
             size == IF t.nframes < n THEN t.nframes ELSE n
             Chosen(S) == /\ Cardinality(S) = size
                          /\ \A i \in S : \A j \in Used(t) \ S : i < j
             gone == CHOOSE S \in SUBSET Used(t) : Chosen(S)
             nb == [i \in Slots |-> IF i \in gone THEN Empty ELSE t.buf[i]]
             c == t.nframes - Cardinality(gone)
  <1>1. IsFiniteSet(Used(t)) /\ n \in Nat  BY UsedFinite
  <1>2. size = n /\ t.nframes = n  BY <1>1 DEF Counted
  <1>3. gone = Used(t)
    <2>1. Chosen(Used(t))  BY <1>2
    <2>2. gone \in SUBSET Used(t) /\ Chosen(gone)
      <3> HIDE DEF Chosen
      <3> QED BY <2>1
    <2>3. gone \subseteq Used(t) /\ Cardinality(gone) = Cardinality(Used(t))
      BY <1>2, <2>2
    <2> HIDE DEF gone
    <2> QED BY <1>1, <2>3, FS_Subset
  <1>4. Purge(t) = [t EXCEPT !.stopped = TRUE, !.nframes = c, !.buf = nb]
    BY DEF Purge, Sessions
  <1>5. nb = [i \in Slots |-> Empty] /\ c = 0
    <2>1. \A i \in Slots : i \notin gone => t.buf[i] = Empty  BY <1>3 DEF Used
    <2>2. Cardinality(gone) = n  BY <1>3
    <2> HIDE DEF gone
    <2>3. nb = [i \in Slots |-> Empty]  BY <2>1
    <2>4. c = 0  BY <2>2, <1>1, <1>2
    <2> QED BY <2>3, <2>4
  <1> HIDE DEF nb, c
  <1>6. /\ Purge(t) \in Sessions /\ Purge(t).stopped
        /\ Purge(t).buf = nb /\ Purge(t).nframes = 0
    <2>1. nb \in [Slots -> Frames \cup {Empty}] /\ c \in Int  BY <1>5
    <2> QED BY <1>4, <1>5, <2>1 DEF Sessions
  <1>7. Used(Purge(t)) = {}  BY <1>5, <1>6 DEF Used
  <1> QED BY <1>6, <1>7, FS_EmptySet DEF Counted

(* The control path: it unpublishes a session, empties it, and lets go of  *)
(* it only when its work is idle and cannot be queued again.               *)
LEMMA UnpublishPreserves ==
  ASSUME IInv, NEW start \in BOOLEAN, CtlUnpublish(start)
  PROVE  IInv'
  <1>1. /\ ctl.pc = "idle" /\ ctl.tid = NoTid
        /\ aggr' = NoTid /\ UNCHANGED <<tid, napi, work>>
        /\ ctl' = [pc |-> IF aggr # NoTid THEN "shutdown" ELSE "alloc",
                   tid |-> aggr, start |-> start]
    BY DEF CtlUnpublish, IInv, Closing
  <1>2. TypeOK'  BY <1>1 DEF IInv, TypeOK
  <1>3. Numbers' /\ StoppedEmpty' /\ TimerArmed' /\ Reading'
    BY <1>1 DEF IInv, Numbers, StoppedEmpty, TimerArmed, Live, Reading
  <1>4. Published' /\ Closing'
    BY <1>1 DEF IInv, Published, Closing
  <1>5. Works'
    BY <1>1, NoTidAssumption DEF IInv, Works
  <1> QED BY <1>2, <1>3, <1>4, <1>5 DEF IInv

LEMMA ShutdownPreserves ==
  ASSUME IInv, CtlShutdown
  PROVE  IInv'
  <1> DEFINE T == ctl.tid
             s == Purge(tid[T])
  <1>1. T \in Tids /\ tid[T] # Freed /\ ctl.pc = "shutdown"
    BY DEF CtlShutdown, IInv, TypeOK, Closing
  <1>2. tid[T] \in Sessions /\ Counted(tid[T])
    BY <1>1, TidType DEF IInv, Numbers
  <1>3. s \in Sessions /\ Counted(s) /\ s.stopped /\ Used(s) = {} /\ s # Freed
    <2> HIDE DEF T
    <2> QED BY <1>2, PurgeEmpties, FreedType
  <1>4. /\ tid' = [tid EXCEPT ![T] = s]
        /\ ctl' = [ctl EXCEPT !.pc = "cancel"]
        /\ UNCHANGED <<aggr, napi, work>>
    BY DEF CtlShutdown, IInv, TypeOK
  <1> HIDE DEF s
  <1>5. tid \in [Tids -> Sessions]  BY FreedType DEF IInv, TypeOK
  <1>6. /\ tid' \in [Tids -> Sessions] /\ tid'[T] = s
        /\ \A t \in Tids \ {T} : tid'[t] = tid[t]
    BY <1>1, <1>3, <1>4, <1>5
  <1>7. ctl'.pc = "cancel" /\ ctl'.tid = T
    BY <1>4 DEF IInv, TypeOK
  <1>8. TypeOK'  BY <1>4, <1>6 DEF IInv, TypeOK
  <1>9. Numbers' /\ StoppedEmpty'
    BY <1>3, <1>6 DEF IInv, Numbers, StoppedEmpty
  <1>10. TimerArmed'
    BY <1>3, <1>4, <1>6 DEF IInv, TimerArmed, Live
  <1>11. Published' /\ Closing' /\ Reading'
    BY <1>1, <1>3, <1>4, <1>6, <1>7 DEF IInv, TypeOK, Published, Closing, Reading
  <1>12. Works'
    BY <1>1, <1>3, <1>4, <1>6, <1>7 DEF IInv, Works
  <1> QED BY <1>8, <1>9, <1>10, <1>11, <1>12 DEF IInv

LEMMA CancelPreserves ==
  ASSUME IInv, CtlCancel
  PROVE  IInv'
  <1> DEFINE T == ctl.tid
             w == [work[T] EXCEPT !.pending = FALSE, !.canceling = TRUE]
  <1>1. T \in Tids /\ tid[T] # Freed /\ ctl.pc = "cancel" /\ tid[T].stopped
    BY DEF CtlCancel, IInv, TypeOK, Closing
  <1>w. work \in [Tids -> WorkRecords]  BY DEF IInv, TypeOK, WorkRecords
  <1>2. /\ work' = [work EXCEPT ![T] = w] /\ ctl' = [ctl EXCEPT !.pc = "sync"]
        /\ UNCHANGED <<aggr, tid, napi>>
    <2>1. work' = [work EXCEPT ![T].pending = FALSE, ![T].canceling = TRUE]
      BY DEF CtlCancel
    <2>2. [work EXCEPT ![T].pending = FALSE, ![T].canceling = TRUE]
            = [work EXCEPT ![T] = w]
      BY <1>1, <1>w
    <2> QED BY <2>1, <2>2 DEF CtlCancel
  <1>3. /\ w \in [pending : BOOLEAN, pc : {"idle", "requeue"}, more : BOOLEAN,
                  canceling : BOOLEAN, frames : Seq(Sn)]
        /\ ~w.pending /\ w.canceling
    <2>1. work[T] \in WorkRecords  BY <1>1, <1>w
    <2> QED BY <2>1 DEF WorkRecords
  <1> HIDE DEF w
  <1>4. /\ work' \in [Tids -> [pending : BOOLEAN, pc : {"idle", "requeue"}, more : BOOLEAN,
                               canceling : BOOLEAN, frames : Seq(Sn)]]
        /\ work'[T] = w /\ \A t \in Tids \ {T} : work'[t] = work[t]
    BY <1>1, <1>2, <1>3 DEF IInv, TypeOK
  <1>5. ctl'.pc = "sync" /\ ctl'.tid = T  BY <1>2 DEF IInv, TypeOK
  <1>6. TypeOK'  BY <1>2, <1>4 DEF IInv, TypeOK
  <1>7. Numbers' /\ StoppedEmpty' /\ Reading'
    BY <1>2 DEF IInv, Numbers, StoppedEmpty, Reading
  <1>8. TimerArmed'
    BY <1>1, <1>2, <1>4 DEF IInv, TimerArmed, Live
  <1>9. Published' /\ Closing'
    BY <1>1, <1>2, <1>5 DEF IInv, TypeOK, Published, Closing
  <1>10. Works'
    <2> SUFFICES ASSUME NEW t \in Tids
                 PROVE  /\ work'[t].canceling <=> t = T
                        /\ work'[t].canceling => ~work'[t].pending
                        /\ aggr # t /\ T # t =>
                              tid[t].stopped /\ ~work'[t].pending /\ work'[t].pc = "idle"
      BY <1>2, <1>5 DEF Works
    <2>1. CASE t = T  BY <2>1, <1>3, <1>4
    <2>2. CASE t # T  BY <2>2, <1>1, <1>4 DEF IInv, Works
    <2> QED BY <2>1, <2>2
  <1> QED BY <1>6, <1>7, <1>8, <1>9, <1>10 DEF IInv

LEMMA SyncPreserves ==
  ASSUME IInv, CtlSync
  PROVE  IInv'
  <1> DEFINE T == ctl.tid
             w == [work[T] EXCEPT !.canceling = FALSE]
  <1>1. T \in Tids /\ tid[T] # Freed /\ ctl.pc = "sync" /\ tid[T].stopped
    BY DEF CtlSync, IInv, TypeOK, Closing
  <1>2. /\ work' = [work EXCEPT ![T] = w] /\ work[T].pc = "idle"
        /\ UNCHANGED <<aggr, tid, napi>>
    BY DEF CtlSync, IInv, TypeOK
  <1>3. ~work[T].pending /\ aggr = NoTid
    BY <1>1 DEF IInv, Works, Published
  <1>4. /\ w \in [pending : BOOLEAN, pc : {"idle", "requeue"}, more : BOOLEAN,
                  canceling : BOOLEAN, frames : Seq(Sn)]
        /\ ~w.pending /\ ~w.canceling /\ w.pc = "idle"
    <2>1. work[T] \in WorkRecords  BY <1>1 DEF IInv, TypeOK, WorkRecords
    <2> QED BY <2>1, <1>2, <1>3 DEF WorkRecords
  <1> HIDE DEF w
  <1>5. /\ work' \in [Tids -> [pending : BOOLEAN, pc : {"idle", "requeue"}, more : BOOLEAN,
                               canceling : BOOLEAN, frames : Seq(Sn)]]
        /\ work'[T] = w /\ \A t \in Tids \ {T} : work'[t] = work[t]
    BY <1>1, <1>2, <1>4 DEF IInv, TypeOK
  <1>6. /\ ctl' \in [pc : {"idle", "shutdown", "cancel", "sync", "alloc"},
                     tid : Tids \cup {NoTid}, start : BOOLEAN]
        /\ ctl'.pc \in {"idle", "alloc"} /\ ctl'.tid = NoTid
    <2>1. CASE ctl.start
      <3>1. ctl' = [ctl EXCEPT !.pc = "alloc", !.tid = NoTid]  BY <2>1 DEF CtlSync
      <3> QED BY <3>1 DEF IInv, TypeOK
    <2>2. CASE ~ctl.start
      BY <2>2 DEF CtlSync, IdleCtl
    <2> QED BY <2>1, <2>2
  <1>7. TypeOK'  BY <1>2, <1>5, <1>6 DEF IInv, TypeOK
  <1>8. Numbers' /\ StoppedEmpty' /\ Reading'
    BY <1>2 DEF IInv, Numbers, StoppedEmpty, Reading
  <1>9. TimerArmed'
    BY <1>1, <1>2, <1>5 DEF IInv, TimerArmed, Live
  <1>10. Published' /\ Closing'
    BY <1>2, <1>3, <1>6 DEF Published, Closing
  <1>11. Works'
    <2> SUFFICES ASSUME NEW t \in Tids
                 PROVE  ~work'[t].canceling /\ tid[t].stopped /\ ~work'[t].pending
                        /\ work'[t].pc = "idle"
      BY <1>2, <1>6 DEF Works
    <2>1. CASE t = T  BY <2>1, <1>1, <1>4, <1>5
    <2>2. CASE t # T
      <3>1. aggr # t  BY <1>3, NoTidAssumption
      <3> QED BY <2>2, <3>1, <1>1, <1>5 DEF IInv, Works
    <2> QED BY <2>1, <2>2
  <1> QED BY <1>7, <1>8, <1>9, <1>10, <1>11 DEF IInv

LEMMA AllocPreserves ==
  ASSUME IInv, CtlAllocFail \/ \E t \in Tids, ssn \in Sn : CtlAlloc(t, ssn)
  PROVE  IInv'
  <1>1. ctl.pc = "alloc" /\ ctl.tid = NoTid /\ ctl' = IdleCtl
    BY DEF CtlAlloc, CtlAllocFail, IInv, Closing
  <1>2. CASE CtlAllocFail
    <2>1. UNCHANGED <<aggr, tid, napi, work>>  BY <1>2 DEF CtlAllocFail
    <2>2. TypeOK'  BY <1>1, <2>1 DEF IInv, TypeOK, IdleCtl
    <2>3. Numbers' /\ StoppedEmpty' /\ TimerArmed' /\ Reading'
      BY <2>1 DEF IInv, Numbers, StoppedEmpty, TimerArmed, Live, Reading
    <2>4. Published' /\ Closing' /\ Works'
      BY <1>1, <2>1 DEF IInv, Published, Closing, Works, IdleCtl
    <2> QED BY <2>2, <2>3, <2>4 DEF IInv
  <1>3. ASSUME NEW T \in Tids, NEW ssn \in Sn, CtlAlloc(T, ssn)
        PROVE  IInv'
    <2> DEFINE s == [head |-> ssn, buf |-> [i \in Slots |-> Empty],
                     nframes |-> 0, started |-> FALSE, stopped |-> FALSE]
    <2>1. /\ tid[T] = Freed /\ aggr' = T /\ tid' = [tid EXCEPT ![T] = s]
          /\ UNCHANGED <<napi, work>>
      BY <1>3 DEF CtlAlloc
    <2>2. s \in Sessions /\ ~s.stopped /\ Used(s) = {} /\ s.nframes = 0
      BY DEF Sessions, Used
    <2> HIDE DEF s
    <2>3. Counted(s) /\ s # Freed  BY <2>2, FS_EmptySet, FreedType DEF Counted
    <2>4. tid \in [Tids -> Sessions]  BY FreedType DEF IInv, TypeOK
    <2>5. /\ tid' \in [Tids -> Sessions] /\ tid'[T] = s
          /\ \A t \in Tids \ {T} : tid'[t] = tid[t]
      BY <2>1, <2>2, <2>4
    <2>6. aggr = NoTid /\ T # NoTid  BY <1>1, NoTidAssumption DEF IInv, Published
    <2>7. TypeOK'  BY <1>1, <2>1, <2>5 DEF IInv, TypeOK, IdleCtl
    <2>8. Numbers' /\ StoppedEmpty'
      BY <2>2, <2>3, <2>5 DEF IInv, Numbers, StoppedEmpty
    <2>9. TimerArmed'
      BY <2>1, <2>2, <2>5 DEF IInv, TimerArmed, Live
    <2>10. Published' /\ Closing' /\ Reading'
      BY <1>1, <2>1, <2>2, <2>3, <2>5, <2>6
      DEF IInv, TypeOK, Published, Closing, Reading, IdleCtl
    <2>11. Works'
      <3> SUFFICES ASSUME NEW t \in Tids
                   PROVE  /\ ~work[t].canceling
                          /\ t # T => tid[t].stopped /\ ~work[t].pending /\ work[t].pc = "idle"
        BY <1>1, <2>1, <2>5 DEF Works, IdleCtl
      <3>1. aggr # t /\ ctl.tid # t  BY <1>1, <2>6, NoTidAssumption
      <3> QED BY <1>1, <3>1 DEF IInv, Works
    <2> QED BY <2>7, <2>8, <2>9, <2>10, <2>11 DEF IInv
  <1> QED BY <1>2, <1>3

(* The grace period ends: nobody held the session any more.                *)
LEMMA FreePreserves ==
  ASSUME IInv, NEW T \in Tids, Free(T)
  PROVE  IInv'
  <1>1. /\ aggr # T /\ ctl.tid # T /\ napi.tid # T
        /\ tid' = [tid EXCEPT ![T] = Freed] /\ UNCHANGED <<aggr, napi, work, ctl>>
    BY DEF Free
  <1>2. tid \in [Tids -> Sessions]  BY FreedType DEF IInv, TypeOK
  <1>3. /\ tid' \in [Tids -> Sessions] /\ tid'[T] = Freed
        /\ \A t \in Tids \ {T} : tid'[t] = tid[t]
    BY <1>1, <1>2, FreedType
  <1>4. TypeOK'  BY <1>1, <1>3 DEF IInv, TypeOK
  <1>5. Numbers' /\ StoppedEmpty'
    BY <1>3, FreedType DEF IInv, Numbers, StoppedEmpty
  <1>6. TimerArmed'
    BY <1>1, <1>3 DEF IInv, TimerArmed, Live
  <1>7. Published' /\ Closing' /\ Reading'
    BY <1>1, <1>3 DEF IInv, TypeOK, Published, Closing, Reading
  <1>8. Works'
    BY <1>1, <1>3, FreedType DEF IInv, Works
  <1> QED BY <1>4, <1>5, <1>6, <1>7, <1>8 DEF IInv

(* Time passes: the frames grow older where they are.                      *)
LEMMA TickPreserves ==
  ASSUME IInv, Tick
  PROVE  IInv'
  <1> DEFINE old(t) == [i \in Slots |-> Older(tid[t].buf[i])]
             s(t) == [tid[t] EXCEPT !.buf = old(t)]
  <1>1. UNCHANGED <<aggr, napi, work, ctl>>  BY DEF Tick
  <1>2. \A t \in Tids : tid[t] \in Sessions  BY TidType DEF IInv
  <1>3. ASSUME NEW f \in Frames \cup {Empty}
        PROVE  Older(f) \in Frames \cup {Empty} /\ (Older(f) = Empty <=> f = Empty)
    <2>1. CASE f = Empty \/ Expired(f)  BY <2>1 DEF Older
    <2>2. CASE f # Empty /\ ~Expired(f)
      <3>1. f \in Frames /\ f.age <= Timeo  BY <2>2, TimeoAssumption DEF Expired, Frames
      <3>2. Older(f) = [f EXCEPT !.age = @ + 1]  BY <2>2 DEF Older
      <3>3. f.age + 1 \in 0 .. Timeo + 1  BY <3>1, TimeoAssumption DEF Frames
      <3>4. Older(f) \in Frames  BY <3>1, <3>2, <3>3 DEF Frames
      <3> QED BY <2>2, <3>4, Positive
    <2> QED BY <2>1, <2>2
  <1>4. ASSUME NEW t \in Tids
        PROVE  /\ s(t) \in Sessions /\ Used(s(t)) = Used(tid[t])
               /\ s(t).nframes = tid[t].nframes /\ s(t).stopped = tid[t].stopped
    <2>1. \A i \in Slots : /\ Older(tid[t].buf[i]) \in Frames \cup {Empty}
                           /\ Older(tid[t].buf[i]) = Empty <=> tid[t].buf[i] = Empty
      BY <1>2, <1>3 DEF Sessions
    <2>2. /\ old(t) \in [Slots -> Frames \cup {Empty}]
          /\ \A i \in Slots : old(t)[i] = Empty <=> tid[t].buf[i] = Empty
      BY <2>1
    <2> HIDE DEF old
    <2>3. /\ s(t) \in Sessions /\ s(t).buf = old(t)
          /\ s(t).nframes = tid[t].nframes /\ s(t).stopped = tid[t].stopped
      BY <1>2, <2>2 DEF Sessions
    <2> HIDE DEF s
    <2> QED BY <2>2, <2>3 DEF Used
  <1>5. tid' = [t \in Tids |-> s(t)]  BY DEF Tick
  <1> HIDE DEF s
  <1>6. /\ tid' \in [Tids -> Sessions]
        /\ \A t \in Tids : /\ Used(tid'[t]) = Used(tid[t])
                           /\ tid'[t].nframes = tid[t].nframes
                           /\ tid'[t].stopped = tid[t].stopped
    BY <1>4, <1>5
  <1>7. \A t \in Tids : Counted(tid'[t]) <=> Counted(tid[t])
    BY <1>6 DEF Counted
  <1>8. \A t \in Tids : tid[t] = Freed => tid'[t] = Freed
    <2> SUFFICES ASSUME NEW t \in Tids, tid[t] = Freed PROVE tid'[t] = Freed  OBVIOUS
    <2>1. \A i \in Slots : Older(Freed.buf[i]) = Empty  BY DEF Freed, Older
    <2>2. tid'[t] = [Freed EXCEPT !.buf = [i \in Slots |-> Older(Freed.buf[i])]]
      BY <1>5 DEF s
    <2>3. tid'[t] = [Freed EXCEPT !.buf = [i \in Slots |-> Empty]]
      BY <2>1, <2>2
    <2> QED BY <2>3 DEF Freed
  <1>9. \A t \in Tids : tid[t] # Freed => tid'[t] # Freed
    BY <1>7, FreedType DEF IInv, Numbers
  <1>10. TypeOK'  BY <1>1, <1>6 DEF IInv, TypeOK
  <1>11. Numbers' /\ StoppedEmpty'
    BY <1>6, <1>7, <1>8 DEF IInv, Numbers, StoppedEmpty
  <1>12. TimerArmed'
    BY <1>1, <1>6, <1>8, <1>9 DEF IInv, TimerArmed, Live
  <1>13. Published' /\ Closing' /\ Reading'
    BY <1>1, <1>6, <1>9 DEF IInv, TypeOK, Published, Closing, Reading
  <1>14. Works'
    BY <1>1, <1>6 DEF IInv, Works
  <1> QED BY <1>10, <1>11, <1>12, <1>13, <1>14 DEF IInv

LEMMA NextPreserves == IInv /\ [Next]_vars => IInv'
  <1> SUFFICES ASSUME IInv, [Next]_vars PROVE IInv'  OBVIOUS
  <1>1. CASE Napi  BY <1>1, NapiPreserves, FramePreserves DEF Napi
  <1>2. CASE Ctl
    BY <1>2, UnpublishPreserves, ShutdownPreserves, CancelPreserves, SyncPreserves,
       AllocPreserves DEF Ctl
  <1>3. CASE Tick  BY <1>3, TickPreserves
  <1>4. ASSUME NEW t \in Tids, Work(t) \/ Free(t) PROVE IInv'
    BY <1>4, WorkReleasePreserves, RequeuePreserves, FreePreserves DEF Work
  <1>5. CASE UNCHANGED vars
    BY <1>5 DEF vars, IInv, TypeOK, Numbers, StoppedEmpty, TimerArmed, Live,
                Published, Closing, Reading, Works
  <1> QED BY <1>1, <1>2, <1>3, <1>4, <1>5 DEF Next

-----------------------------------------------------------------------------
(* The theorems.                                                           *)

(* The inductive invariant: types, the frame count, and where each         *)
(* session, its work and its reader are.                                   *)
THEOREM Inductive == Spec => []IInv
  BY InitIInv, NextPreserves, PTL DEF Spec

LEMMA IInvFreed == IInv => FreedUnreachable
  <1> SUFFICES ASSUME IInv, NEW t \in Tids, tid[t] = Freed
               PROVE  /\ aggr # t /\ napi.tid # t
                      /\ ~work[t].pending /\ work[t].pc = "idle"
    BY DEF FreedUnreachable
  <1>1. aggr # t /\ napi.tid # t /\ ctl.tid # t
    BY NoTidAssumption DEF IInv, Published, Reading, Closing
  <1> QED BY <1>1 DEF IInv, Works

(* No frame is miscounted, stranded without a timer, or left in a stopped  *)
(* session, and no freed session is reached, in any interleaving of the    *)
(* receive poll, the release work and ADDBA/DELBA (mt76_rx_aggr_reorder,   *)
(* mt76_rx_aggr_reorder_work, mt76_rx_aggr_shutdown, mt76_rx_aggr_stop).   *)
THEOREM SessionSoundHolds == Spec => []SessionSound
  <1>1. IInv => SessionSound
    BY IInvFreed DEF SessionSound, IInv, Numbers, Counted, CountInv
  <1> QED BY <1>1, Inductive, PTL

LEMMA CheckCtlAhead ==
  ASSUME NEW t \in Sessions, Counted(t), Ahead(t), NEW ssn \in Sn
  PROVE  Ahead(CheckCtl(t, ssn).tid)
  <1>1. CASE t.stopped  BY <1>1 DEF CheckCtl
  <1>2. CASE ~t.stopped  BY <1>2, AheadNear, AdvanceAhead DEF CheckCtl
  <1> QED BY <1>1, <1>2

LEMMA NextAhead ==
  ASSUME Size >= 2, SN % Size = 0, IInv, WindowInv, [Next]_vars
  PROVE  WindowInv'
  <1>1. \A t \in Tids : Ahead(tid[t])  BY DEF WindowInv, Ahead
  <1> SUFFICES \A t \in Tids : Ahead(tid'[t])
    BY DEF WindowInv, Ahead
  <1>2. tid \in [Tids -> Sessions]  BY FreedType DEF IInv, TypeOK
  <1>3. \A t \in Tids : tid[t] # Freed => tid[t] \in Sessions /\ Counted(tid[t])
    BY <1>2 DEF IInv, Numbers
  <1>4. ASSUME NEW T \in Tids, NEW s, Ahead(s), tid' = [tid EXCEPT ![T] = s]
        PROVE  \A t \in Tids : Ahead(tid'[t])
    BY <1>1, <1>2, <1>4
  <1>5. \A t : Used(t) = {} => Ahead(t)  BY DEF Ahead
  <1>6. CASE Napi
    <2> DEFINE T == napi.tid
    <2>1. ASSUME NapiReorder \/ NapiBar
          PROVE  T \in Tids /\ tid[T] \in Sessions /\ Counted(tid[T]) /\ Ahead(tid[T])
                 /\ napi.skb.sn \in Sn
      <3>1. T \in Tids /\ tid[T] # Freed
        BY <2>1 DEF IInv, TypeOK, Reading, NapiReorder, NapiBar
      <3>2. napi.skb.sn \in Sn  BY Positive DEF IInv, TypeOK, Inputs, NoFrame
      <3> QED BY <3>1, <3>2, <1>1, <1>3
    <2>2. CASE NapiReorder
      <3>1. tid' = [tid EXCEPT ![T] = Reorder(tid[T], napi.skb.sn).tid]
        BY <2>2 DEF NapiReorder
      <3> HIDE DEF T
      <3>2. Ahead(Reorder(tid[T], napi.skb.sn).tid)  BY <2>1, <2>2, ReorderAhead
      <3> QED BY <2>1, <2>2, <3>1, <3>2, <1>4
    <2>3. CASE NapiBar
      <3>1. tid' = [tid EXCEPT ![T] = CheckCtl(tid[T], napi.skb.sn).tid]
        BY <2>3 DEF NapiBar
      <3> HIDE DEF T
      <3>2. Ahead(CheckCtl(tid[T], napi.skb.sn).tid)  BY <2>1, <2>3, CheckCtlAhead
      <3> QED BY <2>1, <2>3, <3>1, <3>2, <1>4
    <2>4. CASE (\E skb \in Inputs : NapiFetch(skb)) \/ NapiComplete
      BY <2>4, <1>1 DEF NapiFetch, NapiComplete
    <2> QED BY <1>6, <2>2, <2>3, <2>4 DEF Napi
  <1>7. CASE Ctl
    <2>1. CASE CtlShutdown
      <3> DEFINE T == ctl.tid
      <3>1. T \in Tids /\ tid[T] # Freed /\ tid' = [tid EXCEPT ![T] = Purge(tid[T])]
        BY <2>1 DEF CtlShutdown, IInv, TypeOK, Closing
      <3> HIDE DEF T
      <3>2. Ahead(Purge(tid[T]))  BY <3>1, <1>3, <1>5, PurgeEmpties
      <3> QED BY <3>1, <3>2, <1>4
    <2>2. ASSUME NEW T \in Tids, NEW ssn \in Sn, CtlAlloc(T, ssn)
          PROVE  \A t \in Tids : Ahead(tid'[t])
      <3> DEFINE s == [head |-> ssn, buf |-> [i \in Slots |-> Empty],
                       nframes |-> 0, started |-> FALSE, stopped |-> FALSE]
      <3>1. tid' = [tid EXCEPT ![T] = s]  BY <2>2 DEF CtlAlloc
      <3>2. Used(s) = {}  BY DEF Used
      <3> HIDE DEF s
      <3> QED BY <3>1, <3>2, <1>4, <1>5
    <2>3. CASE (\E start \in BOOLEAN : CtlUnpublish(start)) \/ CtlCancel \/ CtlSync
                 \/ CtlAllocFail
      BY <2>3, <1>1 DEF CtlUnpublish, CtlCancel, CtlSync, CtlAllocFail
    <2> QED BY <1>7, <2>1, <2>2, <2>3 DEF Ctl
  <1>8. CASE Tick
    <2> SUFFICES ASSUME NEW t \in Tids PROVE Ahead(tid'[t])  OBVIOUS
    <2> DEFINE old == [i \in Slots |-> Older(tid[t].buf[i])]
    <2>1. tid'[t] = [tid[t] EXCEPT !.buf = old]  BY <1>8 DEF Tick
    <2>2. ASSUME NEW f \in Frames \cup {Empty}
          PROVE  Older(f).sn = f.sn /\ (f = Empty => Older(f) = Empty)
      BY DEF Older, Frames, Empty
    <2>3. \A i \in Slots : /\ old[i].sn = tid[t].buf[i].sn
                           /\ tid[t].buf[i] = Empty => old[i] = Empty
      BY <1>2, <2>2 DEF Sessions
    <2> HIDE DEF old
    <2>4. tid'[t].buf = old /\ tid'[t].head = tid[t].head
      BY <2>1, <1>2 DEF Sessions
    <2> QED BY <2>3, <2>4, <1>1 DEF Ahead, Used
  <1>9. ASSUME NEW T \in Tids, Work(T) \/ Free(T)
        PROVE  \A t \in Tids : Ahead(tid'[t])
    <2>1. CASE WorkRelease(T)
      <3>1. tid' = [tid EXCEPT ![T] = CheckRelease(tid[T]).tid]
        BY <2>1 DEF WorkRelease
      <3>2. aggr = T \/ ctl.tid = T  BY <2>1 DEF WorkRelease, IInv, Works
      <3>3. tid[T] # Freed
        BY <3>2, NoTidAssumption DEF IInv, Published, Closing
      <3>4. Ahead(CheckRelease(tid[T]).tid)  BY <3>3, <1>1, <1>3, CheckReleaseAhead
      <3> QED BY <3>1, <3>4, <1>4
    <2>2. CASE WorkRequeue(T)  BY <2>2, <1>1 DEF WorkRequeue
    <2>3. CASE Free(T)
      BY <2>3, <1>4, <1>5, FreedType DEF Free
    <2> QED BY <1>9, <2>1, <2>2, <2>3 DEF Work
  <1>10. CASE UNCHANGED vars  BY <1>10, <1>1 DEF vars
  <1> QED BY <1>6, <1>7, <1>8, <1>9, <1>10 DEF Next

(* Where the window divides the number space (a power of two, and more     *)
(* than one frame), every buffered frame sits in its own slot strictly     *)
(* inside the window above the head, so each mt76_aggr_release takes the   *)
(* frame numbered head.  With any other size two numbers across the wrap   *)
(* can share a slot.                                                       *)
THEOREM WindowHolds ==
  ASSUME Size >= 2, SN % Size = 0
  PROVE  Spec => []WindowInv
  <1>1. Init => WindowInv
    BY FreedType DEF Init, WindowInv
  <1>2. IInv /\ WindowInv /\ [Next]_vars => WindowInv'
    BY NextAhead
  <1> QED BY <1>1, <1>2, Inductive, PTL DEF Spec

-----------------------------------------------------------------------------
(* What the locked sections hand up, in a behaviour.                       *)

LEMMA MovesInOrder ==
  ASSUME NEW t \in Sessions, NEW r \in Sessions, NEW list, Moves(t, r, list)
  PROVE  /\ 2 * Dist(r.head, t.head) <= SN
         /\ \A i \in DOMAIN list : Dist(list[i], t.head) < Dist(r.head, t.head)
         /\ \A i, j \in DOMAIN list : i < j =>
              Dist(list[i], t.head) < Dist(list[j], t.head)
  <1>1. PICK n \in Nat : /\ 2 * n <= SN /\ r.head = (t.head + n) % SN
                         /\ Sorted(list, t.head, 0, n)
    BY DEF Moves
  <1>2. t.head \in Sn /\ n \in 0 .. SN - 1  BY <1>1, Positive DEF Sessions
  <1>3. Dist(r.head, t.head) = n  BY <1>1, <1>2, DistUp
  <1>4. DOMAIN list = 1 .. Len(list)  BY <1>1 DEF Sorted
  <1> QED BY <1>1, <1>3, <1>4 DEF Sorted

(* A session that keeps its head does not move back.                       *)
LEMMA SameHead ==
  ASSUME NEW t \in Sessions, NEW r, r.head = t.head
  PROVE  2 * Dist(r.head, t.head) <= SN
  <1>1. t.head \in Sn  BY DEF Sessions
  <1>2. Dist(t.head, t.head) = 0  BY <1>1, DistIs, Positive DEF Sn
  <1> QED BY <1>2, Positive

(* One step of the system.                                                 *)
LEMMA StepInOrder ==
  ASSUME Size >= 2, SN % Size = 0, IInv, WindowInv, [Next]_vars
  PROVE  /\ napi.pc = "lock" /\ napi'.pc = "complete" =>
              Passing(napi.tid, napi.skb.sn) \/ InOrder(napi.tid, napi'.frames)
         /\ \A t \in Tids : work[t].pc = "idle" /\ work'[t].pc = "requeue" =>
              InOrder(t, work'[t].frames)
         /\ \A t \in Tids : tid[t] # Freed /\ tid'[t] # Freed =>
              2 * Dist(tid'[t].head, tid[t].head) <= SN
  <1> DEFINE Poll == napi.pc = "lock" /\ napi'.pc = "complete" =>
                Passing(napi.tid, napi.skb.sn) \/ InOrder(napi.tid, napi'.frames)
             Timer == \A t \in Tids : work[t].pc = "idle" /\ work'[t].pc = "requeue" =>
                InOrder(t, work'[t].frames)
             Forward == \A t \in Tids : tid[t] # Freed /\ tid'[t] # Freed =>
                2 * Dist(tid'[t].head, tid[t].head) <= SN
  <1> SUFFICES Poll /\ Timer /\ Forward  OBVIOUS
  <1>1. \A t \in Tids : Ahead(tid[t])  BY DEF WindowInv, Ahead
  <1>2. tid \in [Tids -> Sessions]  BY FreedType DEF IInv, TypeOK
  <1>3. \A t \in Tids : tid[t] # Freed => tid[t] \in Sessions /\ Counted(tid[t])
    BY <1>2 DEF IInv, Numbers
  <1>4. IInv'  BY NextPreserves
  <1>5. tid' \in [Tids -> Sessions]  BY <1>4, FreedType DEF IInv, TypeOK
  <1>6. ASSUME NEW T \in Tids, tid' = [tid EXCEPT ![T] = tid'[T]],
               tid[T] = Freed \/ tid'[T] = Freed
                 \/ 2 * Dist(tid'[T].head, tid[T].head) <= SN
        PROVE  Forward
    <2> SUFFICES ASSUME NEW t \in Tids, tid[t] # Freed, tid'[t] # Freed
                 PROVE  2 * Dist(tid'[t].head, tid[t].head) <= SN
      OBVIOUS
    <2>1. CASE t = T  BY <2>1, <1>6
    <2>2. CASE t # T
      <3>1. tid'[t] = tid[t]  BY <2>2, <1>2, <1>6
      <3> QED BY <3>1, <1>2, SameHead
    <2> QED BY <2>1, <2>2
  <1>7. ASSUME tid' = tid PROVE Forward
    BY <1>2, <1>7, SameHead
  <1>8. ASSUME NEW T \in Tids, NEW list, Moves(tid[T], tid'[T], list)
        PROVE  InOrder(T, list) /\ 2 * Dist(tid'[T].head, tid[T].head) <= SN
    <2>1. tid[T] \in Sessions /\ tid'[T] \in Sessions  BY <1>2, <1>5
    <2> QED BY <2>1, <1>8, MovesInOrder DEF InOrder
  <1>9. work \in [Tids -> WorkRecords]  BY DEF IInv, TypeOK, WorkRecords
  <1>10. ASSUME work' = work PROVE Timer
    BY <1>10
  <1>11. CASE NapiReorder
    <2> DEFINE T == napi.tid
               sn == napi.skb.sn
               r == Reorder(tid[T], sn)
    <2>1. T \in Tids /\ tid[T] # Freed
      BY <1>11 DEF IInv, TypeOK, Reading, NapiReorder
    <2>2. sn \in Sn  BY Positive DEF IInv, TypeOK, Inputs, NoFrame
    <2>3. tid' = [tid EXCEPT ![T] = r.tid] /\ napi'.frames = r.out
      BY <1>11 DEF NapiReorder, IInv, TypeOK
    <2>4. work' = IF r.queue THEN [work EXCEPT ![T] = Queue(@)] ELSE work
      BY <1>11 DEF NapiReorder
    <2> HIDE DEF T, sn, r
    <2>5. tid'[T] = r.tid  BY <2>1, <2>3, <1>2
    <2>6. \/ Passing(T, sn) /\ r.tid = tid[T]
          \/ Moves(tid[T], r.tid, r.out)
      BY <2>1, <2>2, <1>1, <1>3, ReorderMoves DEF Passing, r
    <2>7. Forward
      <3>1. CASE r.tid = tid[T]
        <4>1. tid' = tid  BY <3>1, <2>1, <2>3, <1>2
        <4> QED BY <4>1, <1>7
      <3>2. CASE Moves(tid[T], r.tid, r.out)
        <4>1. 2 * Dist(tid'[T].head, tid[T].head) <= SN  BY <3>2, <2>1, <2>5, <1>8
        <4> QED BY <4>1, <2>1, <2>3, <2>5, <1>6
      <3> QED BY <3>1, <3>2, <2>6
    <2>8. Passing(T, sn) \/ InOrder(T, r.out)  BY <2>1, <2>5, <2>6, <1>8
    <2>9. Poll  BY <2>3, <2>8 DEF T, sn
    <2>10. Timer
      <3> SUFFICES ASSUME NEW t \in Tids PROVE work'[t].pc = work[t].pc
        OBVIOUS
      <3>1. work[t] \in WorkRecords  BY <1>9
      <3>2. Queue(work[t]).pc = work[t].pc  BY <3>1 DEF Queue, WorkRecords
      <3> QED BY <3>2, <2>4, <1>9
    <2> QED BY <2>7, <2>9, <2>10
  <1>12. CASE NapiBar
    <2> DEFINE T == napi.tid
               sn == napi.skb.sn
               r == CheckCtl(tid[T], sn)
    <2>1. T \in Tids /\ tid[T] # Freed
      BY <1>12 DEF IInv, TypeOK, Reading, NapiBar
    <2>2. sn \in Sn  BY Positive DEF IInv, TypeOK, Inputs, NoFrame
    <2>3. tid' = [tid EXCEPT ![T] = r.tid] /\ napi'.frames = r.out /\ work' = work
      BY <1>12 DEF NapiBar, IInv, TypeOK
    <2> HIDE DEF T, sn, r
    <2>4. tid'[T] = r.tid  BY <2>1, <2>3, <1>2
    <2>5. Moves(tid[T], r.tid, r.out)
      BY <2>1, <2>2, <1>1, <1>3, AheadNear, CheckCtlMoves DEF r
    <2>6. InOrder(T, r.out) /\ 2 * Dist(tid'[T].head, tid[T].head) <= SN
      BY <2>1, <2>4, <2>5, <1>8
    <2>7. Forward  BY <2>1, <2>3, <2>4, <2>6, <1>6
    <2>8. Poll  BY <2>3, <2>6 DEF T
    <2> QED BY <2>3, <2>7, <2>8, <1>10
  <1>13. ASSUME NEW T \in Tids, WorkRelease(T)
         PROVE  Poll /\ Timer /\ Forward
    <2> DEFINE r == CheckRelease(tid[T])
    <2>1. tid' = [tid EXCEPT ![T] = r.tid] /\ napi' = napi
      BY <1>13 DEF WorkRelease
    <2>2. work' = [work EXCEPT ![T].pending = FALSE, ![T].pc = "requeue",
                         ![T].more = r.tid.nframes > 0, ![T].frames = r.out]
      BY <1>13 DEF WorkRelease
    <2>3. aggr = T \/ ctl.tid = T  BY <1>13 DEF WorkRelease, IInv, Works
    <2>4. tid[T] # Freed
      BY <2>3, NoTidAssumption DEF IInv, Published, Closing
    <2>5. Moves(tid[T], r.tid, r.out)  BY <2>4, <1>1, <1>3, CheckReleaseMoves
    <2> HIDE DEF r
    <2>6. tid'[T] = r.tid  BY <2>1, <1>2
    <2>7. InOrder(T, r.out) /\ 2 * Dist(tid'[T].head, tid[T].head) <= SN
      BY <2>5, <2>6, <1>8
    <2>8. Forward  BY <2>1, <2>6, <2>7, <1>6
    <2>9. work'[T].frames = r.out /\ \A t \in Tids : t # T => work'[t] = work[t]
      BY <2>2, <1>9 DEF WorkRecords
    <2>10. Timer
      <3> SUFFICES ASSUME NEW t \in Tids, work[t].pc = "idle", work'[t].pc = "requeue"
                   PROVE  InOrder(t, work'[t].frames)
        OBVIOUS
      <3>1. t = T  BY <2>9
      <3> QED BY <3>1, <2>7, <2>9
    <2>11. Poll  BY <2>1
    <2> QED BY <2>8, <2>10, <2>11
  <1>14. CASE (\E skb \in Inputs : NapiFetch(skb)) \/ NapiComplete
    <2>1. tid' = tid /\ work' = work /\ (napi.pc # "lock" \/ napi'.pc # "complete")
      BY <1>14 DEF NapiFetch, NapiComplete
    <2> QED BY <2>1, <1>7, <1>10
  <1>15. CASE (\E start \in BOOLEAN : CtlUnpublish(start)) \/ CtlAllocFail
    <2>1. tid' = tid /\ work' = work /\ napi' = napi
      BY <1>15 DEF CtlUnpublish, CtlAllocFail
    <2> QED BY <2>1, <1>7, <1>10
  <1>16. CASE CtlShutdown
    <2> DEFINE T == ctl.tid
    <2>1. /\ T \in Tids /\ tid' = [tid EXCEPT ![T] = Purge(tid[T])]
          /\ work' = work /\ napi' = napi
      BY <1>16 DEF CtlShutdown, IInv, TypeOK, Closing
    <2> HIDE DEF T
    <2>2. tid'[T] = Purge(tid[T])  BY <2>1, <1>2
    <2>3. Purge(tid[T]).head = tid[T].head  BY <2>1, <1>2 DEF Purge, Sessions
    <2>4. 2 * Dist(tid'[T].head, tid[T].head) <= SN
      BY <2>1, <2>2, <2>3, <1>2, SameHead
    <2>5. Forward  BY <2>1, <2>2, <2>4, <1>6
    <2> QED BY <2>1, <2>5, <1>10
  <1>17. CASE CtlCancel \/ CtlSync
    <2>1. tid' = tid /\ napi' = napi  BY <1>17 DEF CtlCancel, CtlSync
    <2>2. ASSUME NEW t \in Tids PROVE work'[t].pc = work[t].pc
      <3>1. work[t] \in WorkRecords  BY <1>9
      <3>2. CASE CtlCancel
        BY <3>1, <3>2, <1>9 DEF CtlCancel, WorkRecords
      <3>3. CASE CtlSync
        BY <3>1, <3>3, <1>9 DEF CtlSync, WorkRecords
      <3> QED BY <3>2, <3>3, <1>17
    <2> QED BY <2>1, <2>2, <1>7
  <1>18. ASSUME NEW T \in Tids, NEW ssn \in Sn, CtlAlloc(T, ssn)
         PROVE  Poll /\ Timer /\ Forward
    <2>1. tid[T] = Freed /\ napi' = napi /\ work' = work  BY <1>18 DEF CtlAlloc
    <2>2. tid' = [tid EXCEPT ![T] = tid'[T]]  BY <1>18, <1>2 DEF CtlAlloc
    <2> QED BY <2>1, <2>2, <1>6, <1>10
  <1>19. ASSUME NEW T \in Tids, WorkRequeue(T)
         PROVE  Poll /\ Timer /\ Forward
    <2>1. tid' = tid /\ napi' = napi  BY <1>19 DEF WorkRequeue
    <2>2. \A t \in Tids : work'[t].pc # "requeue" \/ work'[t] = work[t]
      BY <1>19, <1>9 DEF WorkRequeue, WorkRecords
    <2> QED BY <2>1, <2>2, <1>7
  <1>20. ASSUME NEW T \in Tids, Free(T)
         PROVE  Poll /\ Timer /\ Forward
    <2>1. tid' = [tid EXCEPT ![T] = Freed] /\ napi' = napi /\ work' = work
      BY <1>20 DEF Free
    <2>2. tid'[T] = Freed  BY <2>1, <1>2
    <2> QED BY <2>1, <2>2, <1>6, <1>10
  <1>21. CASE Tick
    <2>1. napi' = napi /\ work' = work  BY <1>21 DEF Tick
    <2>2. ASSUME NEW t \in Tids PROVE tid'[t].head = tid[t].head
      <3> DEFINE old == [i \in Slots |-> Older(tid[t].buf[i])]
      <3>1. tid'[t] = [tid[t] EXCEPT !.buf = old]  BY <1>21 DEF Tick
      <3> HIDE DEF old
      <3> QED BY <3>1, <1>2 DEF Sessions
    <2>3. Forward  BY <2>2, <1>2, SameHead
    <2> QED BY <2>1, <2>3, <1>10
  <1>22. CASE UNCHANGED vars
    BY <1>22, <1>7, <1>10 DEF vars
  <1> HIDE DEF Poll, Timer, Forward
  <1> QED
    BY <1>11, <1>12, <1>13, <1>14, <1>15, <1>16, <1>17, <1>18, <1>19, <1>20,
       <1>21, <1>22 DEF Next, Napi, Ctl, Work

(* Where the window divides the number space: every locked section hands   *)
(* its frames up in sequence order, none behind the head it finds and all  *)
(* behind the head it leaves, and no head moves back.                      *)
THEOREM OrderHolds ==
  ASSUME Size >= 2, SN % Size = 0
  PROVE  Spec => ReleaseInOrder
  <1>1. IInv /\ WindowInv /\ [Next]_vars =>
          [/\ napi.pc = "lock" /\ napi'.pc = "complete" =>
                Passing(napi.tid, napi.skb.sn) \/ InOrder(napi.tid, napi'.frames)
           /\ \A t \in Tids : work[t].pc = "idle" /\ work'[t].pc = "requeue" =>
                InOrder(t, work'[t].frames)
           /\ \A t \in Tids : tid[t] # Freed /\ tid'[t] # Freed =>
                2 * Dist(tid'[t].head, tid[t].head) <= SN]_vars
    BY StepInOrder
  <1> QED BY <1>1, Inductive, WindowHolds, PTL DEF Spec, ReleaseInOrder

(* One step of the poll with a frame that is not old.                      *)
LEMMA StepLoses ==
  ASSUME Size >= 2, SN % Size = 0, IInv, WindowInv, NapiReorder,
         ~SnLess(napi.skb.sn, tid[napi.tid].head)
  PROVE  \/ \E i \in DOMAIN napi'.frames : napi'.frames[i] = napi.skb.sn
         \/ napi.skb.sn \in Held(tid'[napi.tid])
         \/ napi.skb.sn \in Held(tid[napi.tid])
  <1> DEFINE T == napi.tid
             sn == napi.skb.sn
             r == Reorder(tid[T], sn)
  <1>1. T \in Tids /\ tid[T] # Freed
    BY DEF IInv, TypeOK, Reading, NapiReorder
  <1>2. sn \in Sn  BY Positive DEF IInv, TypeOK, Inputs, NoFrame
  <1>3. tid \in [Tids -> Sessions]  BY FreedType DEF IInv, TypeOK
  <1>4. Ahead(tid[T])  BY <1>1 DEF WindowInv, Ahead
  <1>5. Counted(tid[T])  BY <1>1 DEF IInv, Numbers
  <1>6. tid' = [tid EXCEPT ![T] = r.tid] /\ napi'.frames = r.out
    BY DEF NapiReorder, IInv, TypeOK
  <1> HIDE DEF r
  <1>7. tid'[T] = r.tid  BY <1>1, <1>3, <1>6
  <1>8. r.out \in Seq(Sn)  BY <1>1, <1>2, <1>3, <1>5, ReorderKept DEF r
  <1>9. \/ \E i \in 1 .. Len(r.out) : r.out[i] = sn
        \/ sn \in Held(r.tid) \/ sn \in Held(tid[T])
    BY <1>1, <1>2, <1>3, <1>4, <1>5, ReorderLoses DEF r
  <1>10. DOMAIN r.out = 1 .. Len(r.out)  BY <1>8
  <1> QED BY <1>6, <1>7, <1>9, <1>10

(* Where the window divides the number space: a data frame that is not old *)
(* is handed up or left in the buffer, or its number was there before.     *)
THEOREM LossHolds ==
  ASSUME Size >= 2, SN % Size = 0
  PROVE  Spec => LossOnlyDuplicates
  <1>1. IInv /\ WindowInv /\ [Next]_vars =>
          [NapiReorder /\ ~SnLess(napi.skb.sn, tid[napi.tid].head) =>
             LET sns(t) == {t.buf[i].sn : i \in Used(t)}
             IN  \/ \E i \in DOMAIN napi'.frames : napi'.frames[i] = napi.skb.sn
                 \/ napi.skb.sn \in sns(tid'[napi.tid])
                 \/ napi.skb.sn \in sns(tid[napi.tid])]_vars
    BY StepLoses DEF Held
  <1> QED BY <1>1, Inductive, WindowHolds, PTL DEF Spec, LossOnlyDuplicates
=============================================================================
