--------------------------- MODULE BufferPoolProofs ---------------------------
(***************************************************************************)
(* Proofs about BufferPool for every number of pages and of frames.        *)
(*                                                                         *)
(* IInv is inductive.  The properties lean on each other: the list is long *)
(* enough for all pages on it because they are in different frames; a      *)
(* victim can be thrown away because nobody pins it, which makes it clean  *)
(* or dirty and not in the middle of a write; and it is not pinned because *)
(* the pool's pin counts are the callers' pins (PinsAreHeld).              *)
(***************************************************************************)
EXTENDS BufferPool, FiniteFacts, SequenceTheorems, TLAPS

\* Every pin of a page in the pool is held by a caller, and callers hold no
\* pin of a page that is not there.
PinsAreHeld ==
    \A p \in PageId : held[p] = IF Cached(p) THEN InFrame(p).pins ELSE 0

\* Who has still to report a write has not unpinned the page.
WritersHold == \A p \in wrote : held[p] > 0

IInv ==
    /\ TypeOK
    /\ PageTableMatchesFrames
    /\ PinsAreHeld
    /\ WritersHold
    /\ UnpinnedIsEvictable
    /\ NoWriteLost

-----------------------------------------------------------------------------
(* The LRU list *)

\* Erasing takes one page off a list that has no page twice.
LEMMA ErasedProperties ==
    ASSUME NEW l \in Seq(PageId), IsInjective(l), NEW p \in PageId
    PROVE  /\ Erased(l, p) \in Seq(PageId)
           /\ IsInjective(Erased(l, p))
           /\ ToSet(Erased(l, p)) = ToSet(l) \ {p}
<1>0. Len(l) \in Nat /\ DOMAIN l = 1..Len(l) /\ \A i \in 1..Len(l) : l[i] \in PageId
  OBVIOUS
<1>1. CASE p \notin ToSet(l)
  BY <1>1 DEF Erased
<1>2. CASE p \in ToSet(l)
  <2> DEFINE k == CHOOSE i \in 1..Len(l) : l[i] = p
             a == SubSeq(l, 1, k - 1)
             b == SubSeq(l, k + 1, Len(l))
  <2>1. k \in 1..Len(l) /\ l[k] = p
    BY <1>0, <1>2 DEF ToSet
  <2>2. Erased(l, p) = a \o b
    BY <1>2 DEF Erased, RemoveAt
  <2> HIDE DEF k
  <2>3. a \in Seq(PageId) /\ Len(a) = k - 1 /\ \A i \in 1..(k - 1) : a[i] = l[i]
    BY <1>0, <2>1, SubSeqProperties
  <2>4. /\ b \in Seq(PageId)
        /\ Len(b) = Len(l) - k
        /\ \A i \in 1..(Len(l) - k) : b[i] = l[k + i]
    <3>1. k + 1 \in Int /\ Len(l) \in Int /\ \A i \in (k + 1)..Len(l) : l[i] \in PageId
      BY <1>0, <2>1
    <3>2. /\ b \in Seq(PageId)
          /\ Len(b) = IF k + 1 <= Len(l) THEN Len(l) - (k + 1) + 1 ELSE 0
          /\ \A i \in 1..(Len(l) - (k + 1) + 1) : b[i] = l[k + 1 + i - 1]
      BY <3>1, SubSeqProperties
    <3>3. Len(l) - (k + 1) + 1 = Len(l) - k /\ \A i \in 1..(Len(l) - k) : k + 1 + i - 1 = k + i
      BY <1>0, <2>1
    <3> HIDE DEF b
    <3>4. Len(b) = Len(l) - k
      <4>1. k \in Nat /\ Len(l) \in Nat /\ k <= Len(l)
        BY <1>0, <2>1
      <4>2. Len(b) = IF k + 1 <= Len(l) THEN Len(l) - (k + 1) + 1 ELSE 0
        BY <3>2
      <4> QED
        BY <4>1, <4>2
    <3>5. \A i \in 1..(Len(l) - k) : b[i] = l[k + i]
      BY <3>2, <3>3
    <3> QED
      BY <3>2, <3>4, <3>5
  <2> DEFINE e == a \o b
  <2> HIDE DEF a, b
  <2>5. /\ e \in Seq(PageId)
        /\ Len(e) = Len(l) - 1
        /\ \A i \in 1..(Len(l) - 1) : e[i] = IF i < k THEN l[i] ELSE l[i + 1]
    <3>1. e \in Seq(PageId) /\ Len(e) = Len(a) + Len(b) /\ Len(a) + Len(b) = Len(l) - 1
      <4>1. e \in Seq(PageId) /\ Len(e) = Len(a) + Len(b)
        BY <2>3, <2>4, ConcatProperties
      <4>2. Len(a) + Len(b) = Len(l) - 1
        BY <1>0, <2>1, <2>3, <2>4
      <4> QED
        BY <4>1, <4>2
    <3>2. ASSUME NEW i \in 1..(Len(l) - 1)
          PROVE  e[i] = IF i < k THEN l[i] ELSE l[i + 1]
      <4>1. e[i] = IF i <= Len(a) THEN a[i] ELSE b[i - Len(a)]
        <5>1. i \in 1..(Len(a) + Len(b))
          BY <3>1
        <5> QED
          BY <2>3, <2>4, <5>1, ConcatProperties
      <4>2. CASE i < k
        BY <1>0, <2>1, <2>3, <4>1, <4>2
      <4>3. CASE ~ (i < k)
        <5>1. i - Len(a) \in 1..(Len(l) - k) /\ k + (i - Len(a)) = i + 1 /\ ~ (i <= Len(a))
          BY <1>0, <2>1, <2>3, <4>3
        <5> QED
          BY <2>4, <4>1, <4>3, <5>1
      <4> QED
        BY <4>2, <4>3
    <3> QED
      BY <3>1, <3>2
  <2> HIDE DEF e
  <2>6. DOMAIN e = 1..(Len(l) - 1)
    BY <2>5
  <2>7. IsInjective(e)
    <3>1. SUFFICES ASSUME NEW i \in 1..(Len(l) - 1), NEW j \in 1..(Len(l) - 1), e[i] = e[j]
                   PROVE  i = j
      BY <2>6 DEF IsInjective
    <3>2. \A x, y \in 1..Len(l) : l[x] = l[y] => x = y
      BY <1>0 DEF IsInjective
    <3> QED
      BY <1>0, <2>1, <2>5, <3>1, <3>2
  <2>8. ToSet(e) = ToSet(l) \ {p}
    <3>1. \A i \in 1..(Len(l) - 1) : e[i] \in ToSet(l) /\ e[i] # p
      <4>1. \A x, y \in 1..Len(l) : l[x] = l[y] => x = y
        BY <1>0 DEF IsInjective
      <4>2. \A x \in 1..Len(l) : l[x] \in ToSet(l)
        BY <1>0 DEF ToSet
      <4> QED
        BY <1>0, <2>1, <2>5, <4>1, <4>2
    <3>2. ASSUME NEW i \in 1..Len(l), l[i] # p
          PROVE  \E j \in 1..(Len(l) - 1) : e[j] = l[i]
      <4>1. CASE i < k
        BY <1>0, <2>1, <2>5, <4>1
      <4>2. CASE i > k
        <5>1. i - 1 \in 1..(Len(l) - 1) /\ ~ (i - 1 < k) /\ (i - 1) + 1 = i
          BY <1>0, <2>1, <4>2
        <5> QED
          BY <2>5, <5>1
      <4> QED
        BY <1>0, <2>1, <3>2, <4>1, <4>2
    <3>3. ToSet(e) \subseteq ToSet(l) \ {p}
      BY <2>6, <3>1 DEF ToSet
    <3>4. ASSUME NEW q \in ToSet(l) \ {p} PROVE q \in ToSet(e)
      <4>1. PICK i \in 1..Len(l) : l[i] = q /\ q # p
        BY <1>0 DEF ToSet
      <4>2. PICK j \in 1..(Len(l) - 1) : e[j] = q
        BY <3>2, <4>1
      <4> QED
        BY <2>6, <4>2 DEF ToSet
    <3> QED
      BY <3>3, <3>4
  <2> QED
    BY <2>2, <2>5, <2>7, <2>8 DEF e
<1> QED
  BY <1>1, <1>2

\* A list without repetitions is not longer than the set it is drawn from.
LEMMA ListFits ==
    ASSUME NEW l \in Seq(PageId), IsInjective(l), NEW S, IsFiniteSet(S), ToSet(l) \subseteq S
    PROVE  Len(l) <= Cardinality(S)
<1>1. Len(l) \in Nat /\ DOMAIN l = 1..Len(l)
  OBVIOUS
<1>2. \A i \in 1..Len(l) : l[i] \in S
  BY <1>1 DEF ToSet
<1>3. l \in Injection(1..Len(l), S)
  BY <1>1, <1>2 DEF Injection
<1>4. Cardinality(1..Len(l)) = Len(l)
  <2> DEFINE n == Len(l)
  <2>1. n \in Nat /\ n \in Int /\ 1 \in Int
    BY <1>1
  <2> HIDE DEF n
  <2>2. Cardinality(1..n) = IF 1 > n THEN 0 ELSE n - 1 + 1
    BY <2>1, FS_Interval
  <2>3. (IF 1 > n THEN 0 ELSE n - 1 + 1) = n
    BY <2>1
  <2> QED
    BY <2>2, <2>3 DEF n
<1> QED
  BY <1>3, <1>4, FS_Injection

\* access puts a page in front; a list that fits in the pool loses nobody.
LEMMA AccessedProperties ==
    ASSUME NEW l \in Seq(PageId), IsInjective(l), NEW p \in PageId,
           NEW S, IsFiniteSet(S), Cardinality(S) <= PoolSize, ToSet(l) \cup {p} \subseteq S
    PROVE  /\ Accessed(l, p) \in Seq(PageId)
           /\ IsInjective(Accessed(l, p))
           /\ ToSet(Accessed(l, p)) = ToSet(l) \cup {p}
<1> DEFINE e == Erased(l, p)
           moved == <<p>> \o e
<1>1. e \in Seq(PageId) /\ IsInjective(e) /\ ToSet(e) = ToSet(l) \ {p}
  BY ErasedProperties
<1> HIDE DEF e
<1>2. <<p>> \in Seq(PageId) /\ Len(<<p>>) = 1 /\ <<p>>[1] = p
  OBVIOUS
<1>3. /\ moved \in Seq(PageId)
      /\ Len(moved) = 1 + Len(e)
      /\ moved[1] = p
      /\ \A i \in 2..(1 + Len(e)) : moved[i] = e[i - 1]
  BY <1>1, <1>2, ConcatProperties
<1> HIDE DEF moved
<1>4. DOMAIN moved = 1..(1 + Len(e)) /\ DOMAIN e = 1..Len(e) /\ Len(e) \in Nat
  BY <1>1, <1>3
<1>5. IsInjective(moved)
  <2>1. \A i \in 1..Len(e) : e[i] # p
    BY <1>1, <1>4 DEF ToSet
  <2>2. \A i \in 2..(1 + Len(e)) : i - 1 \in 1..Len(e)
    BY <1>4
  <2>3. \A i, j \in 1..Len(e) : e[i] = e[j] => i = j
    BY <1>1, <1>4 DEF IsInjective
  <2>4. SUFFICES ASSUME NEW i \in 1..(1 + Len(e)), NEW j \in 1..(1 + Len(e)), moved[i] = moved[j]
                 PROVE  i = j
    BY <1>4 DEF IsInjective
  <2>5. CASE i = 1
    BY <1>3, <1>4, <2>1, <2>2, <2>4, <2>5
  <2>6. CASE j = 1
    BY <1>3, <1>4, <2>1, <2>2, <2>4, <2>6
  <2>7. CASE i # 1 /\ j # 1
    <3>1. i - 1 \in 1..Len(e) /\ j - 1 \in 1..Len(e) /\ e[i - 1] = e[j - 1]
      BY <1>3, <1>4, <2>4, <2>7
    <3> QED
      BY <2>3, <2>4, <3>1
  <2> QED
    BY <2>5, <2>6, <2>7
<1>6. ToSet(moved) = ToSet(l) \cup {p}
  <2>1. ToSet(moved) = {p} \cup ToSet(e)
    <3>1. ASSUME NEW i \in DOMAIN moved PROVE moved[i] \in {p} \cup ToSet(e)
      <4>1. CASE i = 1
        BY <1>3, <4>1
      <4>2. CASE i # 1
        <5>1. i \in 2..(1 + Len(e)) /\ i - 1 \in DOMAIN e
          BY <1>4, <4>2
        <5> QED
          BY <1>3, <5>1 DEF ToSet
      <4> QED
        BY <4>1, <4>2
    <3>2. ASSUME NEW i \in DOMAIN e PROVE e[i] \in ToSet(moved)
      <4>1. i + 1 \in 2..(1 + Len(e)) /\ i + 1 \in DOMAIN moved /\ (i + 1) - 1 = i
        BY <1>4
      <4> QED
        BY <1>3, <4>1 DEF ToSet
    <3>3. p \in ToSet(moved)
      BY <1>3, <1>4 DEF ToSet
    <3> QED
      BY <3>1, <3>2, <3>3 DEF ToSet
  <2> QED
    BY <1>1, <2>1
<1>7. Len(moved) <= PoolSize
  <2>1. Len(moved) <= Cardinality(S)
    BY <1>3, <1>5, <1>6, ListFits
  <2>2. Len(moved) \in Nat /\ Cardinality(S) \in Nat /\ PoolSize \in Nat
    BY <1>3, <1>4, FS_CardinalityType, SizesAssumption
  <2> QED
    BY <2>1, <2>2
<1>8. Accessed(l, p) = moved
  <2>1. Len(moved) \in Nat /\ PoolSize \in Nat
    BY <1>3, <1>4, SizesAssumption
  <2> QED
    BY <1>7, <2>1 DEF Accessed, moved, e
<1> QED
  BY <1>3, <1>5, <1>6, <1>8

\* push moves a page to the back.
LEMMA PushedProperties ==
    ASSUME NEW l \in Seq(PageId), IsInjective(l), NEW p \in PageId
    PROVE  /\ Pushed(l, p) \in Seq(PageId)
           /\ IsInjective(Pushed(l, p))
           /\ ToSet(Pushed(l, p)) = ToSet(l) \cup {p}
<1> DEFINE e == Erased(l, p)
           moved == Append(e, p)
<1>1. e \in Seq(PageId) /\ IsInjective(e) /\ ToSet(e) = ToSet(l) \ {p}
  BY ErasedProperties
<1> HIDE DEF e
<1>2. /\ moved \in Seq(PageId)
      /\ Len(moved) = Len(e) + 1
      /\ moved[Len(e) + 1] = p
      /\ \A i \in 1..Len(e) : moved[i] = e[i]
  BY <1>1, AppendProperties
<1> HIDE DEF moved
<1>3. DOMAIN moved = 1..(Len(e) + 1) /\ DOMAIN e = 1..Len(e) /\ Len(e) \in Nat
  BY <1>1, <1>2
<1>4. \A i \in 1..Len(e) : e[i] # p
  BY <1>1, <1>3 DEF ToSet
<1>5. IsInjective(moved)
  BY <1>1, <1>2, <1>3, <1>4 DEF IsInjective
<1>6. ToSet(moved) = ToSet(e) \cup {p}
  BY <1>2, <1>3 DEF ToSet
<1> QED
  BY <1>1, <1>2, <1>5, <1>6 DEF Pushed, moved, e

-----------------------------------------------------------------------------
(* Frames and victims *)

\* Frame and page numbers are natural numbers, None is neither.
LEMMA Numbers ==
    /\ PageId \subseteq Nat /\ None \notin PageId /\ None \in Int
    /\ FrameId \subseteq Nat /\ None \notin FrameId
    /\ IsFiniteSet(PageId) /\ IsFiniteSet(FrameId) /\ Cardinality(FrameId) = PoolSize
    /\ 0 \in PageId
<1>1. NumPages \in Nat \ {0} /\ PoolSize \in Nat \ {0}
  BY SizesAssumption
<1>2. IsFiniteSet(0..(NumPages - 1)) /\ IsFiniteSet(0..(PoolSize - 1))
  BY <1>1, FS_Interval
<1>3. Cardinality(0..(PoolSize - 1)) = PoolSize
  BY <1>1, FS_Interval
<1> QED
  BY <1>1, <1>2, <1>3 DEF PageId, FrameId, None

\* The cached pages are no more than the frames.
LEMMA CachedFit ==
    ASSUME NEW pt \in [PageId -> FrameId \cup {None}],
           \A p, q \in PageId : pt[p] # None /\ pt[p] = pt[q] => p = q
    PROVE  LET S == {p \in PageId : pt[p] # None}
           IN  IsFiniteSet(S) /\ Cardinality(S) <= PoolSize
<1> DEFINE S == {p \in PageId : pt[p] # None}
           home == [p \in S |-> pt[p]]
<1>1. home \in [S -> FrameId]
  OBVIOUS
<1>2. IsInjective(home)
  BY DEF IsInjective
<1>3. home \in Injection(S, FrameId)
  BY <1>1, <1>2 DEF Injection
<1> HIDE DEF S, home
<1>4. IsFiniteSet(S) /\ Cardinality(S) <= PoolSize
  BY <1>3, Numbers, FS_Injection
<1> QED
  BY <1>4 DEF S

\* Two cached pages are in different frames.
LEMMA FramesDiffer ==
    ASSUME TypeOK, PageTableMatchesFrames
    PROVE  \A p, q \in PageId : pageTable[p] # None /\ pageTable[p] = pageTable[q] => p = q
<1>1. SUFFICES ASSUME NEW p \in PageId, NEW q \in PageId,
                      pageTable[p] # None, pageTable[p] = pageTable[q]
               PROVE  p = q
  OBVIOUS
<1>2. pageTable[p] \in FrameId
  BY <1>1 DEF TypeOK
<1>3. frames[pageTable[p]].id = p /\ frames[pageTable[p]].id = q
  BY <1>1, <1>2 DEF PageTableMatchesFrames
<1> QED
  BY <1>3

\* The search finds an unpinned page if there is one, and leaves all the
\* other unpinned pages on the list.
LEMMA SearchProperties ==
    ASSUME IInv, ~crashed
    PROVE  /\ Victim # None => Victim \in ToSet(lru) /\ InFrame(Victim).pins = 0
           /\ LruAfterSearch \in Seq(PageId)
           /\ IsInjective(LruAfterSearch)
           /\ ToSet(LruAfterSearch) \subseteq ToSet(lru) \ {Victim}
           /\ \A q \in ToSet(lru) : InFrame(q).pins = 0 =>
                 q = Victim \/ q \in ToSet(LruAfterSearch)
<1>1. /\ lru \in Seq(PageId) /\ IsInjective(lru)
      /\ Len(lru) \in Nat /\ DOMAIN lru = 1..Len(lru)
      /\ \A i \in 1..Len(lru) : lru[i] \in PageId
  BY DEF IInv, TypeOK, UnpinnedIsEvictable
<1>2. ToSet(lru) = {lru[i] : i \in 1..Len(lru)}
  BY <1>1 DEF ToSet
<1> DEFINE U == UnpinnedPositions
<1>3. U = {i \in 1..Len(lru) : InFrame(lru[i]).pins = 0}
  BY DEF UnpinnedPositions
<1>4. CASE U = {}
  <2>1. VictimPosition = 0 /\ Victim = None /\ LruAfterSearch = <<>>
    BY <1>4 DEF VictimPosition, Victim, LruAfterSearch
  <2>2. IsInjective(<<>>) /\ ToSet(<<>>) = {}
    BY DEF IsInjective, ToSet
  <2> QED
    BY <1>2, <1>3, <1>4, <2>1, <2>2
<1>5. CASE U # {}
  <2> DEFINE k == VictimPosition
  <2>1. k \in U /\ \A j \in U : j <= k
    <3>1. U \in SUBSET Nat /\ U \subseteq 1..Len(lru)
      BY <1>1, <1>3
    <3>2. IsFiniteSet(U)
      <4>1. IsFiniteSet(1..Len(lru))
        BY <1>1, FS_Interval
      <4>2. U \in SUBSET (1..Len(lru))
        BY <3>1
      <4> HIDE DEF U
      <4> QED
        BY <4>1, <4>2, FS_Subset
    <3>3. \E i \in U : \A j \in U : i >= j
      BY <1>5, <3>1, <3>2, GreatestElement
    <3>4. \E i \in U : \A j \in U : j <= i
      BY <3>1, <3>3
    <3> QED
      BY <1>5, <3>4 DEF VictimPosition
  <2> HIDE DEF k
  <2>2. k \in 1..Len(lru) /\ k # 0 /\ InFrame(lru[k]).pins = 0
    BY <1>1, <1>3, <2>1
  <2>3. Victim = lru[k] /\ LruAfterSearch = SubSeq(lru, 1, k - 1)
    BY <2>2 DEF Victim, LruAfterSearch, k
  <2> DEFINE l == SubSeq(lru, 1, k - 1)
  <2>4. l \in Seq(PageId) /\ Len(l) = k - 1 /\ \A i \in 1..(k - 1) : l[i] = lru[i]
    BY <1>1, <2>2, SubSeqProperties
  <2> HIDE DEF l
  <2>5. DOMAIN l = 1..(k - 1)
    BY <2>4
  <2>6. IsInjective(l)
    BY <1>1, <2>2, <2>4, <2>5 DEF IsInjective
  <2>7. ToSet(l) \subseteq ToSet(lru) \ {lru[k]}
    <3>1. \A i \in 1..(k - 1) : i \in 1..Len(lru) /\ i # k
      BY <1>1, <2>2
    <3>2. \A i \in 1..(k - 1) : lru[i] \in ToSet(lru) /\ lru[i] # lru[k]
      BY <1>1, <1>2, <2>2, <3>1 DEF IsInjective
    <3> QED
      BY <2>4, <2>5, <3>2 DEF ToSet
  <2>8. ASSUME NEW q \in ToSet(lru), InFrame(q).pins = 0
        PROVE  q = lru[k] \/ q \in ToSet(l)
    <3>1. PICK i \in 1..Len(lru) : lru[i] = q
      BY <1>2
    <3>2. i \in U /\ i <= k
      BY <1>3, <2>1, <2>8, <3>1
    <3>3. CASE i = k
      BY <3>1, <3>3
    <3>4. CASE i # k
      <4>1. i \in 1..(k - 1)
        BY <1>1, <2>2, <3>2, <3>4
      <4> QED
        BY <2>4, <2>5, <3>1, <4>1 DEF ToSet
    <3> QED
      BY <3>3, <3>4
  <2>9. Victim \in ToSet(lru)
    BY <1>2, <2>2, <2>3
  <2> QED
    BY <2>2, <2>3, <2>4, <2>6, <2>7, <2>8, <2>9 DEF l
<1> QED
  BY <1>4, <1>5

\* The frame a miss loads into holds the victim or nobody.
LEMMA TargetProperties ==
    ASSUME IInv, ~crashed, TargetFrame # None
    PROVE  /\ TargetFrame \in FrameId
           /\ Victim # None => Victim \in PageId /\ pageTable[Victim] = TargetFrame
           /\ \A p \in PageId : pageTable[p] = TargetFrame <=> p = Victim
<1>0. TypeOK /\ PageTableMatchesFrames
  BY DEF IInv
<1>1. CASE Victim # None
  <2>1. Victim \in PageId /\ pageTable[Victim] # None
    <3>1. \A p \in ToSet(lru) : Cached(p)
      BY DEF IInv, UnpinnedIsEvictable
    <3>2. ToSet(lru) \subseteq PageId
      BY <1>0 DEF TypeOK, ToSet
    <3> QED
      BY <1>1, <3>1, <3>2, SearchProperties DEF Cached
  <2>2. TargetFrame = pageTable[Victim]
    BY <1>1 DEF TargetFrame
  <2>3. pageTable[Victim] \in FrameId
    BY <1>0, <2>1 DEF TypeOK
  <2> QED
    BY <1>0, <1>1, <2>1, <2>2, <2>3, FramesDiffer
<1>2. CASE Victim = None
  <2>1. FreeFrames # {} /\ FreeFrames \in SUBSET Nat /\ FreeFrames \subseteq FrameId
    BY <1>2, Numbers DEF TargetFrame, FreeFrames
  <2>2. \E f \in FreeFrames : \A g \in FreeFrames : f <= g
    BY <2>1, LeastElement
  <2>3. TargetFrame \in FreeFrames
    BY <1>2, <2>1, <2>2 DEF TargetFrame
  <2>4. TargetFrame \in FrameId /\ frames[TargetFrame].id = None
    BY <2>1, <2>3 DEF FreeFrames
  <2>5. \A p \in PageId : pageTable[p] # TargetFrame /\ p # None
    BY <1>0, <2>4, Numbers DEF PageTableMatchesFrames
  <2> QED
    BY <1>2, <2>4, <2>5
<1> QED
  BY <1>1, <1>2

-----------------------------------------------------------------------------
(* The actions keep the invariant *)

\* An empty pool over the file is in order.
LEMMA InitIInv == Init => IInv
<1> SUFFICES ASSUME Init PROVE IInv
  OBVIOUS
<1> USE Numbers DEF Init
<1>1. Fresh(0) \in Content /\ \A p \in PageId : Fresh(p) \in Content
  BY SizesAssumption DEF Fresh, Content
<1>2. TypeOK
  BY <1>1, SizesAssumption DEF TypeOK, FrameState
<1>3. PageTableMatchesFrames
  BY DEF PageTableMatchesFrames
<1>4. PinsAreHeld /\ WritersHold /\ NoWriteLost
  BY DEF PinsAreHeld, WritersHold, NoWriteLost, Cached
<1>5. UnpinnedIsEvictable
  BY DEF UnpinnedIsEvictable, Cached, ToSet, IsInjective
<1> QED
  BY <1>2, <1>3, <1>4, <1>5 DEF IInv

\* What the invariant says of a cached page.
LEMMA CachedFacts ==
    ASSUME IInv, NEW p \in PageId, pageTable[p] # None
    PROVE  /\ pageTable[p] \in FrameId
           /\ frames[pageTable[p]].id = p
           /\ frames[pageTable[p]].pins = held[p]
           /\ frames[pageTable[p]] \in FrameState
           /\ \A q \in PageId : pageTable[q] = pageTable[p] => q = p
<1>0. TypeOK /\ PageTableMatchesFrames /\ PinsAreHeld
  BY DEF IInv
<1>1. pageTable[p] \in FrameId
  BY <1>0 DEF TypeOK
<1>2. frames[pageTable[p]].id = p /\ frames[pageTable[p]].pins = held[p]
  BY <1>0, <1>1 DEF PageTableMatchesFrames, PinsAreHeld, Cached, InFrame
<1>3. frames[pageTable[p]] \in FrameState
  BY <1>0, <1>1 DEF TypeOK
<1>4. \A q \in PageId : pageTable[q] = pageTable[p] => q = p
  BY <1>0, FramesDiffer
<1> QED
  BY <1>1, <1>2, <1>3, <1>4

\* Who holds a pin holds it on a cached page.
LEMMA HeldIsCached ==
    ASSUME IInv, NEW p \in PageId, held[p] > 0
    PROVE  pageTable[p] # None
<1>1. held[p] = 0 \/ pageTable[p] # None
  BY DEF IInv, PinsAreHeld, Cached
<1> QED
  BY <1>1

\* The LRU list while the process lives.
LEMMA ListFacts ==
    ASSUME IInv, ~crashed
    PROVE  /\ lru \in Seq(PageId) /\ IsInjective(lru)
           /\ ToSet(lru) \subseteq {p \in PageId : pageTable[p] # None}
           /\ \A p \in PageId :
                 pageTable[p] # None /\ frames[pageTable[p]].pins = 0 => p \in ToSet(lru)
<1>1. lru \in Seq(PageId) /\ UnpinnedIsEvictable
  BY DEF IInv, TypeOK
<1>2. ToSet(lru) \subseteq PageId
  BY <1>1 DEF ToSet
<1> QED
  BY <1>1, <1>2 DEF UnpinnedIsEvictable, Cached, InFrame

\* fetchPage on a cached page keeps the invariant.
LEMMA FetchHitIInv ==
    ASSUME IInv, NEW p \in PageId, FetchHit(p)
    PROVE  IInv'
<1> USE DEF FetchHit
<1> DEFINE f == pageTable[p]
<1>0. TypeOK /\ PinsAreHeld /\ WritersHold /\ NoWriteLost /\ PageTableMatchesFrames
  BY DEF IInv
<1>1. /\ f \in FrameId /\ frames[f].pins = held[p] /\ frames[f] \in FrameState
      /\ \A q \in PageId : pageTable[q] = f => q = p
  BY CachedFacts
<1>2. f # None /\ pageTable' = pageTable /\ ~crashed /\ ~crashed'
  OBVIOUS
<1>3. held[p] \in 0..MaxPins /\ held[p] + 1 \in 0..MaxPins /\ held[p] + 1 # 0
  BY <1>0, SizesAssumption DEF TypeOK
<1>4. frames' = [frames EXCEPT ![f] = [frames[f] EXCEPT !.pins = held[p] + 1]]
  BY <1>0, <1>1 DEF TypeOK
<1> DEFINE x == [frames[f] EXCEPT !.pins = held[p] + 1]
<1>5. /\ x \in FrameState /\ x.id = frames[f].id /\ x.dirty = frames[f].dirty
      /\ x.data = frames[f].data /\ x.pins = held[p] + 1
  BY <1>1, <1>3 DEF FrameState
<1> HIDE DEF x
<1>6. frames' \in [FrameId -> FrameState] /\ frames'[f] = x
      /\ \A g \in FrameId : g # f => frames'[g] = frames[g]
  BY <1>0, <1>1, <1>4, <1>5 DEF TypeOK, x
<1> DEFINE S == {q \in PageId : pageTable[q] # None}
<1>7. lru' \in Seq(PageId) /\ IsInjective(lru') /\ ToSet(lru') = ToSet(lru) \cup {p}
  <2>1. IsFiniteSet(S) /\ Cardinality(S) <= PoolSize
    BY <1>0, CachedFit, FramesDiffer DEF TypeOK
  <2>2. ToSet(lru) \cup {p} \subseteq S
    BY <1>2, ListFacts
  <2>3. lru \in Seq(PageId) /\ IsInjective(lru)
    BY ListFacts
  <2> HIDE DEF S
  <2> QED
    BY <2>1, <2>2, <2>3, AccessedProperties
<1> HIDE DEF f, FetchHit
<1>8. held' = [held EXCEPT ![p] = held[p] + 1]
      /\ UNCHANGED <<pageTable, disk, latest, wrote, misplaced, crashed>>
  BY <1>0 DEF FetchHit, TypeOK
<1>9. TypeOK'
  BY <1>0, <1>3, <1>6, <1>7, <1>8 DEF TypeOK
<1>10. PageTableMatchesFrames'
  BY <1>0, <1>5, <1>6, <1>8 DEF PageTableMatchesFrames
<1>11. \A q \in PageId : q # p /\ pageTable[q] # None =>
          frames'[pageTable[q]] = frames[pageTable[q]]
  BY <1>0, <1>1, <1>6 DEF TypeOK
<1>12. PinsAreHeld'
  BY <1>0, <1>2, <1>5, <1>6, <1>8, <1>11 DEF PinsAreHeld, Cached, InFrame, f, TypeOK
<1>13. WritersHold'
  BY <1>0, <1>3, <1>8 DEF WritersHold, TypeOK
<1>14. UnpinnedIsEvictable'
  BY <1>2, <1>3, <1>5, <1>6, <1>7, <1>8, <1>11, ListFacts DEF UnpinnedIsEvictable, Cached, InFrame, f
<1>15. NoWriteLost'
  BY <1>0, <1>2, <1>5, <1>6, <1>8, <1>11 DEF NoWriteLost, Cached, InFrame, f
<1> QED
  BY <1>9, <1>10, <1>12, <1>13, <1>14, <1>15 DEF IInv

\* fetchPage on another page keeps the invariant: the victim leaves, and it
\* was pinned by nobody.
LEMMA FetchMissIInv ==
    ASSUME IInv, NEW p \in PageId, FetchMiss(p)
    PROVE  IInv'
<1> DEFINE f == TargetFrame
<1>0. TypeOK /\ PinsAreHeld /\ WritersHold /\ NoWriteLost /\ PageTableMatchesFrames
  BY DEF IInv
<1>1. /\ ~crashed /\ pageTable[p] = None /\ f # None
      /\ disk' = DiskAfterEviction
      /\ misplaced' = (misplaced \/ VictimIsDirty)
      /\ pageTable' = [q \in PageId |->
                         IF q = p THEN f ELSE IF q = Victim THEN None ELSE pageTable[q]]
      /\ frames' = [frames EXCEPT ![f] =
                      [id |-> p, dirty |-> FALSE, pins |-> 1, data |-> disk'[p]]]
      /\ lru' = Accessed(LruAfterSearch, p)
      /\ held' = [held EXCEPT ![p] = 1]
      /\ UNCHANGED <<latest, wrote, crashed>>
  BY DEF FetchMiss
<1>2. /\ f \in FrameId
      /\ Victim # None => Victim \in PageId /\ pageTable[Victim] = f
      /\ \A q \in PageId : pageTable[q] = f <=> q = Victim
  BY <1>1, TargetProperties
<1>3. /\ Victim # None => Victim \in ToSet(lru) /\ InFrame(Victim).pins = 0
      /\ LruAfterSearch \in Seq(PageId)
      /\ IsInjective(LruAfterSearch)
      /\ ToSet(LruAfterSearch) \subseteq ToSet(lru) \ {Victim}
      /\ \A q \in ToSet(lru) : InFrame(q).pins = 0 =>
            q = Victim \/ q \in ToSet(LruAfterSearch)
  BY <1>1, SearchProperties
<1>4. Victim # p /\ Victim # None => held[Victim] = 0
  BY <1>0, <1>1, <1>2, <1>3 DEF PinsAreHeld, Cached
<1>5. Victim # p
  BY <1>1, <1>2
<1>6. disk' \in [PageId -> Content]
  <2>1. CASE VictimIsDirty
    <3>1. InFrame(Victim).data \in Content
      BY <1>0, <1>2, <2>1 DEF VictimIsDirty, InFrame, TypeOK, FrameState
    <3> QED
      BY <1>0, <1>1, <3>1, <2>1 DEF DiskAfterEviction, TypeOK
  <2>2. CASE ~VictimIsDirty
    BY <1>0, <1>1, <2>2 DEF DiskAfterEviction, TypeOK
  <2> QED
    BY <2>1, <2>2
<1> DEFINE x == [id |-> p, dirty |-> FALSE, pins |-> 1, data |-> disk'[p]]
<1>7. x \in FrameState
  BY <1>6, SizesAssumption DEF FrameState
<1>8. /\ frames' \in [FrameId -> FrameState] /\ frames'[f] = x
      /\ \A g \in FrameId : g # f => frames'[g] = frames[g]
  BY <1>0, <1>1, <1>2, <1>7 DEF TypeOK
<1>9. /\ pageTable' \in [PageId -> FrameId \cup {None}]
      /\ pageTable'[p] = f
      /\ \A q \in PageId : q # p =>
            pageTable'[q] = IF q = Victim THEN None ELSE pageTable[q]
  BY <1>0, <1>1, <1>2 DEF TypeOK
<1> HIDE DEF f
<1>10. \A q \in PageId : pageTable'[q] # None /\ q # p =>
          /\ q # Victim /\ pageTable'[q] = pageTable[q] /\ pageTable[q] \in FrameId
          /\ pageTable[q] # f /\ frames'[pageTable[q]] = frames[pageTable[q]]
  BY <1>0, <1>2, <1>8, <1>9 DEF TypeOK
<1>11. \A a, b \in PageId : pageTable'[a] # None /\ pageTable'[a] = pageTable'[b] => a = b
  <2>1. \A a, b \in PageId : pageTable[a] # None /\ pageTable[a] = pageTable[b] => a = b
    BY <1>0, FramesDiffer
  <2> QED
    BY <1>1, <1>9, <1>10, <2>1
<1> DEFINE S == {q \in PageId : pageTable'[q] # None}
<1>12. lru' \in Seq(PageId) /\ IsInjective(lru') /\ ToSet(lru') = ToSet(LruAfterSearch) \cup {p}
  <2>1. IsFiniteSet(S) /\ Cardinality(S) <= PoolSize
    BY <1>9, <1>11, CachedFit
  <2>2. ToSet(lru) \subseteq {q \in PageId : pageTable[q] # None}
    BY <1>1, ListFacts
  <2>3. ToSet(LruAfterSearch) \cup {p} \subseteq S
    BY <1>1, <1>3, <1>9, <2>2
  <2> HIDE DEF S
  <2> QED
    BY <1>1, <1>3, <2>1, <2>3, AccessedProperties
<1>13. 1 \in 0..MaxPins /\ misplaced' \in BOOLEAN
  BY <1>0, <1>1, SizesAssumption DEF TypeOK, VictimIsDirty
<1>14. TypeOK'
  BY <1>0, <1>1, <1>6, <1>8, <1>9, <1>12, <1>13 DEF TypeOK
<1>15. PageTableMatchesFrames'
  <2>1. ASSUME NEW q \in PageId, NEW g \in FrameId PROVE pageTable'[q] = g <=> frames'[g].id = q
    <3>1. pageTable[q] = g <=> frames[g].id = q
      BY <1>0 DEF PageTableMatchesFrames
    <3>2. CASE g = f
      <4>1. frames'[g].id = p
        BY <1>8, <3>2
      <4> QED
        BY <1>1, <1>9, <1>10, <3>2, <4>1
    <3>3. CASE g # f
      <4>1. frames'[g].id = frames[g].id
        BY <1>8, <3>3
      <4>2. g # None
        BY Numbers
      <4> QED
        BY <1>1, <1>2, <1>9, <3>1, <3>3, <4>1, <4>2
    <3> QED
      BY <3>2, <3>3
  <2> QED
    BY <2>1 DEF PageTableMatchesFrames
<1>16. PinsAreHeld'
  <2>1. ASSUME NEW q \in PageId
        PROVE  held'[q] = IF pageTable'[q] # None THEN frames'[pageTable'[q]].pins ELSE 0
    <3>0. held[q] = IF pageTable[q] # None THEN frames[pageTable[q]].pins ELSE 0
      BY <1>0 DEF PinsAreHeld, Cached, InFrame
    <3>1. CASE q = p
      BY <1>0, <1>1, <1>8, <1>9, <3>1 DEF TypeOK
    <3>2. CASE q # p /\ q = Victim
      <4>1. q # None /\ held'[q] = held[q] /\ pageTable'[q] = None
        BY <1>0, <1>1, <1>9, <3>2, Numbers DEF TypeOK
      <4> QED
        BY <1>4, <3>2, <4>1
    <3>3. CASE q # p /\ q # Victim
      BY <1>0, <1>1, <1>9, <1>10, <3>0, <3>3 DEF TypeOK
    <3> QED
      BY <3>1, <3>2, <3>3
  <2> QED
    BY <2>1 DEF PinsAreHeld, Cached, InFrame
<1>17. WritersHold'
  BY <1>0, <1>1 DEF WritersHold, TypeOK
<1>18. UnpinnedIsEvictable'
  <2>1. ASSUME NEW q \in PageId, pageTable'[q] # None, frames'[pageTable'[q]].pins = 0
        PROVE  q \in ToSet(lru')
    <3>1. CASE q = p
      BY <1>12, <3>1
    <3>2. CASE q # p
      <4>1. pageTable[q] # None /\ frames[pageTable[q]].pins = 0 /\ q # Victim
        BY <1>10, <2>1, <3>2
      <4>2. q \in ToSet(lru)
        BY <1>1, <4>1, ListFacts
      <4> QED
        BY <1>3, <1>12, <4>1, <4>2 DEF InFrame
    <3> QED
      BY <3>1, <3>2
  <2>2. ASSUME NEW q \in ToSet(lru') PROVE pageTable'[q] # None
    <3>1. ToSet(lru) \subseteq {r \in PageId : pageTable[r] # None}
      BY <1>1, ListFacts
    <3> QED
      BY <1>1, <1>3, <1>9, <1>12, <2>2, <3>1
  <2> QED
    BY <1>12, <2>1, <2>2 DEF UnpinnedIsEvictable, Cached, InFrame
<1>19. NoWriteLost'
  <2>1. CASE misplaced'
    BY <2>1 DEF NoWriteLost
  <2>2. CASE ~misplaced'
    <3>1. ~misplaced /\ ~VictimIsDirty /\ disk' = disk
      BY <1>1, <2>2 DEF DiskAfterEviction
    <3>2. ASSUME NEW q \in PageId
          PROVE  IF pageTable'[q] # None
                 THEN /\ frames'[pageTable'[q]].data = latest[q]
                      /\ frames'[pageTable'[q]].dirty \/ q \in wrote \/ disk[q] = latest[q]
                 ELSE disk[q] = latest[q]
      <4>0. IF pageTable[q] # None
            THEN /\ frames[pageTable[q]].data = latest[q]
                 /\ frames[pageTable[q]].dirty \/ q \in wrote \/ disk[q] = latest[q]
            ELSE disk[q] = latest[q]
        BY <1>0, <3>1 DEF NoWriteLost, Cached, InFrame
      <4>1. CASE q = p
        BY <1>1, <1>8, <1>9, <3>1, <4>0, <4>1
      <4>2. CASE q # p /\ q = Victim
        <5>1. q # None /\ ~ frames[pageTable[q]].dirty /\ pageTable'[q] = None
          BY <1>9, <3>1, <4>2, Numbers DEF VictimIsDirty, InFrame
        <5>2. q \notin wrote
          BY <1>0, <1>4, <4>2, <5>1 DEF WritersHold
        <5> QED
          BY <1>0, <4>0, <5>1, <5>2
      <4>3. CASE q # p /\ q # Victim
        BY <1>9, <1>10, <4>0, <4>3
      <4> QED
        BY <4>1, <4>2, <4>3
    <3> QED
      BY <1>1, <3>1, <3>2 DEF NoWriteLost, Cached, InFrame
  <2> QED
    BY <2>1, <2>2
<1> QED
  BY <1>14, <1>15, <1>16, <1>17, <1>18, <1>19 DEF IInv

\* A fetchPage that finds no frame keeps the invariant: every page on the
\* list it has emptied was pinned.
LEMMA FetchFailsIInv ==
    ASSUME IInv, NEW p \in PageId, FetchFails(p)
    PROVE  IInv'
<1>1. /\ ~crashed /\ TargetFrame = None /\ lru' = LruAfterSearch
      /\ UNCHANGED <<frames, pageTable, disk, latest, held, wrote, misplaced, crashed>>
  BY DEF FetchFails
<1>2. TypeOK /\ PageTableMatchesFrames /\ PinsAreHeld /\ WritersHold /\ NoWriteLost
  BY DEF IInv
<1>3. /\ Victim # None => Victim \in ToSet(lru)
      /\ LruAfterSearch \in Seq(PageId)
      /\ IsInjective(LruAfterSearch)
      /\ ToSet(LruAfterSearch) \subseteq ToSet(lru) \ {Victim}
      /\ \A q \in ToSet(lru) : InFrame(q).pins = 0 =>
            q = Victim \/ q \in ToSet(LruAfterSearch)
  BY <1>1, SearchProperties
<1>4. Victim = None
  <2>1. SUFFICES ASSUME Victim # None PROVE FALSE
    OBVIOUS
  <2>2. Victim \in PageId /\ pageTable[Victim] # None
    BY <1>1, <1>3, <2>1, ListFacts
  <2> QED
    BY <1>1, <2>1, <2>2 DEF TargetFrame
<1>5. TypeOK' /\ PageTableMatchesFrames' /\ PinsAreHeld' /\ WritersHold' /\ NoWriteLost'
  BY <1>1, <1>2, <1>3
  DEF TypeOK, PageTableMatchesFrames, PinsAreHeld, WritersHold, NoWriteLost, Cached, InFrame
<1>6. UnpinnedIsEvictable'
  <2>1. ASSUME NEW q \in PageId, pageTable[q] # None, frames[pageTable[q]].pins = 0
        PROVE  q \in ToSet(LruAfterSearch)
    <3>1. q \in ToSet(lru) /\ q # None
      BY <1>1, <2>1, ListFacts, Numbers
    <3> QED
      BY <1>3, <1>4, <2>1, <3>1 DEF InFrame
  <2>2. ToSet(LruAfterSearch) \subseteq {q \in PageId : pageTable[q] # None}
    BY <1>1, <1>3, ListFacts
  <2> QED
    BY <1>1, <1>3, <2>1, <2>2 DEF UnpinnedIsEvictable, Cached, InFrame
<1> QED
  BY <1>5, <1>6 DEF IInv

\* The number of the next write is above 0: there is a highest so far.
LEMMA NextVersionType ==
    ASSUME TypeOK
    PROVE  NextVersion \in Nat
<1> DEFINE V == {latest[q].version : q \in PageId}
           version == [q \in PageId |-> latest[q].version]
<1>1. \A q \in PageId : latest[q].version \in Nat
  BY SizesAssumption DEF TypeOK, Content
<1>2. V \in SUBSET Nat /\ V # {}
  BY <1>1, Numbers
<1>3. IsFiniteSet(V)
  <2>1. version \in Surjection(PageId, V)
    BY DEF Surjection
  <2> HIDE DEF V, version
  <2> QED
    BY <2>1, Numbers, FS_Surjection
<1>4. \E m \in V : \A k \in V : m >= k
  BY <1>2, <1>3, GreatestElement
<1>5. Max(V) \in V
  BY <1>4 DEF Max
<1>6. Max(V) \in Nat
  BY <1>2, <1>5
<1> HIDE DEF V
<1>7. Max(V) + 1 \in Nat
  BY <1>6
<1> QED
  BY <1>7 DEF NextVersion, V

\* A write through a pinned page's pointer keeps the invariant.
LEMMA CallerWritesIInv ==
    ASSUME IInv, NEW p \in PageId, CallerWrites(p)
    PROVE  IInv'
<1> DEFINE f == pageTable[p]
           x == [frames[f] EXCEPT !.data.version = NextVersion]
<1>0. TypeOK /\ PinsAreHeld /\ WritersHold /\ NoWriteLost /\ PageTableMatchesFrames
  BY DEF IInv
<1>1. /\ ~crashed /\ held[p] > 0 /\ NextVersion <= MaxWrites
      /\ frames' = [frames EXCEPT ![f].data.version = NextVersion]
      /\ latest' = [latest EXCEPT ![p] = frames'[f].data]
      /\ wrote' = wrote \cup {p}
      /\ UNCHANGED <<pageTable, lru, disk, held, misplaced, crashed>>
  BY DEF CallerWrites
<1>2. f # None
  BY <1>1, HeldIsCached
<1>3. /\ f \in FrameId /\ frames[f].pins = held[p] /\ frames[f] \in FrameState
      /\ \A q \in PageId : pageTable[q] = f => q = p
  BY <1>2, CachedFacts
<1>4. NextVersion \in 0..MaxWrites
  BY <1>0, <1>1, NextVersionType, SizesAssumption
<1>5. /\ x \in FrameState /\ x.id = frames[f].id /\ x.dirty = frames[f].dirty
      /\ x.pins = frames[f].pins /\ x.data \in Content
  BY <1>3, <1>4 DEF FrameState, Content
<1>6. frames' = [frames EXCEPT ![f] = x]
  BY <1>0, <1>1, <1>3 DEF TypeOK
<1> HIDE DEF x
<1>7. /\ frames' \in [FrameId -> FrameState] /\ frames'[f] = x
      /\ \A g \in FrameId : g # f => frames'[g] = frames[g]
  BY <1>0, <1>3, <1>5, <1>6 DEF TypeOK
<1>8. /\ latest' \in [PageId -> Content] /\ latest'[p] = x.data
      /\ \A q \in PageId : q # p => latest'[q] = latest[q]
  BY <1>0, <1>1, <1>5, <1>7 DEF TypeOK
<1>9. \A q \in PageId : q # p /\ pageTable[q] # None =>
         frames'[pageTable[q]] = frames[pageTable[q]]
  BY <1>0, <1>3, <1>7 DEF TypeOK
<1>10. TypeOK'
  BY <1>0, <1>1, <1>7, <1>8 DEF TypeOK
<1>11. PageTableMatchesFrames'
  BY <1>0, <1>1, <1>5, <1>7 DEF PageTableMatchesFrames
<1>12. PinsAreHeld'
  BY <1>0, <1>1, <1>5, <1>7, <1>9 DEF PinsAreHeld, Cached, InFrame
<1>13. WritersHold'
  BY <1>0, <1>1 DEF WritersHold
<1>14. UnpinnedIsEvictable'
  <2>1. \A q \in PageId : pageTable[q] # None =>
           frames'[pageTable[q]].pins = frames[pageTable[q]].pins
    BY <1>5, <1>7, <1>9
  <2> QED
    BY <1>1, <2>1, ListFacts DEF UnpinnedIsEvictable, Cached, InFrame
<1>15. NoWriteLost'
  BY <1>0, <1>1, <1>2, <1>7, <1>8, <1>9 DEF NoWriteLost, Cached, InFrame
<1> QED
  BY <1>10, <1>11, <1>12, <1>13, <1>14, <1>15 DEF IInv

\* unpinPage keeps the invariant, or ends the process.
LEMMA UnpinPageIInv ==
    ASSUME IInv, NEW p \in PageId, NEW isDirty \in BOOLEAN, UnpinPage(p, isDirty)
    PROVE  IInv'
<1> DEFINE f == pageTable[p]
           pins == frames[f].pins - 1
           x == [frames[f] EXCEPT !.pins = pins, !.dirty = frames[f].dirty \/ isDirty]
<1>0. TypeOK /\ PinsAreHeld /\ WritersHold /\ NoWriteLost /\ PageTableMatchesFrames
  BY DEF IInv
<1>1. /\ ~crashed /\ held[p] > 0
      /\ p \in wrote /\ held[p] = 1 => isDirty
      /\ frames' = [frames EXCEPT ![f].pins = pins, ![f].dirty = @ \/ isDirty]
      /\ lru' = IF pins = 0 THEN Pushed(lru, p) ELSE lru
      /\ crashed' = (pins = 0 /\ p \notin ToSet(lru))
      /\ held' = [held EXCEPT ![p] = held[p] - 1]
      /\ wrote' = IF isDirty THEN wrote \ {p} ELSE wrote
      /\ UNCHANGED <<pageTable, disk, latest, misplaced>>
  BY DEF UnpinPage
<1>2. f # None
  BY <1>1, HeldIsCached
<1>3. /\ f \in FrameId /\ frames[f].pins = held[p] /\ frames[f] \in FrameState
      /\ \A q \in PageId : pageTable[q] = f => q = p
  BY <1>2, CachedFacts
<1>4. held[p] \in 0..MaxPins /\ pins = held[p] - 1 /\ pins \in 0..MaxPins
  BY <1>0, <1>1, <1>3, SizesAssumption DEF TypeOK
<1>5. /\ x \in FrameState /\ x.id = frames[f].id /\ x.pins = pins
      /\ x.dirty = (frames[f].dirty \/ isDirty) /\ x.data = frames[f].data
  BY <1>3, <1>4 DEF FrameState
<1>6. frames' = [frames EXCEPT ![f] = x]
  BY <1>0, <1>1, <1>3 DEF TypeOK
<1> HIDE DEF x
<1>7. /\ frames' \in [FrameId -> FrameState] /\ frames'[f] = x
      /\ \A g \in FrameId : g # f => frames'[g] = frames[g]
  BY <1>0, <1>3, <1>5, <1>6 DEF TypeOK
<1>8. \A q \in PageId : q # p /\ pageTable[q] # None =>
         frames'[pageTable[q]] = frames[pageTable[q]]
  BY <1>0, <1>3, <1>7 DEF TypeOK
<1>9. /\ held' \in [PageId -> 0..MaxPins] /\ held'[p] = pins
      /\ \A q \in PageId : q # p => held'[q] = held[q]
  BY <1>0, <1>1, <1>4 DEF TypeOK
<1>10. /\ lru \in Seq(PageId) /\ IsInjective(lru)
       /\ ToSet(lru) \subseteq {q \in PageId : pageTable[q] # None}
       /\ \A q \in PageId :
             pageTable[q] # None /\ frames[pageTable[q]].pins = 0 => q \in ToSet(lru)
  BY <1>1, ListFacts
<1>11. /\ lru' \in Seq(PageId) /\ IsInjective(lru')
       /\ ToSet(lru') = IF pins = 0 THEN ToSet(lru) \cup {p} ELSE ToSet(lru)
  BY <1>1, <1>10, PushedProperties
<1> HIDE DEF f
<1>12. TypeOK'
  <2>1. wrote' \subseteq PageId /\ crashed' \in BOOLEAN
    BY <1>0, <1>1 DEF TypeOK
  <2> QED
    BY <1>0, <1>1, <1>7, <1>9, <1>11, <2>1 DEF TypeOK
<1>13. PageTableMatchesFrames'
  BY <1>0, <1>1, <1>5, <1>7 DEF PageTableMatchesFrames
<1>14. PinsAreHeld'
  <2>1. ASSUME NEW q \in PageId
        PROVE  held'[q] = IF pageTable[q] # None THEN frames'[pageTable[q]].pins ELSE 0
    <3>1. CASE q = p
      BY <1>2, <1>5, <1>7, <1>9, <3>1 DEF f
    <3>2. CASE q # p
      BY <1>0, <1>8, <1>9, <3>2 DEF PinsAreHeld, Cached, InFrame
    <3> QED
      BY <3>1, <3>2
  <2>2. pageTable' = pageTable
    BY <1>1
  <2> QED
    BY <2>1, <2>2 DEF PinsAreHeld, Cached, InFrame
<1>15. WritersHold'
  <2>1. SUFFICES ASSUME NEW q \in wrote' PROVE held'[q] > 0
    BY DEF WritersHold
  <2>2. q \in wrote /\ q \in PageId /\ held[q] > 0
    BY <1>0, <1>1, <2>1 DEF WritersHold, TypeOK
  <2>3. CASE q = p
    <3>1. held[p] # 1
      BY <1>1, <2>1, <2>2, <2>3
    <3> QED
      BY <1>1, <1>4, <1>9, <2>3, <3>1
  <2>4. CASE q # p
    BY <1>9, <2>2, <2>4
  <2> QED
    BY <2>3, <2>4
<1>16. UnpinnedIsEvictable'
  <2>1. ASSUME NEW q \in PageId, pageTable[q] # None, frames'[pageTable[q]].pins = 0
        PROVE  q \in ToSet(lru')
    <3>1. CASE q = p
      <4>1. pins = 0
        BY <1>5, <1>7, <2>1, <3>1 DEF f
      <4> QED
        BY <1>11, <3>1, <4>1
    <3>2. CASE q # p
      BY <1>8, <1>10, <1>11, <2>1, <3>2
    <3> QED
      BY <3>1, <3>2
  <2>2. ToSet(lru') \subseteq {q \in PageId : pageTable[q] # None}
    BY <1>2, <1>10, <1>11 DEF f
  <2> HIDE DEF pins
  <2> QED
    BY <1>1, <1>11, <2>1, <2>2 DEF UnpinnedIsEvictable, Cached, InFrame
<1>17. NoWriteLost'
  <2>1. SUFFICES ASSUME ~misplaced, NEW q \in PageId
        PROVE  IF pageTable[q] # None
               THEN /\ frames'[pageTable[q]].data = latest[q]
                    /\ frames'[pageTable[q]].dirty \/ q \in wrote' \/ disk[q] = latest[q]
               ELSE disk[q] = latest[q]
    BY <1>1 DEF NoWriteLost, Cached, InFrame
  <2>2. IF pageTable[q] # None
        THEN /\ frames[pageTable[q]].data = latest[q]
             /\ frames[pageTable[q]].dirty \/ q \in wrote \/ disk[q] = latest[q]
        ELSE disk[q] = latest[q]
    BY <1>0, <2>1 DEF NoWriteLost, Cached, InFrame
  <2>3. CASE q = p
    BY <1>1, <1>2, <1>5, <1>7, <2>2, <2>3 DEF f
  <2>4. CASE q # p
    BY <1>1, <1>8, <2>2, <2>4
  <2> QED
    BY <2>3, <2>4
<1> QED
  BY <1>12, <1>13, <1>14, <1>15, <1>16, <1>17 DEF IInv

\* flushPage keeps the invariant.
LEMMA FlushPageIInv ==
    ASSUME IInv, NEW p \in PageId, FlushPage(p)
    PROVE  IInv'
<1> DEFINE f == pageTable[p]
           x == [frames[f] EXCEPT !.dirty = FALSE]
<1>0. TypeOK /\ PinsAreHeld /\ WritersHold /\ NoWriteLost /\ PageTableMatchesFrames
  BY DEF IInv
<1>1. /\ ~crashed /\ f # None
      /\ disk' = [disk EXCEPT ![p] = frames[f].data]
      /\ frames' = [frames EXCEPT ![f].dirty = FALSE]
      /\ UNCHANGED <<pageTable, lru, latest, held, wrote, misplaced, crashed>>
  BY DEF FlushPage, InFrame
<1>2. /\ f \in FrameId /\ frames[f] \in FrameState
      /\ \A q \in PageId : pageTable[q] = f => q = p
  BY <1>1, CachedFacts
<1>3. /\ x \in FrameState /\ x.id = frames[f].id /\ x.pins = frames[f].pins
      /\ x.data = frames[f].data /\ x.data \in Content
  BY <1>2 DEF FrameState
<1>4. frames' = [frames EXCEPT ![f] = x]
  BY <1>0, <1>1, <1>2 DEF TypeOK
<1> HIDE DEF x
<1>5. /\ frames' \in [FrameId -> FrameState] /\ frames'[f] = x
      /\ \A g \in FrameId : g # f => frames'[g] = frames[g]
  BY <1>0, <1>2, <1>3, <1>4 DEF TypeOK
<1>6. \A q \in PageId : q # p /\ pageTable[q] # None =>
         frames'[pageTable[q]] = frames[pageTable[q]]
  BY <1>0, <1>2, <1>5 DEF TypeOK
<1>7. /\ disk' \in [PageId -> Content] /\ disk'[p] = x.data
      /\ \A q \in PageId : q # p => disk'[q] = disk[q]
  BY <1>0, <1>1, <1>3 DEF TypeOK
<1>8. \A q \in PageId : pageTable[q] # None =>
         /\ frames'[pageTable[q]].pins = frames[pageTable[q]].pins
         /\ frames'[pageTable[q]].data = frames[pageTable[q]].data
  BY <1>3, <1>5, <1>6
<1>9. TypeOK'
  BY <1>0, <1>1, <1>5, <1>7 DEF TypeOK
<1>10. PageTableMatchesFrames'
  BY <1>0, <1>1, <1>3, <1>5 DEF PageTableMatchesFrames
<1>11. PinsAreHeld' /\ WritersHold'
  BY <1>0, <1>1, <1>8 DEF PinsAreHeld, WritersHold, Cached, InFrame
<1>12. UnpinnedIsEvictable'
  BY <1>1, <1>8, ListFacts DEF UnpinnedIsEvictable, Cached, InFrame
<1>13. NoWriteLost'
  <2> SUFFICES ASSUME ~misplaced, NEW q \in PageId
               PROVE  IF pageTable[q] # None
                      THEN /\ frames'[pageTable[q]].data = latest[q]
                           /\ frames'[pageTable[q]].dirty \/ q \in wrote \/ disk'[q] = latest[q]
                      ELSE disk'[q] = latest[q]
    BY <1>1 DEF NoWriteLost, Cached, InFrame
  <2>1. IF pageTable[q] # None
        THEN /\ frames[pageTable[q]].data = latest[q]
             /\ frames[pageTable[q]].dirty \/ q \in wrote \/ disk[q] = latest[q]
        ELSE disk[q] = latest[q]
    BY <1>0 DEF NoWriteLost, Cached, InFrame
  <2>2. CASE q = p
    BY <2>1, <2>2, <1>1, <1>3, <1>5, <1>7
  <2>3. CASE q # p
    BY <2>1, <2>3, <1>6, <1>7
  <2> QED
    BY <2>2, <2>3
<1> QED
  BY <1>9, <1>10, <1>11, <1>12, <1>13 DEF IInv

\* Every step keeps the invariant.
LEMMA NextIInv == IInv /\ [Next]_vars => IInv'
<1> SUFFICES ASSUME IInv, [Next]_vars PROVE IInv'
  OBVIOUS
<1>1. ASSUME NEW p \in PageId, FetchHit(p) PROVE IInv'
  BY <1>1, FetchHitIInv
<1>2. ASSUME NEW p \in PageId, FetchMiss(p) PROVE IInv'
  BY <1>2, FetchMissIInv
<1>3. ASSUME NEW p \in PageId, FetchFails(p) PROVE IInv'
  BY <1>3, FetchFailsIInv
<1>4. ASSUME NEW p \in PageId, CallerWrites(p) PROVE IInv'
  BY <1>4, CallerWritesIInv
<1>5. ASSUME NEW p \in PageId, NEW isDirty \in BOOLEAN, UnpinPage(p, isDirty) PROVE IInv'
  BY <1>5, UnpinPageIInv
<1>6. ASSUME NEW p \in PageId, FlushPage(p) PROVE IInv'
  BY <1>6, FlushPageIInv
<1>7. CASE UNCHANGED vars
  BY <1>7 DEF vars, IInv, TypeOK, PageTableMatchesFrames, PinsAreHeld, WritersHold,
              UnpinnedIsEvictable, NoWriteLost, Cached, InFrame
<1> QED
  BY <1>1, <1>2, <1>3, <1>4, <1>5, <1>6, <1>7 DEF Next

-----------------------------------------------------------------------------
(* Theorems *)

\* The inductive invariant of the pool: page table, frames, LRU list, pin
\* counts and dirty flags fit together after every method call.
THEOREM IInvHolds == Spec => []IInv
BY InitIInv, NextIInv, PTL DEF Spec

\* The members of the pool stay of their types: frame numbers in the page
\* table, pin counts between 0 and what the callers may hold.
THEOREM TypeCorrect == Spec => []TypeOK
<1>1. IInv => TypeOK
  BY DEF IInv
<1> QED
  BY <1>1, IInvHolds, PTL

\* fetchPage keeps the page table and the ids in the frames in agreement: no
\* page is ever in two frames, and no frame is found under two pages.
THEOREM TableAgrees == Spec => []PageTableMatchesFrames
<1>1. IInv => PageTableMatchesFrames
  BY DEF IInv
<1> QED
  BY <1>1, IInvHolds, PTL

\* As long as the process lives, the victim search finds every cached page
\* that nobody pins, although it throws pinned pages off its list.
THEOREM UnpinnedCanLeave == Spec => []UnpinnedIsEvictable
<1>1. IInv => UnpinnedIsEvictable
  BY DEF IInv
<1> QED
  BY <1>1, IInvHolds, PTL

\* Until an eviction writes a page back (under the wrong number), no write is
\* lost, however pages are fetched, pinned, written, flushed and evicted.
THEOREM WritesAreKept == Spec => []NoWriteLost
<1>1. IInv => NoWriteLost
  BY DEF IInv
<1> QED
  BY <1>1, IInvHolds, PTL

\* A pinned page keeps its frame, and nobody but a caller changes its bytes:
\* the pointer that fetchPage returned is good until the last unpin.
THEOREM PinsProtect == Spec => PinnedPageStays
<1>1. ASSUME IInv, [Next]_vars, NEW p \in PageId, held[p] > 0
      PROVE  /\ pageTable'[p] = pageTable[p]
             /\ CallerWrites(p) \/ frames'[pageTable[p]].data = frames[pageTable[p]].data
  <2> DEFINE f == pageTable[p]
  <2>0. TypeOK /\ IInv'
    BY <1>1, NextIInv DEF IInv
  <2>1. /\ f # None /\ f \in FrameId
        /\ frames[f].pins = held[p]
        /\ \A q \in PageId : pageTable[q] = f => q = p
    BY <1>1, HeldIsCached, CachedFacts
  <2>2. ASSUME NEW q \in PageId, FetchHit(q)
        PROVE  pageTable'[p] = f /\ frames'[f].data = frames[f].data
    BY <2>0, <2>1, <2>2 DEF FetchHit, TypeOK, FrameState
  <2>3. ASSUME NEW q \in PageId, FetchMiss(q)
        PROVE  pageTable'[p] = f /\ frames'[f].data = frames[f].data
    <3>1. /\ ~crashed /\ pageTable[q] = None /\ TargetFrame # None
          /\ pageTable' = [r \in PageId |->
                 IF r = q THEN TargetFrame ELSE IF r = Victim THEN None ELSE pageTable[r]]
          /\ frames' = [frames EXCEPT ![TargetFrame] =
                 [id |-> q, dirty |-> FALSE, pins |-> 1, data |-> disk'[q]]]
      BY <2>3 DEF FetchMiss
    <3>2. /\ Victim # None => InFrame(Victim).pins = 0
          /\ \A r \in PageId : pageTable[r] = TargetFrame <=> r = Victim
      BY <1>1, <3>1, SearchProperties, TargetProperties
    <3>3. p # Victim
      BY <1>1, <2>1, <3>2, Numbers DEF InFrame
    <3>4. f # TargetFrame /\ p # q
      BY <2>1, <3>1, <3>2, <3>3
    <3> QED
      BY <2>0, <2>1, <3>1, <3>3, <3>4 DEF TypeOK
  <2>4. ASSUME NEW q \in PageId, FetchFails(q)
        PROVE  pageTable'[p] = f /\ frames'[f].data = frames[f].data
    BY <2>4 DEF FetchFails
  <2>5. ASSUME NEW q \in PageId, CallerWrites(q), q # p
        PROVE  pageTable'[p] = f /\ frames'[f].data = frames[f].data
    <3>1. held[q] > 0 /\ pageTable' = pageTable
          /\ frames' = [frames EXCEPT ![pageTable[q]].data.version = NextVersion]
      BY <2>5 DEF CallerWrites
    <3>2. pageTable[q] # f
      BY <2>1, <2>5
    <3> QED
      BY <2>0, <2>1, <3>1, <3>2 DEF TypeOK
  <2>6. ASSUME NEW q \in PageId, NEW isDirty \in BOOLEAN, UnpinPage(q, isDirty)
        PROVE  pageTable'[p] = f /\ frames'[f].data = frames[f].data
    BY <2>0, <2>1, <2>6 DEF UnpinPage, TypeOK, FrameState
  <2>7. ASSUME NEW q \in PageId, FlushPage(q)
        PROVE  pageTable'[p] = f /\ frames'[f].data = frames[f].data
    BY <2>0, <2>1, <2>7 DEF FlushPage, TypeOK, FrameState
  <2>8. CASE UNCHANGED vars
    BY <2>8 DEF vars
  <2>9. ASSUME CallerWrites(p) PROVE pageTable'[p] = f
    BY <2>9 DEF CallerWrites
  <2> QED
    BY <1>1, <2>2, <2>3, <2>4, <2>5, <2>6, <2>7, <2>8, <2>9 DEF Next
<1>2. IInv /\ [Next]_vars =>
        [\A p \in PageId : held[p] > 0 =>
            /\ pageTable'[p] = pageTable[p]
            /\ CallerWrites(p) \/ frames'[pageTable[p]].data = frames[pageTable[p]].data]_vars
  BY <1>1
<1> QED
  BY <1>2, IInvHolds, PTL DEF Spec, PinnedPageStays
===============================================================================
