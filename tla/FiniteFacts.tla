------------------------------ MODULE FiniteFacts ------------------------------
(***************************************************************************)
(* Facts about sets of numbers that the proofs of several components need. *)
(* The code looks for them with loops: the highest id in a table of ids,   *)
(* the highest LSN of a log, the first free frame of a pool, the elements  *)
(* of a vector that pass a test.                                           *)
(***************************************************************************)
EXTENDS Sublists, FiniteSetTheorems, WellFoundedInduction, TLAPS

\* A non-empty set of natural numbers has a least element.
LEMMA LeastElement ==
    ASSUME NEW S \in SUBSET Nat, S # {}
    PROVE  \E m \in S : \A k \in S : m <= k
<1>1. PICK m \in S : \A k \in S : ~(<<k, m>> \in OpToRel(<, Nat))
  BY WFMin, NatLessThanWellFounded
<1>2. \A k \in S : ~(k < m)
  BY <1>1 DEF OpToRel
<1> QED
  BY <1>2

\* A finite set of natural numbers that is not empty has a greatest element:
\* the one with the fewest above it.
LEMMA GreatestElement ==
    ASSUME NEW S \in SUBSET Nat, IsFiniteSet(S), S # {}
    PROVE  \E x \in S : \A y \in S : x >= y
<1> DEFINE Above(x) == {y \in S : y > x}
           Sizes == {Cardinality(Above(x)) : x \in S}
<1>1. \A x \in S : IsFiniteSet(Above(x)) /\ Cardinality(Above(x)) \in Nat
  <2>1. TAKE x \in S
  <2>2. Above(x) \in SUBSET S
    OBVIOUS
  <2>3. IsFiniteSet(Above(x))
    BY <2>2, FS_Subset
  <2> QED
    BY <2>3, FS_CardinalityType
<1>2. Sizes \subseteq Nat /\ Sizes # {}
  BY <1>1
<1>3. \E n \in Sizes : \A k \in Sizes : ~ (<<k, n>> \in OpToRel(<, Nat))
  BY <1>2, NatLessThanWellFounded, WFMin
<1>4. PICK x \in S : \A y \in S : ~ (Cardinality(Above(y)) < Cardinality(Above(x)))
  BY <1>1, <1>3 DEF OpToRel
<1>5. SUFFICES ASSUME NEW y \in S, ~ (x >= y) PROVE FALSE
  OBVIOUS
<1>6. x \in Nat /\ y \in Nat /\ y > x
  BY <1>5
<1>7. y \in Above(x) /\ y \notin Above(y)
  BY <1>6
<1>8. \A z \in Above(y) : z \in Nat /\ z > y
  OBVIOUS
<1>9. Above(y) \in SUBSET Above(x)
  <2>1. SUFFICES ASSUME NEW z \in Above(y) PROVE z \in Above(x)
    OBVIOUS
  <2> QED
    BY <1>6, <1>8
<1>10. Cardinality(Above(y)) <= Cardinality(Above(x)) /\ Cardinality(Above(x)) # Cardinality(Above(y))
  BY <1>1, <1>7, <1>9, FS_Subset
<1> QED
  BY <1>1, <1>4, <1>10

-----------------------------------------------------------------------------
(* Kept *)

\* Every place of a finite set of places has a rank of its own, and every
\* number up to their count is the rank of one.
LEMMA RankProperties ==
    ASSUME NEW P \in SUBSET Nat, IsFiniteSet(P)
    PROVE  /\ Cardinality(P) \in Nat
           /\ \A i \in P : Rank(P, i) \in 1..Cardinality(P)
           /\ \A i, j \in P : i < j => Rank(P, i) < Rank(P, j)
           /\ \A k \in 1..Cardinality(P) : \E i \in P : Rank(P, i) = k
<1> DEFINE Upto(i) == {j \in P : j <= i}
<1>1. \A i \in P : IsFiniteSet(Upto(i)) /\ Cardinality(Upto(i)) \in Nat
                   /\ Cardinality(Upto(i)) <= Cardinality(P)
  <2>1. TAKE i \in P
  <2>2. Upto(i) \in SUBSET P
    OBVIOUS
  <2> HIDE DEF Upto
  <2>3. IsFiniteSet(Upto(i)) /\ Cardinality(Upto(i)) <= Cardinality(P)
    BY <2>2, FS_Subset
  <2> QED
    BY <2>3, FS_CardinalityType
<1>2. Cardinality(P) \in Nat
  BY FS_CardinalityType
<1>3. \A i \in P : Rank(P, i) = Cardinality(Upto(i))
  BY DEF Rank
<1>4. ASSUME NEW i \in P PROVE Rank(P, i) \in 1..Cardinality(P)
  <2>1. i \in Upto(i)
    OBVIOUS
  <2>2. Cardinality(Upto(i)) # 0
    <3> HIDE DEF Upto
    <3> QED
      BY <1>1, <2>1, FS_EmptySet
  <2> QED
    BY <1>1, <1>2, <1>3, <2>2
<1>5. ASSUME NEW i \in P, NEW j \in P, i < j PROVE Rank(P, i) < Rank(P, j)
  <2>1. j \in Upto(j) /\ j \notin Upto(i)
    BY <1>5
  <2>2. Upto(i) \in SUBSET Upto(j)
    <3>1. i \in Nat /\ j \in Nat
      OBVIOUS
    <3>2. ASSUME NEW h \in P, h <= i PROVE h <= j
      <4>1. h \in Nat
        OBVIOUS
      <4> QED
        BY <1>5, <3>1, <3>2, <4>1
    <3> QED
      BY <3>2
  <2> HIDE DEF Upto
  <2>3. Cardinality(Upto(i)) <= Cardinality(Upto(j)) /\ Cardinality(Upto(i)) # Cardinality(Upto(j))
    BY <1>1, <2>1, <2>2, FS_Subset
  <2> QED
    BY <1>1, <1>3, <2>3
<1> DEFINE N == 1..Cardinality(P)
           rank == [i \in P |-> Rank(P, i)]
<1>6. rank \in Injection(P, N)
  <2>1. rank \in [P -> N]
    BY <1>4
  <2>2. \A i, j \in P : rank[i] = rank[j] => i = j
    <3>1. SUFFICES ASSUME NEW i \in P, NEW j \in P, i # j PROVE rank[i] # rank[j]
      OBVIOUS
    <3>2. Rank(P, i) \in Nat /\ Rank(P, j) \in Nat
      BY <1>4, <1>2
    <3>3. i < j \/ j < i
      BY <3>1
    <3> QED
      BY <1>5, <3>2, <3>3
  <2> HIDE DEF rank, N
  <2> QED
    BY <2>1, <2>2 DEF Injection, IsInjective
<1>7. IsFiniteSet(N) /\ Cardinality(N) = Cardinality(P)
  <2>1. IsFiniteSet(1..Cardinality(P))
        /\ Cardinality(1..Cardinality(P)) = IF 1 > Cardinality(P) THEN 0 ELSE Cardinality(P) - 1 + 1
    BY <1>2, FS_Interval
  <2> QED
    BY <1>2, <2>1
<1>8. rank \in Surjection(P, N)
  <2> HIDE DEF rank, N
  <2> QED
    BY <1>6, <1>7, FS_Injection
<1>9. \A k \in N : \E i \in P : rank[i] = k
  <2> HIDE DEF rank, N
  <2> QED
    BY <1>8 DEF Surjection
<1> QED
  BY <1>2, <1>4, <1>5, <1>9

\* What is kept is in the sequence, in its order: "at" says where.
LEMMA KeptProperties ==
    ASSUME NEW S, NEW s \in Seq(S), NEW P \in SUBSET (1..Len(s))
    PROVE  /\ Kept(s, P) \in Seq(S)
           /\ Len(Kept(s, P)) = Cardinality(P) /\ Cardinality(P) \in Nat
           /\ Cardinality(P) = 0 => P = {}
           /\ \E at \in [1..Cardinality(P) -> P] :
                 /\ \A k \in 1..Cardinality(P) : Kept(s, P)[k] = s[at[k]]
                 /\ \A k, l \in 1..Cardinality(P) : k < l => at[k] < at[l]
                 /\ \A i \in P : \E k \in 1..Cardinality(P) : at[k] = i
<1> DEFINE n == Cardinality(P)
           at == [k \in 1..n |-> CHOOSE i \in P : Rank(P, i) = k]
<1>1. P \in SUBSET Nat /\ IsFiniteSet(P) /\ Len(s) \in Nat
  <2>1. IsFiniteSet(1..Len(s))
    BY FS_Interval
  <2>2. IsFiniteSet(P)
    BY <2>1, FS_Subset
  <2> QED
    BY <2>2
<1>2. /\ n \in Nat
      /\ \A i \in P : Rank(P, i) \in 1..n
      /\ \A i, j \in P : i < j => Rank(P, i) < Rank(P, j)
      /\ \A k \in 1..n : \E i \in P : Rank(P, i) = k
  BY <1>1, RankProperties
<1>3. \A k \in 1..n : at[k] \in P /\ Rank(P, at[k]) = k
  BY <1>2
<1>4. at \in [1..n -> P]
  BY <1>3
<1>5. \A k \in 1..n : Kept(s, P)[k] = s[at[k]]
  BY DEF Kept
<1>6. Kept(s, P) = [k \in 1..n |-> s[at[k]]]
  BY DEF Kept
<1>7. \A k \in 1..n : s[at[k]] \in S
  <2>1. \A i \in P : s[i] \in S
    OBVIOUS
  <2> HIDE DEF at
  <2> QED
    BY <1>3, <2>1
<1> HIDE DEF at, n
<1>8. Kept(s, P) \in Seq(S) /\ Len(Kept(s, P)) = n
  BY <1>2, <1>6, <1>7
<1>9. ASSUME NEW k \in 1..n, NEW l \in 1..n, k < l PROVE at[k] < at[l]
  <2>1. at[k] \in P /\ at[l] \in P /\ at[k] \in Nat /\ at[l] \in Nat
    BY <1>1, <1>3
  <2>2. SUFFICES ASSUME at[l] <= at[k] PROVE FALSE
    BY <2>1
  <2>3. CASE at[l] = at[k]
    BY <1>2, <1>3, <1>9, <2>3
  <2>4. CASE at[l] < at[k]
    <3>1. l < k
      BY <1>2, <1>3, <2>1, <2>4
    <3> QED
      BY <1>2, <1>9, <3>1
  <2> QED
    BY <2>1, <2>2, <2>3, <2>4
<1>10. ASSUME NEW i \in P PROVE \E k \in 1..n : at[k] = i
  <2> DEFINE k == Rank(P, i)
  <2>1. k \in 1..n
    BY <1>2
  <2>2. at[k] \in P /\ Rank(P, at[k]) = k
    BY <1>3, <2>1
  <2> HIDE DEF k
  <2>3. at[k] \in Nat /\ i \in Nat /\ k \in Nat
    <3>1. at[k] \in Nat /\ i \in Nat
      BY <1>1, <2>2
    <3>2. n \in Nat
      BY <1>2
    <3> QED
      BY <2>1, <3>1, <3>2
  <2>4. ~ (at[k] < i) /\ ~ (i < at[k])
    <3>1. Rank(P, i) = k /\ Rank(P, at[k]) = k /\ ~ (k < k)
      BY <2>2, <2>3 DEF k
    <3> QED
      BY <1>2, <2>2, <3>1
  <2>5. at[k] = i
    BY <2>3, <2>4
  <2> QED
    BY <2>1, <2>5
<1>11. n = 0 => P = {}
  BY <1>1, FS_EmptySet DEF n
<1> QED
  BY <1>2, <1>4, <1>5, <1>8, <1>9, <1>10, <1>11 DEF n

\* Where everything passes, everything is kept.
LEMMA KeptAll ==
    ASSUME NEW S, NEW s \in Seq(S)
    PROVE  Kept(s, 1..Len(s)) = s
<1> DEFINE n == Len(s)
<1>1. n \in Nat /\ \A i \in 1..n : s[i] \in S
  OBVIOUS
<1> HIDE DEF n
<1>2. \A i \in 0..n : IsFiniteSet(1..i) /\ Cardinality(1..i) = i
  <2>1. \A i \in Int : IsFiniteSet(1..i) /\ Cardinality(1..i) = IF 1 > i THEN 0 ELSE i - 1 + 1
    BY FS_Interval
  <2> QED
    BY <1>1, <2>1
<1>3. ASSUME NEW i \in 1..n PROVE Rank(1..n, i) = i
  <2>1. {j \in 1..n : j <= i} = 1..i
    BY <1>1
  <2>2. Cardinality(1..i) = i
    BY <1>1, <1>2
  <2> QED
    BY <2>1, <2>2 DEF Rank
<1>4. \A k \in 1..n : (CHOOSE i \in 1..n : Rank(1..n, i) = k) = k
  BY <1>3
<1>5. Cardinality(1..n) = n
  BY <1>1, <1>2
<1>6. Kept(s, 1..n) = [k \in 1..n |-> s[k]]
  <2>1. Kept(s, 1..n) = [k \in 1..n |-> s[CHOOSE i \in 1..n : Rank(1..n, i) = k]]
    BY <1>5 DEF Kept
  <2> QED
    BY <1>4, <2>1
<1>7. s = [k \in 1..n |-> s[k]]
  BY DEF n
<1> QED
  BY <1>6, <1>7 DEF n
\* The place with a rank is the only one.
LEMMA PlaceOfRank ==
    ASSUME NEW P \in SUBSET Nat, IsFiniteSet(P), NEW p \in P, NEW k, Rank(P, p) = k
    PROVE  (CHOOSE i \in P : Rank(P, i) = k) = p
<1>1. /\ \A i \in P : Rank(P, i) \in 1..Cardinality(P)
      /\ \A i, j \in P : i < j => Rank(P, i) < Rank(P, j)
      /\ Cardinality(P) \in Nat
  BY RankProperties
<1>2. ASSUME NEW i \in P, Rank(P, i) = k PROVE i = p
  <2>1. i \in Nat /\ p \in Nat /\ k \in Nat /\ ~(k < k)
    BY <1>1
  <2>2. ~(i < p) /\ ~(p < i)
    BY <1>1, <1>2, <2>1
  <2> QED
    BY <2>1, <2>2
<1> QED
  BY <1>2

\* Only the places that are kept matter.
LEMMA KeptSame ==
    ASSUME NEW s, NEW t, NEW P \in SUBSET Nat, IsFiniteSet(P), \A i \in P : s[i] = t[i]
    PROVE  Kept(s, P) = Kept(t, P)
<1>1. \A k \in 1..Cardinality(P) : \E i \in P : Rank(P, i) = k
  BY RankProperties
<1>2. ASSUME NEW k \in 1..Cardinality(P)
      PROVE  s[CHOOSE i \in P : Rank(P, i) = k] = t[CHOOSE i \in P : Rank(P, i) = k]
  <2>1. (CHOOSE i \in P : Rank(P, i) = k) \in P
    BY <1>1
  <2> QED
    BY <2>1
<1> QED
  BY <1>2, Zenon DEF Kept

\* What is kept of a sequence whose end is kept as a whole.
LEMMA KeptEnd ==
    ASSUME NEW S, NEW s \in Seq(S), NEW n \in 0..Len(s), NEW P \in SUBSET (1..n)
    PROVE  Kept(s, P \cup ((n + 1)..Len(s))) = Kept(s, P) \o SubSeq(s, n + 1, Len(s))
<1> DEFINE N == Len(s)
           end == (n + 1)..N
           Q == P \cup end
           p == Cardinality(P)
<1>0. N \in Nat /\ n \in Nat /\ n <= N
  OBVIOUS
<1> HIDE DEF N
<1>1. P \in SUBSET Nat /\ IsFiniteSet(P) /\ p \in Nat
  <2>1. IsFiniteSet(1..n)
    BY <1>0, FS_Interval
  <2>2. IsFiniteSet(P)
    BY <2>1, FS_Subset
  <2> QED
    BY <2>2, FS_CardinalityType
<1>2. ASSUME NEW i \in n..N
      PROVE  /\ IsFiniteSet(P \cup ((n + 1)..i))
             /\ Cardinality(P \cup ((n + 1)..i)) = p + (i - n)
  <2>1. IsFiniteSet((n + 1)..i) /\ Cardinality((n + 1)..i) = i - n
    <3>1. /\ IsFiniteSet((n + 1)..i)
          /\ Cardinality((n + 1)..i) = IF n + 1 > i THEN 0 ELSE i - (n + 1) + 1
      BY <1>0, FS_Interval
    <3> QED
      BY <1>0, <3>1
  <2>2. P \cap ((n + 1)..i) = {}
    BY <1>0
  <2>3. Cardinality(P \cap ((n + 1)..i)) = 0
    BY <2>2, FS_EmptySet
  <2> DEFINE R == (n + 1)..i
  <2> HIDE DEF R
  <2>4. /\ IsFiniteSet(P \cup R)
        /\ Cardinality(P \cup R) = Cardinality(P) + Cardinality(R) - Cardinality(P \cap R)
    BY <1>1, <2>1, FS_Union DEF R
  <2> USE DEF R
  <2> QED
    BY <1>0, <1>1, <2>1, <2>3, <2>4
<1>3. IsFiniteSet(Q) /\ Cardinality(Q) = p + (N - n) /\ Q \in SUBSET Nat
  <2>1. N \in n..N
    BY <1>0
  <2>2. Q \in SUBSET Nat
    BY <1>0, <1>1
  <2> QED
    BY <1>2, <2>1, <2>2
<1>4. ASSUME NEW k \in 1..p
      PROVE  (CHOOSE i \in Q : Rank(Q, i) = k) = (CHOOSE i \in P : Rank(P, i) = k)
  <2>1. PICK i \in P : Rank(P, i) = k
    BY <1>1, RankProperties
  <2>2. Rank(Q, i) = k /\ i \in Q
    <3>1. {j \in Q : j <= i} = {j \in P : j <= i}
      BY <1>0
    <3> QED
      BY <2>1, <3>1 DEF Rank
  <2> HIDE DEF Q
  <2>3. (CHOOSE j \in Q : Rank(Q, j) = k) = i
    BY <1>3, <2>2, PlaceOfRank
  <2>4. (CHOOSE j \in P : Rank(P, j) = k) = i
    BY <1>1, <2>1, PlaceOfRank
  <2> QED
    BY <2>3, <2>4
<1>5. ASSUME NEW k \in (p + 1)..(p + (N - n))
      PROVE  (CHOOSE i \in Q : Rank(Q, i) = k) = n + (k - p)
  <2> DEFINE i == n + (k - p)
  <2>1. i \in end /\ i \in n..N /\ i \in Q
    BY <1>0, <1>1
  <2>2. Rank(Q, i) = k
    <3>1. {j \in Q : j <= i} = P \cup ((n + 1)..i)
      <4>1. i \in Nat /\ i >= n /\ i <= N
        BY <1>0, <2>1
      <4> HIDE DEF i
      <4>2. \A j \in P : j \in Nat /\ j <= n
        BY <1>0
      <4>3. \A j \in P : j \in Nat /\ j <= i
        BY <1>0, <4>1, <4>2
      <4>4. \A j : j \in (n + 1)..N /\ j <= i <=> j \in (n + 1)..i
        BY <1>0, <4>1
      <4> QED
        BY <4>3, <4>4
    <3>2. Cardinality(P \cup ((n + 1)..i)) = p + (i - n)
      BY <1>2, <2>1
    <3>3. p + (i - n) = k
      BY <1>0, <1>1
    <3> QED
      BY <3>1, <3>2, <3>3 DEF Rank
  <2> HIDE DEF Q, i
  <2>3. (CHOOSE j \in Q : Rank(Q, j) = k) = i
    BY <1>3, <2>1, <2>2, PlaceOfRank
  <2> QED
    BY <2>3 DEF i
<1> DEFINE a == Kept(s, P)
           b == SubSeq(s, n + 1, N)
           m == N - n
<1>6. /\ b \in Seq(S) /\ Len(b) = m /\ m \in Nat
      /\ \A j \in 1..m : b[j] = s[n + j]
  BY <1>0 DEF N
<1>7. a \in Seq(S) /\ Len(a) = p
  <2>1. P \in SUBSET (1..Len(s))
    BY <1>0 DEF N
  <2> QED
    BY <2>1, KeptProperties
<1>8. \A k \in 1..p : a[k] = s[CHOOSE i \in P : Rank(P, i) = k]
  BY Zenon DEF Kept
<1>9. Kept(s, Q) = [k \in 1..(p + m) |-> s[CHOOSE i \in Q : Rank(Q, i) = k]]
  BY <1>3, Zenon DEF Kept
<1>10. a \o b = [k \in 1..(p + m) |-> IF k <= p THEN a[k] ELSE b[k - p]]
  <2> HIDE DEF a, b, p, m
  <2>1. a \o b = [k \in 1..(Len(a) + Len(b)) |-> IF k <= Len(a) THEN a[k] ELSE b[k - Len(a)]]
    <3> DEFINE c == a \o b
    <3>1. /\ c \in Seq(S) /\ Len(c) = Len(a) + Len(b)
          /\ \A k \in 1..(Len(a) + Len(b)) : c[k] = IF k <= Len(a) THEN a[k] ELSE b[k - Len(a)]
      <4>1. a \in Seq(S) /\ b \in Seq(S)
        BY <1>6, <1>7
      <4> QED
        BY <4>1, SMTT(30)
    <3> HIDE DEF c
    <3>2. c = [k \in 1..Len(c) |-> c[k]]
      BY <3>1
    <3> QED
      BY <3>1, <3>2 DEF c
  <2> QED
    BY <1>6, <1>7, <2>1, Zenon
<1> HIDE DEF Q, a, b
<1>11. ASSUME NEW k \in 1..(p + m)
       PROVE  s[CHOOSE i \in Q : Rank(Q, i) = k] = IF k <= p THEN a[k] ELSE b[k - p]
  <2>1. CASE k <= p
    <3>1. k \in 1..p
      BY <1>1, <1>6, <2>1
    <3> QED
      BY <1>4, <1>8, <2>1, <3>1
  <2>2. CASE ~(k <= p)
    <3>1. k \in (p + 1)..(p + m) /\ k - p \in 1..m
      BY <1>1, <1>6, <2>2
    <3> QED
      BY <1>5, <1>6, <2>2, <3>1
  <2> QED
    BY <2>1, <2>2
<1>12. Kept(s, Q) = a \o b
  BY <1>9, <1>10, <1>11
<1> QED
  BY <1>12 DEF Q, a, b, N
================================================================================
