-------------------------- MODULE LockManagerProofs --------------------------
(***************************************************************************)
(* Proofs about LockManager for every set of transactions and objects.     *)
(*                                                                         *)
(* IInv is inductive.  HeadIsExcluded and Exclusion support each other     *)
(* through nothing but the types; FirstInLineIsExcluded needs the last     *)
(* conjunct, that a sleeper cannot itself hold what it waits for           *)
(* exclusively.                                                            *)
(***************************************************************************)
EXTENDS LockManager, FiniteFacts, SequenceTheorems, TLAPS

\* A transaction that sleeps does not hold the object it waits for in
\* exclusive mode: it would not have blocked, and it acquires nothing while
\* it sleeps.
SleeperNotExclusive ==
    \A t \in Tx : \A s \in asleep[t] : lockTable[s.obj].exclusive # t

IInv ==
    /\ TypeOK
    /\ Exclusion
    /\ HeadIsExcluded
    /\ SleeperNotExclusive

-----------------------------------------------------------------------------
\* The longest grantable prefix of a queue exists, so PoppedCount is what
\* its description says.
LEMMA PoppedCountIsMaximal ==
    ASSUME NEW e \in LockEntry, NEW q \in Seq(LockRequest)
    PROVE  /\ PoppedCount(e, q) \in 0..Len(q)
           /\ PoppedCount(e, q) < Len(q) => ~CanAcquire(e, q[PoppedCount(e, q) + 1])
<1> DEFINE Blocked == {i \in 1..Len(q) : ~CanAcquire(e, q[i])}
           IsCount(n) == /\ \A i \in 1..n : CanAcquire(e, q[i])
                         /\ n < Len(q) => ~CanAcquire(e, q[n + 1])
<1>0. Len(q) \in Nat
  BY LenProperties
<1>1. \E n \in 0..Len(q) : IsCount(n)
  <2>1. CASE Blocked = {}
    <3>1. IsCount(Len(q))
      BY <2>1, <1>0
    <3> QED
      BY <3>1, <1>0
  <2>2. CASE Blocked # {}
    <3>1. Blocked \in SUBSET Nat
      BY <1>0
    <3>2. PICK m \in Blocked : \A k \in Blocked : m <= k
      BY <3>1, <2>2, LeastElement
    <3>3. m \in 1..Len(q) /\ ~CanAcquire(e, q[m])
      BY <3>2
    <3>4. \A i \in 1..(m - 1) : CanAcquire(e, q[i])
      BY <3>2, <3>3, <1>0
    <3>5. (m - 1) \in 0..Len(q) /\ (m - 1) + 1 = m
      BY <3>3, <1>0
    <3>6. IsCount(m - 1)
      BY <3>3, <3>4, <3>5
    <3> QED
      BY <3>5, <3>6
  <2> QED
    BY <2>1, <2>2
<1>2. PoppedCount(e, q) = CHOOSE n \in 0..Len(q) : IsCount(n)
  BY DEF PoppedCount
<1>3. PoppedCount(e, q) \in 0..Len(q) /\ IsCount(PoppedCount(e, q))
  BY <1>1, <1>2
<1> QED
  BY <1>3

\* releaseLocks leaves a well-formed entry whose head, if any, is excluded.
LEMMA AfterReleaseProperties ==
    ASSUME NEW e \in LockEntry, NEW t \in Tx
    PROVE  /\ AfterRelease(e, t) \in LockEntry
           /\ AfterRelease(e, t).shared = e.shared \ {t}
           /\ AfterRelease(e, t).exclusive = IF e.exclusive = t THEN NoTx ELSE e.exclusive
           /\ AfterRelease(e, t).queue # <<>> =>
                ~CanAcquire(AfterRelease(e, t), Head(AfterRelease(e, t).queue))
<1> DEFINE d == Dropped(e, t)
           q == e.queue
           n == PoppedCount(d, q)
           rest == SubSeq(q, n + 1, Len(q))
           r == AfterRelease(e, t)
<1>1. q \in Seq(LockRequest) /\ Len(q) \in Nat
  BY LenProperties DEF LockEntry
<1>2. /\ d \in LockEntry
      /\ d.queue = q
      /\ d.shared = e.shared \ {t}
      /\ d.exclusive = IF e.exclusive = t THEN NoTx ELSE e.exclusive
  BY DEF Dropped, LockEntry
<1>3. n \in 0..Len(q) /\ (n < Len(q) => ~CanAcquire(d, q[n + 1]))
  BY <1>1, <1>2, PoppedCountIsMaximal
<1>4. /\ rest \in Seq(LockRequest)
      /\ Len(rest) = Len(q) - n
      /\ rest # <<>> => n < Len(q) /\ Head(rest) = q[n + 1]
  <2>1. rest \in Seq(LockRequest)
    <3>1. \A i \in (n + 1)..Len(q) : q[i] \in LockRequest
      BY <1>1, <1>3, ElementOfSeq
    <3> QED
      BY <1>1, <1>3, <3>1, SubSeqProperties
  <2>2. Len(rest) = Len(q) - n
    BY <1>1, <1>3, SubSeqProperties
  <2>3. rest # <<>> => n < Len(q)
    BY <1>1, <1>3, <2>1, <2>2, EmptySeq
  <2>4. n < Len(q) => Head(rest) = q[n + 1]
    BY <1>1, <1>3, HeadTailOfSubSeq
  <2> QED
    BY <2>1, <2>2, <2>3, <2>4
<1>5. r = [d EXCEPT !.queue = rest]
  BY <1>2 DEF AfterRelease
<1>6. /\ r \in LockEntry
      /\ r.queue = rest
      /\ r.shared = d.shared
      /\ r.exclusive = d.exclusive
  BY <1>2, <1>4, <1>5 DEF LockEntry
<1>7. \A x \in LockRequest : CanAcquire(r, x) <=> CanAcquire(d, x)
  BY <1>6 DEF CanAcquire
<1>8. r.queue # <<>> => ~CanAcquire(r, Head(r.queue))
  <2> SUFFICES ASSUME rest # <<>> PROVE ~CanAcquire(d, q[n + 1])
    BY <1>4, <1>6 DEF CanAcquire
  <2> QED
    BY <1>3, <1>4
<1> QED
  BY <1>2, <1>6, <1>8

\* A grant leaves a well-formed entry with the same queue, respects mutual
\* exclusion and cannot make the head of the queue grantable.
LEMMA GrantedProperties ==
    ASSUME NEW e \in LockEntry, NEW t \in Tx, NEW type \in LockType,
           MayAcquire(e, t, type),
           e.exclusive # NoTx => e.shared \subseteq {e.exclusive}
    PROVE  LET g == Granted(e, t, type)
           IN  /\ g \in LockEntry
               /\ g.queue = e.queue
               /\ g.exclusive \in {e.exclusive, t}
               /\ g.exclusive # NoTx => g.shared \subseteq {g.exclusive}
               /\ \A x \in LockRequest : CanAcquire(g, x) => CanAcquire(e, x)
<1>1. CASE type = "SHARED"
  BY <1>1, NoTxAssumption DEF Granted, MayAcquire, ExclusiveFreeFor, LockEntry, CanAcquire
<1>2. CASE type = "EXCLUSIVE"
  BY <1>2, NoTxAssumption DEF Granted, MayAcquire, ExclusiveFreeFor, LockEntry, CanAcquire
<1> QED
  BY <1>1, <1>2 DEF LockType

-----------------------------------------------------------------------------
LEMMA InitIInv == Init => IInv
<1> SUFFICES ASSUME Init PROVE IInv
  OBVIOUS
<1>1. <<>> \in Seq(LockRequest)
  BY EmptySeq
<1>2. TypeOK
  BY <1>1 DEF Init, TypeOK, LockEntry
<1> QED
  BY <1>2 DEF Init, IInv, Exclusion, HeadIsExcluded, SleeperNotExclusive

\* A grant to t on o, by a first try or after a wakeup, preserves what IInv
\* says of the lock table.
LEMMA GrantStep ==
    ASSUME IInv, NEW t \in Tx, NEW o \in Obj, NEW type \in LockType,
           MayAcquire(lockTable[o], t, type),
           lockTable' = [lockTable EXCEPT ![o] = Granted(@, t, type)],
           asleep' \in [Tx -> SUBSET Sleep],
           asleep'[t] = {},
           \A u \in Tx : asleep'[u] \subseteq asleep[u],
           signalled' \subseteq Tx
    PROVE  IInv'
<1> DEFINE e == lockTable[o]
           g == Granted(e, t, type)
<1>1. lockTable \in [Obj -> LockEntry] /\ e \in LockEntry
  BY DEF IInv, TypeOK
<1>2. /\ g \in LockEntry
      /\ g.queue = e.queue
      /\ g.exclusive \in {e.exclusive, t}
      /\ g.exclusive # NoTx => g.shared \subseteq {g.exclusive}
      /\ \A x \in LockRequest : CanAcquire(g, x) => CanAcquire(e, x)
  BY <1>1, GrantedProperties DEF IInv, Exclusion
<1>3. lockTable' = [lockTable EXCEPT ![o] = g]
  OBVIOUS
<1> HIDE DEF g
<1>4. TypeOK'
  BY <1>1, <1>2, <1>3 DEF TypeOK
<1>5. Exclusion'
  BY <1>1, <1>2, <1>3 DEF IInv, Exclusion
<1>6. HeadIsExcluded'
  <2> SUFFICES ASSUME NEW p \in Obj, lockTable'[p].queue # <<>>
               PROVE  ~CanAcquire(lockTable'[p], Head(lockTable'[p].queue))
    BY DEF HeadIsExcluded
  <2>1. CASE p = o
    <3>1. e.queue \in Seq(LockRequest) /\ e.queue # <<>>
      BY <1>1, <1>2, <1>3, <2>1 DEF LockEntry
    <3>2. Head(e.queue) \in LockRequest
      BY <3>1, HeadTailProperties
    <3>3. ~CanAcquire(e, Head(e.queue))
      BY <3>1 DEF IInv, HeadIsExcluded
    <3> QED
      BY <1>1, <1>2, <1>3, <2>1, <3>2, <3>3
  <2>2. CASE p # o
    BY <1>1, <1>3, <2>2 DEF IInv, HeadIsExcluded
  <2> QED
    BY <2>1, <2>2
<1>7. SleeperNotExclusive'
  <2> SUFFICES ASSUME NEW u \in Tx, NEW s \in asleep'[u]
               PROVE  lockTable'[s.obj].exclusive # u
    BY DEF SleeperNotExclusive
  <2>1. s \in asleep[u] /\ u # t /\ s.obj \in Obj
    BY DEF IInv, TypeOK, Sleep
  <2>2. lockTable[s.obj].exclusive # u
    BY <2>1 DEF IInv, SleeperNotExclusive
  <2> QED
    BY <1>1, <1>2, <1>3, <2>1, <2>2
<1> QED
  BY <1>4, <1>5, <1>6, <1>7 DEF IInv

LEMMA BlockStep ==
    ASSUME IInv, NEW t \in Tx, NEW o \in Obj, NEW type \in LockType,
           AcquireBlocks(t, o, type)
    PROVE  IInv'
<1> DEFINE e == lockTable[o]
           r == [tx |-> t, type |-> type]
           b == [e EXCEPT !.queue = Append(@, r)]
<1>1. /\ lockTable \in [Obj -> LockEntry]
      /\ e \in LockEntry
      /\ e.queue \in Seq(LockRequest)
      /\ r \in LockRequest
      /\ [obj |-> o, type |-> type] \in Sleep
  BY DEF IInv, TypeOK, LockEntry, LockRequest, Sleep
<1>2. /\ Append(e.queue, r) \in Seq(LockRequest)
      /\ Head(Append(e.queue, r)) = IF e.queue = <<>> THEN r ELSE Head(e.queue)
  BY <1>1, AppendProperties, EmptySeq
<1>3. /\ b \in LockEntry
      /\ b.queue = Append(e.queue, r)
      /\ b.shared = e.shared
      /\ b.exclusive = e.exclusive
  BY <1>1, <1>2 DEF LockEntry
<1>4. lockTable' = [lockTable EXCEPT ![o] = b]
  BY DEF AcquireBlocks
<1> HIDE DEF b
<1>5. TypeOK'
  <2>1. asleep' \in [Tx -> SUBSET Sleep]
    BY <1>1 DEF AcquireBlocks, IInv, TypeOK
  <2> QED
    BY <1>1, <1>3, <1>4, <2>1 DEF AcquireBlocks, IInv, TypeOK
<1>6. Exclusion'
  BY <1>1, <1>3, <1>4 DEF IInv, Exclusion
<1>7. HeadIsExcluded'
  <2> SUFFICES ASSUME NEW p \in Obj, lockTable'[p].queue # <<>>
               PROVE  ~CanAcquire(lockTable'[p], Head(lockTable'[p].queue))
    BY DEF HeadIsExcluded
  <2>1. CASE p = o
    <3>1. lockTable'[p] = b
      BY <1>1, <1>4, <2>1
    <3>2. CASE e.queue = <<>>
      <4>1. ~CanAcquire(e, r)
        BY <1>1 DEF AcquireBlocks, MayAcquire, ExclusiveFreeFor, CanAcquire, LockType,
                    LockEntry
      <4> QED
        BY <1>2, <1>3, <3>1, <3>2, <4>1 DEF CanAcquire
    <3>3. CASE e.queue # <<>>
      <4>1. ~CanAcquire(e, Head(e.queue))
        BY <3>3 DEF IInv, HeadIsExcluded
      <4> QED
        BY <1>2, <1>3, <3>1, <3>3, <4>1 DEF CanAcquire
    <3> QED
      BY <3>2, <3>3
  <2>2. CASE p # o
    BY <1>1, <1>4, <2>2 DEF IInv, HeadIsExcluded
  <2> QED
    BY <2>1, <2>2
<1>8. SleeperNotExclusive'
  <2> SUFFICES ASSUME NEW u \in Tx, NEW s \in asleep'[u]
               PROVE  lockTable'[s.obj].exclusive # u
    BY DEF SleeperNotExclusive
  <2>1. CASE u = t
    <3>1. s = [obj |-> o, type |-> type]
      BY <2>1 DEF AcquireBlocks, IInv, TypeOK
    <3>2. e.exclusive # t
      BY NoTxAssumption DEF AcquireBlocks, MayAcquire, ExclusiveFreeFor, IInv, Exclusion
    <3> QED
      BY <1>1, <1>3, <1>4, <2>1, <3>1, <3>2
  <2>2. CASE u # t
    <3>1. s \in asleep[u] /\ s.obj \in Obj
      BY <2>2 DEF AcquireBlocks, IInv, TypeOK, Sleep
    <3>2. lockTable[s.obj].exclusive # u
      BY <3>1 DEF IInv, SleeperNotExclusive
    <3> QED
      BY <1>1, <1>3, <1>4, <3>1, <3>2
  <2> QED
    BY <2>1, <2>2
<1> QED
  BY <1>5, <1>6, <1>7, <1>8 DEF IInv

LEMMA ReleaseStep ==
    ASSUME IInv, NEW t \in Tx, ReleaseLocks(t)
    PROVE  IInv'
<1>1. /\ lockTable \in [Obj -> LockEntry]
      /\ asleep \in [Tx -> SUBSET Sleep]
  BY DEF IInv, TypeOK
<1>2. \A o \in Obj : lockTable'[o] = AfterRelease(lockTable[o], t)
  BY DEF ReleaseLocks
<1>3. \A o \in Obj :
        LET r == AfterRelease(lockTable[o], t)
        IN  /\ r \in LockEntry
            /\ r.shared = lockTable[o].shared \ {t}
            /\ r.exclusive = IF lockTable[o].exclusive = t THEN NoTx ELSE lockTable[o].exclusive
            /\ r.queue # <<>> => ~CanAcquire(r, Head(r.queue))
  BY <1>1, AfterReleaseProperties
<1>4. TypeOK'
  <2>1. lockTable' \in [Obj -> LockEntry]
    BY <1>3 DEF ReleaseLocks
  <2>2. signalled' \subseteq Tx
    BY DEF ReleaseLocks, Sleepers, IInv, TypeOK
  <2> QED
    BY <1>1, <2>1, <2>2 DEF ReleaseLocks, TypeOK
<1>5. Exclusion'
  BY <1>2, <1>3 DEF IInv, Exclusion
<1>6. HeadIsExcluded'
  BY <1>2, <1>3 DEF HeadIsExcluded
<1>7. SleeperNotExclusive'
  <2> SUFFICES ASSUME NEW u \in Tx, NEW s \in asleep'[u]
               PROVE  lockTable'[s.obj].exclusive # u
    BY DEF SleeperNotExclusive
  <2>1. s \in asleep[u] /\ s.obj \in Obj
    BY <1>1 DEF ReleaseLocks, Sleep
  <2>2. lockTable[s.obj].exclusive # u
    BY <2>1 DEF IInv, SleeperNotExclusive
  <2> QED
    BY <1>2, <1>3, <2>1, <2>2, NoTxAssumption
<1> QED
  BY <1>4, <1>5, <1>6, <1>7 DEF IInv

LEMMA NextIInv == IInv /\ [Next]_vars => IInv'
<1> SUFFICES ASSUME IInv, [Next]_vars PROVE IInv'
  OBVIOUS
<1>1. CASE UNCHANGED vars
  BY <1>1 DEF vars, IInv, TypeOK, Exclusion, HeadIsExcluded, SleeperNotExclusive
<1>2. ASSUME NEW t \in Tx, NEW o \in Obj, NEW type \in LockType, AcquireAtOnce(t, o, type)
      PROVE  IInv'
  BY <1>2, GrantStep DEF AcquireAtOnce, Running, IInv, TypeOK
<1>3. ASSUME NEW t \in Tx, NEW o \in Obj, NEW type \in LockType, AcquireBlocks(t, o, type)
      PROVE  IInv'
  BY <1>3, BlockStep
<1>4. ASSUME NEW t \in Tx, WakeAndAcquire(t)
      PROVE  IInv'
  <2>1. PICK s \in asleep[t] :
          /\ MayAcquire(lockTable[s.obj], t, s.type)
          /\ lockTable' = [lockTable EXCEPT ![s.obj] = Granted(@, t, s.type)]
          /\ asleep' = [asleep EXCEPT ![t] = {}]
          /\ signalled' = signalled \ {t}
    BY <1>4 DEF WakeAndAcquire
  <2>2. s.obj \in Obj /\ s.type \in LockType
    BY DEF IInv, TypeOK, Sleep
  <2>3. /\ asleep' \in [Tx -> SUBSET Sleep]
        /\ asleep'[t] = {}
        /\ \A u \in Tx : asleep'[u] \subseteq asleep[u]
        /\ signalled' \subseteq Tx
    BY <2>1 DEF IInv, TypeOK
  <2> QED
    BY <2>1, <2>2, <2>3, GrantStep
<1>5. ASSUME NEW t \in Tx, WakeInVain(t)
      PROVE  IInv'
  BY <1>5 DEF WakeInVain, IInv, TypeOK, Exclusion, HeadIsExcluded, SleeperNotExclusive
<1>6. ASSUME NEW t \in Tx, ReleaseLocks(t)
      PROVE  IInv'
  BY <1>6, ReleaseStep
<1> QED
  BY <1>1, <1>2, <1>3, <1>4, <1>5, <1>6 DEF Next, Acquire

\* The inductive invariant holds in every reachable state of the lock table.
THEOREM IInvHolds == Spec => []IInv
BY InitIInv, NextIInv, PTL DEF Spec

-----------------------------------------------------------------------------
\* Every reachable lock table is well-typed.
THEOREM TypeCorrect == Spec => []TypeOK
<1>1. IInv => TypeOK
  BY DEF IInv
<1> QED
  BY <1>1, IInvHolds, PTL

\* No transaction holds an object while another holds it exclusively, for
\* any number of transactions and objects.
THEOREM MutualExclusion == Spec => []Exclusion
<1>1. IInv => Exclusion
  BY DEF IInv
<1> QED
  BY <1>1, IInvHolds, PTL

\* releaseLocks never leaves a grantable request at the head of a queue, and
\* nothing that happens later makes one.
THEOREM HeadsAreExcluded == Spec => []HeadIsExcluded
<1>1. IInv => HeadIsExcluded
  BY DEF IInv
<1> QED
  BY <1>1, IInvHolds, PTL

\* The first in line sleeps only while another transaction holds the object.
THEOREM FirstInLine == Spec => []FirstInLineIsExcluded
<1>1. IInv => FirstInLineIsExcluded
  <2> SUFFICES ASSUME IInv, NEW t \in Tx, NEW s \in asleep[t],
                      lockTable[s.obj].queue # <<>>,
                      Head(lockTable[s.obj].queue) = [tx |-> t, type |-> s.type],
                      t \notin lockTable[s.obj].shared
               PROVE  \E u \in Tx \ {t} : Holds(u, s.obj)
    BY DEF FirstInLineIsExcluded
  <2> DEFINE e == lockTable[s.obj]
  <2>1. s.obj \in Obj /\ e \in LockEntry
    BY DEF IInv, TypeOK, Sleep
  <2>2. ~CanAcquire(e, [tx |-> t, type |-> s.type])
    BY <2>1 DEF IInv, HeadIsExcluded
  <2>3. e.exclusive # t
    BY DEF IInv, SleeperNotExclusive
  <2>4. CASE e.exclusive # NoTx
    BY <2>1, <2>3, <2>4 DEF Holds, LockEntry
  <2>5. CASE e.exclusive = NoTx
    <3>1. PICK u \in e.shared : TRUE
      BY <2>2, <2>5 DEF CanAcquire
    <3>2. u \in Tx \ {t}
      BY <2>1, <3>1 DEF LockEntry
    <3> QED
      BY <3>1, <3>2 DEF Holds
  <2> QED
    BY <2>4, <2>5
<1> QED
  BY <1>1, IInvHolds, PTL

\* A lock is lost or weakened only by its own holder's releaseLocks.
THEOREM LocksAreNotStolen == Spec => NoLockStolen
<1> DEFINE Unharmed(t, o) == /\ Holds(t, o) => Holds(t, o)'
                             /\ lockTable[o].exclusive = t => lockTable'[o].exclusive = t
<1>1. ASSUME IInv, [Next]_vars
      PROVE  [\A t \in Tx, o \in Obj :
                 \/ ReleaseLocks(t)
                 \/ /\ Holds(t, o) => Holds(t, o)'
                    /\ lockTable[o].exclusive = t => lockTable'[o].exclusive = t]_vars
  <2> SUFFICES ASSUME NEW t \in Tx, NEW o \in Obj, ~ReleaseLocks(t)
               PROVE  Unharmed(t, o)
    OBVIOUS
  <2>1. lockTable \in [Obj -> LockEntry] /\ lockTable[o] \in LockEntry
    BY <1>1 DEF IInv, TypeOK
  <2>2. ASSUME NEW u \in Tx, NEW p \in Obj, NEW type \in LockType,
               MayAcquire(lockTable[p], u, type),
               lockTable' = [lockTable EXCEPT ![p] = Granted(@, u, type)]
        PROVE  Unharmed(t, o)
    <3>1. CASE p # o
      <4>1. lockTable'[o] = lockTable[o]
        BY <2>1, <2>2, <3>1
      <4> QED
        BY <4>1 DEF Holds
    <3>2. CASE p = o
      <4>1. lockTable'[o] = Granted(lockTable[o], u, type)
        BY <2>1, <2>2, <3>2
      <4>2. CASE type = "SHARED"
        <5>1. /\ lockTable'[o].shared = lockTable[o].shared \cup {u}
              /\ lockTable'[o].exclusive = lockTable[o].exclusive
          BY <2>1, <4>1, <4>2 DEF Granted, LockEntry
        <5> QED
          BY <5>1 DEF Holds
      <4>3. CASE type = "EXCLUSIVE"
        <5>1. lockTable'[o].exclusive = u
          BY <2>1, <4>1, <4>3 DEF Granted, LockEntry
        <5>2. Holds(t, o) => t = u
          BY <2>2, <3>2, <4>3, NoTxAssumption DEF Holds, MayAcquire, ExclusiveFreeFor
        <5> QED
          BY <5>1, <5>2 DEF Holds
      <4> QED
        BY <4>2, <4>3 DEF LockType
    <3> QED
      BY <3>1, <3>2
  <2>3. CASE UNCHANGED vars
    BY <2>3 DEF vars, Holds
  <2>4. ASSUME NEW u \in Tx, Acquire(u)
        PROVE  Unharmed(t, o)
    <3>1. CASE UNCHANGED lockTable
      BY <3>1 DEF Holds
    <3>2. ASSUME NEW p \in Obj, NEW type \in LockType, AcquireAtOnce(u, p, type)
          PROVE  Unharmed(t, o)
      BY <2>2, <3>2 DEF AcquireAtOnce
    <3>3. ASSUME NEW p \in Obj, NEW type \in LockType, AcquireBlocks(u, p, type)
          PROVE  Unharmed(t, o)
      <4>1. lockTable' = [lockTable EXCEPT ![p].queue = Append(@, [tx |-> u, type |-> type])]
        BY <3>3 DEF AcquireBlocks
      <4>2. /\ lockTable'[o].shared = lockTable[o].shared
            /\ lockTable'[o].exclusive = lockTable[o].exclusive
        BY <2>1, <4>1 DEF LockEntry
      <4> QED
        BY <4>2 DEF Holds
    <3> QED
      BY <2>4, <3>2, <3>3 DEF Acquire
  <2>5. ASSUME NEW u \in Tx, WakeAndAcquire(u)
        PROVE  Unharmed(t, o)
    <3>1. PICK s \in asleep[u] :
            /\ MayAcquire(lockTable[s.obj], u, s.type)
            /\ lockTable' = [lockTable EXCEPT ![s.obj] = Granted(@, u, s.type)]
      BY <2>5 DEF WakeAndAcquire
    <3>2. s.obj \in Obj /\ s.type \in LockType
      BY <1>1 DEF IInv, TypeOK, Sleep
    <3> QED
      BY <2>2, <3>1, <3>2
  <2>6. ASSUME NEW u \in Tx, WakeInVain(u)
        PROVE  Unharmed(t, o)
    BY <2>6 DEF WakeInVain, Holds
  <2>7. ASSUME NEW u \in Tx, ReleaseLocks(u)
        PROVE  Unharmed(t, o)
    <3>1. u # t
      BY <2>7
    <3>2. lockTable'[o] = AfterRelease(lockTable[o], u)
      BY <2>7 DEF ReleaseLocks
    <3>3. /\ lockTable'[o].shared = lockTable[o].shared \ {u}
          /\ lockTable'[o].exclusive = IF lockTable[o].exclusive = u THEN NoTx
                                       ELSE lockTable[o].exclusive
      BY <2>1, <3>2, AfterReleaseProperties
    <3> QED
      BY <3>1, <3>3 DEF Holds
  <2> QED
    BY <1>1, <2>3, <2>4, <2>5, <2>6, <2>7 DEF Next
<1> QED
  BY <1>1, IInvHolds, PTL DEF Spec, NoLockStolen
=============================================================================
