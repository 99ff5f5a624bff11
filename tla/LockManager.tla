------------------------------ MODULE LockManager ------------------------------
(***************************************************************************)
(* The lock table of LockManager.cpp: shared and exclusive locks on named  *)
(* objects, one mutex around the whole table and ONE condition variable    *)
(* for all waiters of all objects.                                         *)
(*                                                                         *)
(* Every public method runs under table_mutex, and gives it up only inside *)
(* cv.wait.  An action is therefore one stretch of code between two        *)
(* releases of the mutex: a call that returns at once, a call up to the    *)
(* point where it sleeps, and the re-evaluation of the wait predicate      *)
(* after a wakeup.                                                         *)
(*                                                                         *)
(* The callers are transactions, each driven by one thread, that lock      *)
(* objects in any order and release everything at the end.                 *)
(***************************************************************************)
EXTENDS Naturals, Sequences, FiniteSets

CONSTANTS
    Tx,      \* the transaction identifiers (the code's int tx_id, never -1)
    Obj,     \* the lockable objects (table or row names)
    NoTx     \* exclusive_txn == -1: nobody holds the exclusive lock

ASSUME NoTxAssumption == NoTx \notin Tx

LockType == {"SHARED", "EXCLUSIVE"}

LockRequest == [tx : Tx, type : LockType]

LockEntry == [shared : SUBSET Tx,            \* shared_txns
              exclusive : Tx \cup {NoTx},    \* exclusive_txn
              queue : Seq(LockRequest)]      \* waiting_queue

\* Where a blocked transaction sleeps: the frame of its acquire call.
Sleep == [obj : Obj, type : LockType]

VARIABLES
    lockTable,   \* lock_table: object -> LockEntry
    asleep,      \* transaction -> the set of calls it is blocked in ({} or one)
    signalled    \* blocked transactions that cv.notify_all has made runnable

vars == <<lockTable, asleep, signalled>>

TypeOK ==
    /\ lockTable \in [Obj -> LockEntry]
    /\ asleep \in [Tx -> SUBSET Sleep]
    /\ signalled \subseteq Tx

Init ==
    /\ lockTable = [o \in Obj |-> [shared |-> {}, exclusive |-> NoTx, queue |-> <<>>]]
    /\ asleep = [t \in Tx |-> {}]
    /\ signalled = {}

-----------------------------------------------------------------------------
\* The conditions of acquireSharedLock and acquireExclusiveLock, which are
\* the wait predicates too.

ExclusiveFreeFor(e, t) == e.exclusive \in {NoTx, t}

\* Mutant of MayAcquire: an exclusive request forgets the shared holders.
MayAcquireOverReaders(e, t, type) == ExclusiveFreeFor(e, t)

MayAcquire(e, t, type) ==
    /\ ExclusiveFreeFor(e, t)
    /\ type = "EXCLUSIVE" => e.shared \subseteq {t}

\* What an acquire does to the entry once its condition holds.  The exclusive
\* lock swallows the shared lock of the same transaction (an upgrade).
Granted(e, t, type) ==
    IF type = "SHARED"
    THEN [e EXCEPT !.shared = @ \cup {t}]
    ELSE [e EXCEPT !.exclusive = t, !.shared = @ \ {t}]

\* The test releaseLocks makes on the request at the head of a queue.  It
\* does not look at who asks: a pending upgrade meets its own shared lock.
CanAcquire(e, r) ==
    /\ e.exclusive = NoTx
    /\ r.type = "EXCLUSIVE" => e.shared = {}

-----------------------------------------------------------------------------

Running(t) == asleep[t] = {}

\* acquireSharedLock / acquireExclusiveLock when the lock is available.
AcquireAtOnce(t, o, type) ==
    /\ Running(t)
    /\ MayAcquire(lockTable[o], t, type)
    /\ lockTable' = [lockTable EXCEPT ![o] = Granted(@, t, type)]
    /\ UNCHANGED <<asleep, signalled>>

\* The same calls when it is not: the request is queued and the thread sleeps.
AcquireBlocks(t, o, type) ==
    /\ Running(t)
    /\ ~MayAcquire(lockTable[o], t, type)
    /\ lockTable' = [lockTable EXCEPT ![o].queue = Append(@, [tx |-> t, type |-> type])]
    /\ asleep' = [asleep EXCEPT ![t] = {[obj |-> o, type |-> type]}]
    /\ UNCHANGED signalled

\* A sleeper evaluates its predicate, after a notification or spuriously, and
\* finds it true: the loop ends and the lock is taken.  Its request stays in
\* the queue if nobody popped it.
WakeAndAcquire(t) ==
    \E s \in asleep[t] :
        /\ MayAcquire(lockTable[s.obj], t, s.type)
        /\ lockTable' = [lockTable EXCEPT ![s.obj] = Granted(@, t, s.type)]
        /\ asleep' = [asleep EXCEPT ![t] = {}]
        /\ signalled' = signalled \ {t}

\* A sleeper finds its predicate false: cv.wait(lk, pred) sleeps again without
\* returning, so the request is NOT queued a second time.
WakeInVain(t) ==
    /\ t \in signalled
    /\ \E s \in asleep[t] : ~MayAcquire(lockTable[s.obj], t, s.type)
    /\ signalled' = signalled \ {t}
    /\ UNCHANGED <<lockTable, asleep>>

\* Mutant of PoppedCount: an if where the code has a while, so one request
\* at most leaves the queue.
PoppedAtMostOne(e, q) == IF q # <<>> /\ CanAcquire(e, q[1]) THEN 1 ELSE 0

\* How many requests releaseLocks pops off queue q of entry e: the longest
\* prefix of requests that can be acquired.  Nothing is granted while it
\* pops, so requests that exclude each other are popped together.
PoppedCount(e, q) ==
    CHOOSE n \in 0..Len(q) :
        /\ \A i \in 1..n : CanAcquire(e, q[i])
        /\ n < Len(q) => ~CanAcquire(e, q[n + 1])

\* Mutants of Dropped: the exclusive lock is reset to 0, which is a
\* transaction's name, instead of -1; it is reset whoever holds it.
DroppedToZero(e, t) ==
    [e EXCEPT !.shared = @ \ {t},
              !.exclusive = IF @ = t THEN 0 ELSE @]
DroppedForAll(e, t) == [e EXCEPT !.shared = @ \ {t}, !.exclusive = NoTx]

\* An entry without the locks of t.
Dropped(e, t) ==
    [e EXCEPT !.shared = @ \ {t},
              !.exclusive = IF @ = t THEN NoTx ELSE @]

AfterRelease(e, t) ==
    LET d == Dropped(e, t)
    IN  [d EXCEPT !.queue = SubSeq(@, PoppedCount(d, @) + 1, Len(@))]

Sleepers == {t \in Tx : asleep[t] # {}}

\* releaseLocks(t): one pass over every entry of the table, whether t holds
\* something in it or not; each pop is followed by cv.notify_all().
ReleaseLocks(t) ==
    /\ Running(t)
    /\ lockTable' = [o \in Obj |-> AfterRelease(lockTable[o], t)]
    /\ signalled' = IF \E o \in Obj : PoppedCount(Dropped(lockTable[o], t), lockTable[o].queue) > 0
                    THEN signalled \cup Sleepers
                    ELSE signalled
    /\ UNCHANGED asleep

Acquire(t) ==
    \E o \in Obj, type \in LockType : AcquireAtOnce(t, o, type) \/ AcquireBlocks(t, o, type)

Next ==
    \E t \in Tx :
        \/ Acquire(t)
        \/ WakeAndAcquire(t)
        \/ WakeInVain(t)
        \/ ReleaseLocks(t)

Spec == Init /\ [][Next]_vars

-----------------------------------------------------------------------------
(***************************************************************************)
(* Safety.                                                                 *)
(***************************************************************************)

Holds(t, o) == t \in lockTable[o].shared \/ lockTable[o].exclusive = t

\* While a transaction holds an object exclusively nobody else holds it in
\* any mode, through upgrades, re-acquisition in a weaker mode and barging
\* past the queue (acquireSharedLock, acquireExclusiveLock).
Exclusion ==
    \A o \in Obj :
        lockTable[o].exclusive # NoTx => lockTable[o].shared \subseteq {lockTable[o].exclusive}

\* The request at the head of a queue is always one that the locks held now
\* exclude: releaseLocks leaves no grantable head behind, and no acquire or
\* upgrade makes one.  In particular an object nobody holds has no queue.
HeadIsExcluded ==
    \A o \in Obj :
        lockTable[o].queue # <<>> => ~CanAcquire(lockTable[o], Head(lockTable[o].queue))

\* A sleeper whose request is still at the head of the queue of the object it
\* waits for, and who is not upgrading its own shared lock, is asleep for a
\* reason: some OTHER transaction holds the object (no wakeup is lost for the
\* first in line, unlike for the ones behind it).
FirstInLineIsExcluded ==
    \A t \in Tx : \A s \in asleep[t] :
        LET e == lockTable[s.obj]
        IN  /\ e.queue # <<>>
            /\ Head(e.queue) = [tx |-> t, type |-> s.type]
            /\ t \notin e.shared
            => \E u \in Tx \ {t} : Holds(u, s.obj)

\* A transaction loses a lock, or falls back from exclusive to shared, only
\* by its own releaseLocks: another transaction's acquire, upgrade, wakeup or
\* release never takes or weakens it.
NoLockStolen ==
    [][\A t \in Tx, o \in Obj :
          \/ ReleaseLocks(t)
          \/ /\ Holds(t, o) => Holds(t, o)'
             /\ lockTable[o].exclusive = t => lockTable'[o].exclusive = t]_vars

=============================================================================
