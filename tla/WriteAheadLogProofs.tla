------------------------- MODULE WriteAheadLogProofs -------------------------
(***************************************************************************)
(* Proofs about WriteAheadLog for every number of clients, operations and  *)
(* kills.                                                                  *)
(*                                                                         *)
(* The proofs look at All, the file with the buffer behind it, for a flush *)
(* does not change it: All changes only when a record is written to the    *)
(* buffer (it grows by one) and when the process is killed.                *)
(***************************************************************************)
EXTENDS WriteAheadLog, FiniteFacts, SequenceTheorems, TLAPS

All == file \o buffer

\* What a reader would find after a flush.
Log == ReadWALLog(All)

OpsOf(s) == {s[i].op : i \in 1..Len(s)}

\* Between BeginTransaction and the end of CommitTransaction.
InOperation(c) == stage[c] \notin {"outside", "ready", "initialize"}

\* Operations have numbers of their own, and what a thread is about to write
\* is its BEGIN record or its change.
OperationsDiffer ==
    /\ \A c \in Client : InOperation(c) =>
          running[c] \in 1..begun /\ rec[c].op \in {BeginMark, running[c]}
    /\ \A c, d \in Client :
          c # d /\ InOperation(c) /\ InOperation(d) => running[c] # running[d]

\* No operation is in the log twice, none before it has begun, and none whose
\* change its thread has yet to write.
LoggedInTime ==
    /\ \A i, j \in 1..Len(Log) : Log[i].op = Log[j].op /\ Log[i].op # BeginMark => i = j
    /\ \A i \in 1..Len(Log) : Log[i].op <= begun
    /\ \A c \in Client : InOperation(c) /\ stage[c] # "flush" => running[c] \notin OpsOf(Log)

IInv == TypeOK /\ OperationsDiffer /\ LoggedInTime

-----------------------------------------------------------------------------
(* No record is lost in a buffer with room for all clients. *)

\* The records that can be in the buffer: for each thread the BEGIN record and
\* the change of its operation, unless it has just emptied the buffer.
Buffered ==
    {w \in Client \X {1, 2} :
        \/ w[2] = 1 /\ InOperation(w[1]) /\ rec[w[1]].op # BeginMark /\ stage[w[1]] # "write_again"
        \/ w[2] = 2 /\ stage[w[1]] = "flush"}

\* After one client has made room, the records of all the others fit in the
\* buffer, and one more.
RoomForAll == IsFiniteSet(Client) /\ BufferCapacity > 2 * (Cardinality(Client) - 1)

\* What is committed or about to be is in the file or the buffer.
CommittedInv ==
    /\ Len(buffer) <= Cardinality(Buffered)
    /\ \A c \in Client : stage[c] = "flush" => running[c] \in OpsOf(All)
    /\ ToSet(committed) \subseteq OpsOf(file)

-----------------------------------------------------------------------------
(* LSNs follow the operations while threads take turns. *)

OneInside == \A c, d \in Client : c # d => ~ (Inside(c) /\ Inside(d))

EmptyBetween == (\A c \in Client : ~InOperation(c)) => buffer = <<>>

LatestRuns == \A c \in Client : InOperation(c) => running[c] = begun

\* A thread about to write has an LSN above all that are logged.
LsnsBelow ==
    \A i \in 1..Len(Log) : \A c \in Client :
        /\ stage[c] = "initialize" => Log[i].lsn <= rec[c].lsn
        /\ stage[c] \notin {"outside", "initialize"} => Log[i].lsn <= lastLsn
        /\ stage[c] \in {"set_lsn", "write", "make_room", "write_again"} => Log[i].lsn < rec[c].lsn

LsnIsSet ==
    \A c \in Client : stage[c] \in {"write", "make_room", "write_again"} => rec[c].lsn = lastLsn

Ordered ==
    \A i, j \in 1..Len(Log) :
        BeginMark # Log[i].op /\ Log[i].op < Log[j].op => Log[i].lsn < Log[j].lsn

TakeTurns ==
    OneInside /\ EmptyBetween /\ LatestRuns /\ LsnsBelow /\ LsnIsSet /\ Ordered

SerialInv == overlapped \/ TakeTurns

-----------------------------------------------------------------------------
(* ReadWALLog *)

\* The head of a cut-off record is no record.
LEMMA TornIsNoRecord == Torn \notin LogRecord
BY BoundsAssumption DEF Torn, LogRecord, Operation, BeginMark

\* ReadWALLog returns the records before the first damaged one.
LEMMA ReadProperties ==
    ASSUME NEW f \in Seq(LogRecord \cup {Torn})
    PROVE  /\ ReadWALLog(f) \in Seq(LogRecord)
           /\ Len(ReadWALLog(f)) \in Nat /\ Len(ReadWALLog(f)) <= Len(f)
           /\ \A i \in 1..Len(ReadWALLog(f)) :
                 i \in 1..Len(f) /\ ReadWALLog(f)[i] = f[i] /\ f[i] \in LogRecord
           /\ Len(ReadWALLog(f)) < Len(f) => f[Len(ReadWALLog(f)) + 1] = Torn
           /\ ~IsTorn(f) => ReadWALLog(f) = f
           /\ IsTorn(f) => Len(ReadWALLog(f)) < Len(f)
<1> DEFINE damaged == {i \in 1..Len(f) : f[i] = Torn}
<1>0. Len(f) \in Nat /\ \A i \in 1..Len(f) : f[i] \in LogRecord \cup {Torn}
  OBVIOUS
<1>1. CASE damaged = {}
  <2>1. ReadWALLog(f) = f
    BY <1>1 DEF ReadWALLog
  <2>2. \A i \in 1..Len(f) : f[i] \in LogRecord
    BY <1>0, <1>1
  <2>3. f \in Seq(LogRecord)
    BY <2>2
  <2>4. ~IsTorn(f)
    BY <1>1 DEF IsTorn
  <2> QED
    BY <1>0, <2>1, <2>2, <2>3, <2>4
<1>2. CASE damaged # {}
  <2> DEFINE n == Min(damaged)
             r == SubSeq(f, 1, n - 1)
  <2>1. n \in damaged /\ \A k \in damaged : n <= k
    <3>1. damaged \in SUBSET Nat
      BY <1>0
    <3>2. \E m \in damaged : \A k \in damaged : m <= k
      BY <1>2, <3>1, LeastElement
    <3> QED
      BY <3>2 DEF Min
  <2>2. ReadWALLog(f) = r
    BY <1>2 DEF ReadWALLog
  <2> HIDE DEF n
  <2>3. n \in 1..Len(f) /\ f[n] = Torn /\ n - 1 \in Nat
    BY <1>0, <2>1
  <2>4. \A i \in 1..(n - 1) : i \in 1..Len(f) /\ f[i] \in LogRecord
    BY <1>0, <2>1, <2>3
  <2>5. r \in Seq(LogRecord) /\ Len(r) = n - 1 /\ \A i \in 1..(n - 1) : r[i] = f[i]
    BY <2>3, <2>4, SubSeqProperties
  <2>6. IsTorn(f)
    BY <2>3 DEF IsTorn
  <2> HIDE DEF r
  <2>7. n - 1 < Len(f) /\ (n - 1) + 1 = n
    BY <1>0, <2>3
  <2> QED
    BY <1>0, <2>2, <2>3, <2>4, <2>5, <2>6, <2>7
<1> QED
  BY <1>1, <1>2

\* More bytes behind a log hide nothing of it, and add nothing to a torn one.
LEMMA ReadExtended ==
    ASSUME NEW f \in Seq(LogRecord \cup {Torn}), NEW g \in Seq(LogRecord \cup {Torn}),
           Len(f) <= Len(g), \A i \in 1..Len(f) : g[i] = f[i]
    PROVE  /\ Len(ReadWALLog(f)) <= Len(ReadWALLog(g))
           /\ \A i \in 1..Len(ReadWALLog(f)) : ReadWALLog(g)[i] = ReadWALLog(f)[i]
           /\ IsTorn(f) => ReadWALLog(g) = ReadWALLog(f)
<1> DEFINE a == ReadWALLog(f)
           b == ReadWALLog(g)
<1>1. /\ a \in Seq(LogRecord) /\ Len(a) \in Nat /\ Len(a) <= Len(f)
      /\ \A i \in 1..Len(a) : i \in 1..Len(f) /\ a[i] = f[i] /\ f[i] \in LogRecord
      /\ IsTorn(f) => Len(a) < Len(f)
      /\ Len(a) < Len(f) => f[Len(a) + 1] = Torn
  BY ReadProperties
<1>2. /\ b \in Seq(LogRecord) /\ Len(b) \in Nat /\ Len(b) <= Len(g)
      /\ \A i \in 1..Len(b) : i \in 1..Len(g) /\ b[i] = g[i] /\ g[i] \in LogRecord
      /\ Len(b) < Len(g) => g[Len(b) + 1] = Torn
  BY ReadProperties
<1> HIDE DEF a, b
<1>3. Len(f) \in Nat /\ Len(g) \in Nat
  OBVIOUS
<1>4. Len(a) <= Len(b)
  <2>1. SUFFICES ASSUME Len(b) < Len(a) PROVE FALSE
    BY <1>1, <1>2
  <2>2. Len(b) + 1 \in 1..Len(a) /\ Len(b) < Len(g)
    BY <1>1, <1>2, <1>3, <2>1
  <2>3. f[Len(b) + 1] \in LogRecord /\ g[Len(b) + 1] = Torn /\ g[Len(b) + 1] = f[Len(b) + 1]
    BY <1>1, <1>2, <2>2
  <2> QED
    BY <2>3, TornIsNoRecord
<1>5. \A i \in 1..Len(a) : i \in 1..Len(b) /\ b[i] = a[i]
  BY <1>1, <1>2, <1>4
<1>6. ASSUME IsTorn(f) PROVE b = a
  <2>1. Len(a) + 1 \in 1..Len(f) /\ f[Len(a) + 1] = Torn
    BY <1>1, <1>3, <1>6
  <2>2. g[Len(a) + 1] \notin LogRecord
    BY <2>1, TornIsNoRecord
  <2>3. ~ (Len(a) + 1 \in 1..Len(b))
    BY <1>2, <2>2
  <2>4. Len(b) = Len(a)
    BY <1>1, <1>2, <1>4, <2>3
  <2> QED
    BY <1>1, <1>2, <1>5, <2>4, SeqEqual
<1> QED
  BY <1>4, <1>5, <1>6 DEF a, b

\* One more record is read back unless the log is torn.
LEMMA ReadAppended ==
    ASSUME NEW f \in Seq(LogRecord \cup {Torn}), NEW r \in LogRecord
    PROVE  ReadWALLog(Append(f, r)) =
             IF IsTorn(f) THEN ReadWALLog(f) ELSE Append(ReadWALLog(f), r)
<1> DEFINE g == Append(f, r)
<1>1. /\ g \in Seq(LogRecord \cup {Torn}) /\ Len(g) = Len(f) + 1 /\ Len(f) \in Nat
      /\ \A i \in 1..Len(f) : g[i] = f[i]
      /\ g[Len(f) + 1] = r
  BY AppendProperties
<1>2. CASE IsTorn(f)
  <2> HIDE DEF g
  <2>1. Len(f) <= Len(g)
    BY <1>1
  <2>2. ReadWALLog(g) = ReadWALLog(f)
    BY <1>1, <1>2, <2>1, ReadExtended
  <2> QED
    BY <1>2, <2>2 DEF g
<1>3. CASE ~IsTorn(f)
  <2> HIDE DEF g
  <2>1. ~IsTorn(g)
    <3>1. SUFFICES ASSUME NEW i \in 1..(Len(f) + 1), g[i] = Torn PROVE FALSE
      BY <1>1 DEF IsTorn
    <3>2. CASE i = Len(f) + 1
      BY <1>1, <3>1, <3>2, TornIsNoRecord
    <3>3. CASE i # Len(f) + 1
      <4>1. i \in 1..Len(f)
        BY <1>1, <3>3
      <4> QED
        BY <1>1, <1>3, <3>1, <4>1 DEF IsTorn
    <3> QED
      BY <3>2, <3>3
  <2>2. ReadWALLog(g) = g /\ ReadWALLog(f) = f
    BY <1>1, <1>3, <2>1, ReadProperties
  <2> QED
    BY <1>3, <2>2 DEF g
<1> QED
  BY <1>2, <1>3

\* FindMaxLSN is at least 0 and at least every LSN that can be read.
LEMMA FindMaxProperties ==
    ASSUME NEW f \in Seq(LogRecord \cup {Torn})
    PROVE  /\ FindMaxLSN(f) \in Nat
           /\ \A i \in 1..Len(ReadWALLog(f)) : ReadWALLog(f)[i].lsn <= FindMaxLSN(f)
<1> DEFINE r == ReadWALLog(f)
           read == {r[i].lsn : i \in 1..Len(r)}
           lsn == [i \in 1..Len(r) |-> r[i].lsn]
           V == read \cup {0}
<1>1. r \in Seq(LogRecord) /\ Len(r) \in Nat
  BY ReadProperties
<1> HIDE DEF r
<1>2. \A i \in 1..Len(r) : r[i].lsn \in Nat
  <2>1. \A i \in 1..Len(r) : r[i] \in LogRecord
    BY <1>1
  <2>2. \A x \in LogRecord : x.lsn \in Nat
    BY DEF LogRecord, Lsn
  <2> QED
    BY <2>1, <2>2
<1>3. IsFiniteSet(read)
  <2>1. lsn \in Surjection(1..Len(r), read)
    BY DEF Surjection
  <2>2. IsFiniteSet(1..Len(r))
    BY <1>1, FS_Interval
  <2> HIDE DEF lsn, read
  <2> QED
    BY <2>1, <2>2, FS_Surjection
<1>4. V \in SUBSET Nat
  BY <1>2
<1>5. \A i \in 1..Len(r) : r[i].lsn \in V
  OBVIOUS
<1>6. IsFiniteSet(V) /\ V # {}
  <2> HIDE DEF read
  <2> QED
    BY <1>3, FS_AddElement
<1>7. FindMaxLSN(f) = Max(V)
  BY DEF FindMaxLSN, r
<1> HIDE DEF V, read
<1>8. \E m \in V : \A k \in V : m >= k
  BY <1>4, <1>6, GreatestElement
<1>9. Max(V) \in V /\ \A k \in V : Max(V) >= k
  BY <1>8 DEF Max
<1>10. Max(V) \in Nat /\ \A i \in 1..Len(r) : r[i].lsn <= Max(V)
  BY <1>2, <1>4, <1>5, <1>9
<1> QED
  BY <1>7, <1>10 DEF r

-----------------------------------------------------------------------------
(* What a step does to the file and the buffer *)

\* The file, and the buffer behind it.
LEMMA AllType ==
    ASSUME TypeOK
    PROVE  /\ All \in Seq(LogRecord \cup {Torn})
           /\ Len(All) = Len(file) + Len(buffer)
           /\ Len(file) \in Nat /\ Len(buffer) \in Nat
           /\ \A i \in 1..Len(file) : All[i] = file[i]
           /\ \A i \in 1..Len(buffer) : All[Len(file) + i] = buffer[i]
<1>1. file \in Seq(LogRecord \cup {Torn}) /\ buffer \in Seq(LogRecord)
  BY DEF TypeOK
<1>2. buffer \in Seq(LogRecord \cup {Torn})
  BY <1>1
<1>3. /\ All \in Seq(LogRecord \cup {Torn}) /\ Len(All) = Len(file) + Len(buffer)
      /\ \A i \in 1..(Len(file) + Len(buffer)) :
            All[i] = IF i <= Len(file) THEN file[i] ELSE buffer[i - Len(file)]
  BY <1>1, <1>2, ConcatProperties DEF All
<1>4. Len(file) \in Nat /\ Len(buffer) \in Nat
  BY <1>1
<1>5. \A i \in 1..Len(file) : All[i] = file[i]
  BY <1>3, <1>4
<1>6. ASSUME NEW i \in 1..Len(buffer) PROVE All[Len(file) + i] = buffer[i]
  <2>1. /\ Len(file) + i \in 1..(Len(file) + Len(buffer))
        /\ ~ (Len(file) + i <= Len(file)) /\ (Len(file) + i) - Len(file) = i
    BY <1>4
  <2> QED
    BY <1>3, <2>1
<1> QED
  BY <1>3, <1>4, <1>5, <1>6

\* What is read from a file with its buffer: records, the readable part of
\* the file first.
LEMMA LogType ==
    ASSUME TypeOK
    PROVE  /\ Log \in Seq(LogRecord) /\ Len(Log) \in Nat
           /\ \A i \in 1..Len(Log) : Log[i] \in LogRecord
           /\ \A i \in 1..Len(Log) : Log[i].lsn \in Nat /\ Log[i].op \in Nat
           /\ Len(ReadWALLog(file)) <= Len(Log)
           /\ \A i \in 1..Len(ReadWALLog(file)) : i \in 1..Len(Log) /\ Log[i] = ReadWALLog(file)[i]
<1>1. All \in Seq(LogRecord \cup {Torn})
  BY AllType
<1>2. Log \in Seq(LogRecord) /\ Len(Log) \in Nat
  BY <1>1, ReadProperties DEF Log
<1>3. \A i \in 1..Len(Log) : Log[i] \in LogRecord
  BY <1>2
<1>4. \A x \in LogRecord : x.lsn \in Nat /\ x.op \in Nat
  BY BoundsAssumption DEF LogRecord, Lsn, Operation, BeginMark
<1>5. file \in Seq(LogRecord \cup {Torn})
  BY DEF TypeOK
<1>6. Len(file) <= Len(All) /\ \A i \in 1..Len(file) : All[i] = file[i]
  BY AllType
<1>7. /\ Len(ReadWALLog(file)) <= Len(Log)
      /\ \A i \in 1..Len(ReadWALLog(file)) : Log[i] = ReadWALLog(file)[i]
  BY <1>1, <1>5, <1>6, ReadExtended DEF Log
<1>8. Len(ReadWALLog(file)) \in Nat
  BY <1>5, ReadProperties
<1> QED
  BY <1>2, <1>3, <1>4, <1>7, <1>8

\* A flush moves the buffer into the file, and loses nothing.
LEMMA Flushed ==
    ASSUME TypeOK, FlushToFile
    PROVE  /\ file' = All /\ buffer' = <<>> /\ All' = All /\ Log' = Log
           /\ file' \in Seq(LogRecord \cup {Torn}) /\ buffer' \in Seq(LogRecord)
<1>1. file' = All /\ buffer' = <<>>
  BY DEF FlushToFile, All
<1>2. All \in Seq(LogRecord \cup {Torn})
  BY AllType
<1>3. All' = All
  BY <1>1, <1>2, ConcatEmptySeq DEF All
<1> QED
  BY <1>1, <1>2, <1>3 DEF Log

\* A record written to the buffer is read back at the end, if the file is
\* not torn.
LEMMA Written ==
    ASSUME TypeOK, NEW c \in Client, UNCHANGED file, buffer' = Append(buffer, rec[c])
    PROVE  /\ buffer' \in Seq(LogRecord) /\ Len(buffer') = Len(buffer) + 1
           /\ All' = Append(All, rec[c])
           /\ Log' = Log \/ Log' = Append(Log, rec[c])
           /\ OpsOf(All') = OpsOf(All) \cup {rec[c].op}
<1>1. /\ file \in Seq(LogRecord \cup {Torn}) /\ buffer \in Seq(LogRecord)
      /\ buffer \in Seq(LogRecord \cup {Torn})
      /\ rec[c] \in LogRecord /\ rec[c] \in LogRecord \cup {Torn}
  BY DEF TypeOK
<1>2. buffer' = buffer \o <<rec[c]>> /\ buffer' \in Seq(LogRecord) /\ Len(buffer') = Len(buffer) + 1
  BY <1>1, AppendIsConcat, AppendProperties
<1>3. <<rec[c]>> \in Seq(LogRecord \cup {Torn})
  BY <1>1
<1>4. All \in Seq(LogRecord \cup {Torn}) /\ Len(All) \in Nat
  BY AllType
<1>5. All' = All \o <<rec[c]>>
  <2>1. All' = file \o (buffer \o <<rec[c]>>)
    BY <1>2 DEF All
  <2>2. (file \o buffer) \o <<rec[c]>> = file \o (buffer \o <<rec[c]>>)
    BY <1>1, <1>3, ConcatAssociative
  <2> QED
    BY <2>1, <2>2 DEF All
<1>6. All' = Append(All, rec[c])
  BY <1>1, <1>4, <1>5, AppendIsConcat
<1>7. Log' = ReadWALLog(Append(All, rec[c]))
  BY <1>6 DEF Log
<1>8. Log' = Log \/ Log' = Append(Log, rec[c])
  BY <1>1, <1>4, <1>7, ReadAppended DEF Log
<1>9. OpsOf(All') = OpsOf(All) \cup {rec[c].op}
  <2> DEFINE a == Append(All, rec[c])
  <2>1. Len(a) = Len(All) + 1 /\ a[Len(All) + 1] = rec[c] /\ \A i \in 1..Len(All) : a[i] = All[i]
    BY <1>1, <1>4, AppendProperties
  <2> HIDE DEF a
  <2>2. 1..(Len(All) + 1) = 1..Len(All) \cup {Len(All) + 1}
    BY <1>4
  <2>3. OpsOf(a) = OpsOf(All) \cup {rec[c].op}
    BY <2>1, <2>2 DEF OpsOf
  <2> QED
    BY <1>6, <2>3 DEF a
<1> QED
  BY <1>2, <1>6, <1>8, <1>9

\* A kill leaves the records of the file, and of the buffer some that were
\* first; a torn one may follow.
LEMMA Killed ==
    ASSUME TypeOK, CrashAndRestart
    PROVE  /\ file' \in Seq(LogRecord \cup {Torn}) /\ buffer' = <<>>
           /\ Len(file) <= Len(file') /\ \A i \in 1..Len(file) : file'[i] = file[i]
           /\ Len(Log') \in Nat /\ Len(Log') <= Len(Log)
           /\ \A i \in 1..Len(Log') : i \in 1..Len(Log) /\ Log'[i] = Log[i]
           /\ OpsOf(file) \subseteq OpsOf(file')
<1>0. PICK remains \in FlushRemains : file' = file \o remains
  BY DEF CrashAndRestart, Reopened
<1>1. /\ file \in Seq(LogRecord \cup {Torn}) /\ buffer \in Seq(LogRecord)
      /\ Len(file) \in Nat /\ Len(buffer) \in Nat
  BY DEF TypeOK
<1>2. /\ remains \in Seq(LogRecord \cup {Torn})
      /\ \A i \in 1..Len(remains) :
            remains[i] = Torn \/ (i \in 1..Len(buffer) /\ remains[i] = buffer[i])
  <2>1. CASE remains = <<>>
    BY <2>1
  <2>2. ASSUME NEW n \in 0..Len(buffer)
        PROVE  /\ SubSeq(buffer, 1, n) \in Seq(LogRecord \cup {Torn})
               /\ Len(SubSeq(buffer, 1, n)) = n
               /\ \A i \in 1..n : i \in 1..Len(buffer) /\ SubSeq(buffer, 1, n)[i] = buffer[i]
    <3>1. \A i \in 1..n : i \in 1..Len(buffer) /\ buffer[i] \in LogRecord \cup {Torn}
      BY <1>1
    <3> QED
      BY <1>1, <3>1, SubSeqProperties
  <2>3. ASSUME NEW n \in 0..Len(buffer), remains = SubSeq(buffer, 1, n)
        PROVE  <1>2!1 /\ <1>2!2
    BY <2>2, <2>3
  <2>4. ASSUME NEW n \in 0..(Len(buffer) - 1), remains = Append(SubSeq(buffer, 1, n), Torn)
        PROVE  <1>2!1 /\ <1>2!2
    <3> DEFINE s == SubSeq(buffer, 1, n)
    <3>1. n \in 0..Len(buffer) /\ n \in Nat
      BY <1>1
    <3>2. /\ s \in Seq(LogRecord \cup {Torn}) /\ Len(s) = n
          /\ \A i \in 1..n : i \in 1..Len(buffer) /\ s[i] = buffer[i]
      BY <2>2, <3>1
    <3> HIDE DEF s
    <3>3. /\ Append(s, Torn) \in Seq(LogRecord \cup {Torn})
          /\ Len(Append(s, Torn)) = n + 1
          /\ \A i \in 1..n : Append(s, Torn)[i] = s[i]
          /\ Append(s, Torn)[n + 1] = Torn
      BY <3>2, AppendProperties
    <3>4. \A i \in 1..(n + 1) : i = n + 1 \/ i \in 1..n
      BY <3>1
    <3> QED
      BY <2>4, <3>2, <3>3, <3>4 DEF s
  <2>5. \/ remains = <<>>
        \/ \E n \in 0..Len(buffer) : remains = SubSeq(buffer, 1, n)
        \/ \E n \in 0..(Len(buffer) - 1) : remains = Append(SubSeq(buffer, 1, n), Torn)
    BY <1>0 DEF FlushRemains
  <2> QED
    BY <2>1, <2>3, <2>4, <2>5
<1>3. /\ file' \in Seq(LogRecord \cup {Torn})
      /\ Len(file') = Len(file) + Len(remains) /\ Len(remains) \in Nat
      /\ \A i \in 1..(Len(file) + Len(remains)) :
            file'[i] = IF i <= Len(file) THEN file[i] ELSE remains[i - Len(file)]
  BY <1>0, <1>1, <1>2, ConcatProperties
<1>4. \A i \in 1..Len(file) : i \in 1..Len(file') /\ file'[i] = file[i]
  BY <1>1, <1>3
<1>5. buffer' = <<>> /\ Log' = ReadWALLog(file')
  <2>1. buffer' = <<>>
    BY DEF CrashAndRestart
  <2>2. All' = file'
    BY <1>3, <2>1, ConcatEmptySeq DEF All
  <2> QED
    BY <2>1, <2>2 DEF Log
<1> DEFINE b == ReadWALLog(file')
<1>6. /\ Len(b) \in Nat /\ Len(b) <= Len(file')
      /\ \A i \in 1..Len(b) : i \in 1..Len(file') /\ b[i] = file'[i] /\ file'[i] \in LogRecord
  BY <1>3, ReadProperties
<1>7. /\ Len(Log) \in Nat /\ Len(Log) <= Len(All)
      /\ \A i \in 1..Len(Log) : Log[i] = All[i]
      /\ Len(Log) < Len(All) => All[Len(Log) + 1] = Torn
  BY AllType, ReadProperties DEF Log
<1> HIDE DEF b
<1>8. ASSUME NEW i \in 1..Len(b) PROVE i \in 1..Len(All) /\ All[i] = file'[i]
  <2>1. CASE i <= Len(file)
    <3>1. i \in 1..Len(file)
      BY <1>1, <2>1
    <3> QED
      BY <1>1, <1>4, <3>1, AllType
  <2>2. CASE ~ (i <= Len(file))
    <3> DEFINE k == i - Len(file)
    <3>1. /\ k \in 1..Len(remains) /\ i = Len(file) + k
          /\ i \in 1..(Len(file) + Len(remains))
      BY <1>1, <1>3, <1>6, <2>2
    <3>2. file'[i] = remains[k] /\ file'[i] # Torn
      BY <1>3, <1>6, <2>2, <3>1, TornIsNoRecord
    <3>3. k \in 1..Len(buffer) /\ remains[k] = buffer[k]
      BY <1>2, <3>1, <3>2
    <3> HIDE DEF k
    <3>4. All[Len(file) + k] = buffer[k] /\ Len(All) = Len(file) + Len(buffer)
      BY <3>3, AllType
    <3>5. Len(file) + k \in 1..(Len(file) + Len(buffer))
      BY <1>1, <3>3
    <3> QED
      BY <3>1, <3>2, <3>3, <3>4, <3>5
  <2> QED
    BY <2>1, <2>2
<1>9. Len(b) <= Len(Log)
  <2>1. SUFFICES ASSUME Len(Log) < Len(b) PROVE FALSE
    BY <1>6, <1>7
  <2>2. Len(Log) + 1 \in 1..Len(b)
    BY <1>6, <1>7, <2>1
  <2>3. Len(Log) + 1 \in 1..Len(All) /\ All[Len(Log) + 1] \in LogRecord
    BY <1>6, <1>8, <2>2
  <2>4. Len(Log) < Len(All)
    BY <1>7, <2>3
  <2> QED
    BY <1>7, <2>3, <2>4, TornIsNoRecord
<1>10. \A i \in 1..Len(b) : i \in 1..Len(Log) /\ b[i] = Log[i]
  BY <1>6, <1>7, <1>8, <1>9
<1>11. OpsOf(file) \subseteq OpsOf(file')
  BY <1>4 DEF OpsOf
<1>12. Len(file) <= Len(file')
  BY <1>1, <1>3
<1> QED
  BY <1>3, <1>4, <1>5, <1>6, <1>9, <1>10, <1>11, <1>12 DEF b

-----------------------------------------------------------------------------
(* The invariant of the log *)

\* It holds at the start.
LEMMA InitIInv == Init => IInv
<1> SUFFICES ASSUME Init PROVE IInv
  OBVIOUS
<1>1. TypeOK
  <2>1. NoRecord \in LogRecord
    BY DEF NoRecord, LogRecord, Lsn, BeginMark
  <2>2. 0 \in 0..MaxOperations /\ 0 \in 0..MaxCrashes /\ 0 \in Lsn
    BY BoundsAssumption DEF Lsn
  <2>3. file = <<>> /\ buffer = <<>> /\ committed = <<>>
    BY DEF Init
  <2>4. /\ file \in Seq(LogRecord \cup {Torn}) /\ buffer \in Seq(LogRecord)
        /\ committed \in Seq(Operation)
    BY <2>3
  <2>5. /\ stage \in [Client -> Stage] /\ rec \in [Client -> LogRecord]
        /\ running \in [Client -> Operation \cup {0}]
    BY <2>1 DEF Init, Stage
  <2>6. lastLsn \in Lsn /\ begun \in 0..MaxOperations /\ crashes \in 0..MaxCrashes /\ overlapped \in BOOLEAN
    BY <2>2 DEF Init
  <2> QED
    BY <2>4, <2>5, <2>6 DEF TypeOK
<1>2. Log = <<>>
  <2>1. All = <<>> \o <<>>
    BY DEF Init, All
  <2>2. All = <<>>
    BY <2>1
  <2>3. ~IsTorn(<<>>)
    BY DEF IsTorn
  <2> QED
    BY <1>1, <2>2, <2>3, AllType, ReadProperties DEF Log
<1>3. OperationsDiffer
  BY DEF Init, OperationsDiffer, InOperation
<1>4. LoggedInTime
  <2>1. Len(Log) = 0 /\ OpsOf(Log) = {}
    BY <1>2 DEF OpsOf
  <2> QED
    BY <2>1 DEF LoggedInTime
<1> QED
  BY <1>1, <1>3, <1>4 DEF IInv

\* A step that writes no record to the log keeps what is said of it.
LEMMA LogUntouched ==
    ASSUME LoggedInTime, Log' = Log, begun \in Nat, begun' \in Nat, begun <= begun', TypeOK,
           \A c \in Client : InOperation(c)' /\ stage'[c] # "flush" => running'[c] \notin OpsOf(Log)
    PROVE  LoggedInTime'
<1>1. \A i \in 1..Len(Log) : Log[i].op \in Nat /\ Log[i].op <= begun
  BY LogType DEF LoggedInTime
<1>2. \A i \in 1..Len(Log) : Log[i].op <= begun'
  BY <1>1
<1> QED
  BY <1>2 DEF LoggedInTime

\* Initialize: no operation is in progress in this thread, none is begun.
LEMMA InitializeIInv ==
    ASSUME IInv, NEW c \in Client, InitializeReads(c) \/ InitializeSets(c)
    PROVE  IInv' /\ Log' = Log
<1>0. TypeOK /\ OperationsDiffer /\ LoggedInTime
  BY DEF IInv
<1>1. /\ stage[c] \in {"outside", "ready", "initialize"}
      /\ UNCHANGED <<file, buffer, running, begun, committed, crashes>>
      /\ overlapped' \in BOOLEAN
  BY <1>0 DEF InitializeReads, InitializeSets, NoteOverlap, history, TypeOK
<1>2. /\ rec' \in [Client -> LogRecord] /\ lastLsn' \in Lsn
      /\ \A d \in Client : rec'[d].op = rec[d].op
  <2>1. file \in Seq(LogRecord \cup {Torn})
    BY <1>0 DEF TypeOK
  <2>2. FindMaxLSN(file) \in Nat
    BY <2>1, FindMaxProperties
  <2>3. CASE InitializeReads(c)
    BY <1>0, <2>2, <2>3 DEF InitializeReads, TypeOK, LogRecord, Lsn
  <2>4. CASE InitializeSets(c)
    BY <1>0, <2>4 DEF InitializeSets, TypeOK, LogRecord
  <2> QED
    BY <2>3, <2>4
<1>3. \E s \in {"initialize", "ready"} : stage' = [stage EXCEPT ![c] = s]
  BY DEF InitializeReads, InitializeSets, Goto
<1>4. /\ stage' \in [Client -> Stage]
      /\ stage'[c] \in {"initialize", "ready"}
      /\ \A d \in Client : d # c => stage'[d] = stage[d]
  BY <1>0, <1>3 DEF TypeOK, Stage
<1>5. TypeOK'
  BY <1>0, <1>1, <1>2, <1>4 DEF TypeOK
<1>6. \A d \in Client : InOperation(d)' => InOperation(d) /\ d # c /\ stage'[d] = stage[d]
  BY <1>4 DEF InOperation
<1>7. OperationsDiffer'
  BY <1>0, <1>1, <1>2, <1>6 DEF OperationsDiffer
<1>8. All' = All /\ Log' = Log
  BY <1>1 DEF All, Log
<1>9. LoggedInTime'
  <2>1. begun \in Nat
    BY <1>0, BoundsAssumption DEF TypeOK
  <2>2. \A d \in Client : InOperation(d)' /\ stage'[d] # "flush" => running'[d] \notin OpsOf(Log)
    BY <1>0, <1>1, <1>6 DEF LoggedInTime
  <2> QED
    BY <1>0, <1>1, <1>8, <2>1, <2>2, LogUntouched
<1> QED
  BY <1>5, <1>7, <1>8, <1>9 DEF IInv

\* BeginTransaction gives the operation a number nothing has.
LEMMA BeginIInv ==
    ASSUME IInv, NEW c \in Client, BeginTransaction(c)
    PROVE  IInv' /\ Log' = Log
<1>0. TypeOK /\ OperationsDiffer /\ LoggedInTime
  BY DEF IInv
<1>1. /\ begun < MaxOperations /\ begun' = begun + 1
      /\ running' = [running EXCEPT ![c] = begun + 1]
      /\ rec' = [rec EXCEPT ![c].op = BeginMark]
      /\ stage' = [stage EXCEPT ![c] = "take_lsn"]
      /\ UNCHANGED <<file, buffer, lastLsn, committed, crashes>>
      /\ overlapped' \in BOOLEAN
  BY <1>0 DEF BeginTransaction, Goto, NoteOverlap, TypeOK
<1>2. begun \in Nat /\ begun + 1 \in Nat /\ begun + 1 \in 1..MaxOperations /\ begun + 1 \in 1..(begun + 1)
  BY <1>0, <1>1, BoundsAssumption DEF TypeOK
<1>3. /\ running' \in [Client -> Operation \cup {0}] /\ running'[c] = begun + 1
      /\ stage' \in [Client -> Stage] /\ stage'[c] = "take_lsn"
      /\ rec' \in [Client -> LogRecord] /\ rec'[c].op = BeginMark
      /\ \A d \in Client : d # c => running'[d] = running[d] /\ stage'[d] = stage[d] /\ rec'[d] = rec[d]
  BY <1>0, <1>1, <1>2 DEF TypeOK, Stage, LogRecord, Operation
<1>4. TypeOK'
  BY <1>0, <1>1, <1>2, <1>3 DEF TypeOK
<1>5. \A d \in Client : d # c /\ InOperation(d)' => InOperation(d) /\ stage'[d] = stage[d]
  BY <1>3 DEF InOperation
<1>6. \A d \in Client : d # c /\ InOperation(d)' =>
         running'[d] \in 1..begun /\ running'[d] \in 1..(begun + 1) /\ running'[d] # begun + 1
  BY <1>0, <1>2, <1>3, <1>5 DEF OperationsDiffer
<1>7. OperationsDiffer'
  <2>1. ASSUME NEW d \in Client, InOperation(d)'
        PROVE  running'[d] \in 1..begun' /\ rec'[d].op \in {BeginMark, running'[d]}
    <3>1. CASE d = c
      BY <1>1, <1>2, <1>3, <3>1
    <3>2. CASE d # c
      BY <1>0, <1>1, <1>3, <1>5, <1>6, <2>1, <3>2 DEF OperationsDiffer
    <3> QED
      BY <3>1, <3>2
  <2>2. ASSUME NEW a \in Client, NEW b \in Client, a # b, InOperation(a)', InOperation(b)'
        PROVE  running'[a] # running'[b]
    <3>1. CASE a = c \/ b = c
      BY <1>3, <1>6, <2>2, <3>1
    <3>2. CASE a # c /\ b # c
      BY <1>0, <1>3, <1>5, <2>2, <3>2 DEF OperationsDiffer
    <3> QED
      BY <3>1, <3>2
  <2> QED
    BY <2>1, <2>2 DEF OperationsDiffer
<1>8. All' = All /\ Log' = Log
  BY <1>1 DEF All, Log
<1>9. LoggedInTime'
  <2>1. begun + 1 \notin OpsOf(Log)
    <3>1. \A i \in 1..Len(Log) : Log[i].op \in Nat /\ Log[i].op <= begun
      BY <1>0, LogType DEF LoggedInTime
    <3> QED
      BY <1>2, <3>1 DEF OpsOf
  <2>2. ASSUME NEW d \in Client, InOperation(d)', stage'[d] # "flush"
        PROVE  running'[d] \notin OpsOf(Log)
    <3>1. CASE d = c
      BY <1>3, <2>1, <3>1
    <3>2. CASE d # c
      BY <1>0, <1>3, <1>5, <2>2, <3>2 DEF LoggedInTime
    <3> QED
      BY <3>1, <3>2
  <2> QED
    BY <1>0, <1>1, <1>2, <1>8, <2>2, LogUntouched
<1> QED
  BY <1>4, <1>7, <1>8, <1>9 DEF IInv

\* The two accesses to LAST_LSN change neither operations nor log.
LEMMA LsnIInv ==
    ASSUME IInv, NEW c \in Client, TakeLsn(c) \/ SetLsn(c)
    PROVE  IInv' /\ Log' = Log
<1>0. TypeOK /\ OperationsDiffer /\ LoggedInTime
  BY DEF IInv
<1>1. /\ stage[c] \in {"take_lsn", "set_lsn"}
      /\ UNCHANGED <<file, buffer, running, begun, committed, overlapped, crashes>>
  BY DEF TakeLsn, SetLsn, history
<1>2. /\ rec' \in [Client -> LogRecord] /\ lastLsn' \in Lsn
      /\ \A d \in Client : rec'[d].op = rec[d].op
  <2>1. CASE TakeLsn(c)
    <3>1. lastLsn \in Nat /\ lastLsn + 1 \in Nat
      BY <1>0 DEF TypeOK, Lsn
    <3> QED
      BY <1>0, <2>1, <3>1 DEF TakeLsn, TypeOK, LogRecord, Lsn
  <2>2. CASE SetLsn(c)
    BY <1>0, <2>2 DEF SetLsn, TypeOK, LogRecord
  <2> QED
    BY <2>1, <2>2
<1>3. \E s \in {"set_lsn", "write"} : stage' = [stage EXCEPT ![c] = s]
  BY DEF TakeLsn, SetLsn, Goto
<1>4. /\ stage' \in [Client -> Stage]
      /\ stage'[c] \in {"set_lsn", "write"}
      /\ \A d \in Client : d # c => stage'[d] = stage[d]
  BY <1>0, <1>3 DEF TypeOK, Stage
<1>5. TypeOK'
  BY <1>0, <1>1, <1>2, <1>4 DEF TypeOK
<1>6. \A d \in Client : /\ InOperation(d)' => InOperation(d)
                        /\ stage'[d] # "flush" => stage[d] # "flush"
  BY <1>1, <1>4 DEF InOperation
<1>7. OperationsDiffer'
  BY <1>0, <1>1, <1>2, <1>6 DEF OperationsDiffer
<1>8. All' = All /\ Log' = Log
  BY <1>1 DEF All, Log
<1>9. LoggedInTime'
  <2>1. begun \in Nat
    BY <1>0, BoundsAssumption DEF TypeOK
  <2>2. \A d \in Client : InOperation(d)' /\ stage'[d] # "flush" => running'[d] \notin OpsOf(Log)
    BY <1>0, <1>1, <1>6 DEF LoggedInTime
  <2> QED
    BY <1>0, <1>1, <1>8, <2>1, <2>2, LogUntouched
<1> QED
  BY <1>5, <1>7, <1>8, <1>9 DEF IInv

\* One more record at the end of what is read.
LEMMA OneMore ==
    ASSUME TypeOK, NEW c \in Client, Log' = Append(Log, rec[c])
    PROVE  /\ Len(Log') = Len(Log) + 1 /\ Len(Log) \in Nat
           /\ Log'[Len(Log) + 1] = rec[c]
           /\ \A i \in 1..Len(Log) : Log'[i] = Log[i]
           /\ \A i \in 1..Len(Log') : i \in 1..Len(Log) \/ i = Len(Log) + 1
           /\ OpsOf(Log') = OpsOf(Log) \cup {rec[c].op}
<1>1. Log \in Seq(LogRecord) /\ Len(Log) \in Nat
  BY LogType
<1>2. rec[c] \in LogRecord
  BY DEF TypeOK
<1> DEFINE a == Append(Log, rec[c])
<1>3. Len(a) = Len(Log) + 1 /\ a[Len(Log) + 1] = rec[c] /\ \A i \in 1..Len(Log) : a[i] = Log[i]
  BY <1>1, <1>2, AppendProperties
<1> HIDE DEF a
<1>4. \A i \in 1..Len(a) : i \in 1..Len(Log) \/ i = Len(Log) + 1
  BY <1>1, <1>3
<1>5. 1..(Len(Log) + 1) = 1..Len(Log) \cup {Len(Log) + 1}
  BY <1>1
<1>6. OpsOf(a) = OpsOf(Log) \cup {rec[c].op}
  BY <1>3, <1>5 DEF OpsOf
<1> QED
  BY <1>1, <1>3, <1>4, <1>6 DEF a

\* What follows a record that was written, or silently dropped.
LEMMA WrittenThenTypes ==
    ASSUME IInv, NEW c \in Client, WrittenThen(c), stage[c] \in {"write", "write_again"}
    PROVE  /\ rec' \in [Client -> LogRecord] /\ stage' \in [Client -> Stage]
           /\ rec[c].op = BeginMark => rec'[c].op = running[c] /\ stage'[c] = "take_lsn"
           /\ rec[c].op # BeginMark => rec' = rec /\ stage'[c] = "flush"
           /\ \A d \in Client : d # c => rec'[d] = rec[d] /\ stage'[d] = stage[d]
<1>1. TypeOK
  BY DEF IInv
<1>2. running[c] \in Operation \cup {BeginMark}
  BY <1>1 DEF TypeOK, BeginMark
<1>3. CASE rec[c].op = BeginMark
  BY <1>1, <1>2, <1>3 DEF WrittenThen, Goto, TypeOK, Stage, LogRecord
<1>4. CASE rec[c].op # BeginMark
  BY <1>1, <1>4 DEF WrittenThen, Goto, TypeOK, Stage
<1> QED
  BY <1>3, <1>4

\* A record that is written to the buffer, or does not fit, keeps the
\* invariant.
LEMMA WriteIInv ==
    ASSUME IInv, NEW c \in Client, stage[c] \in {"write", "write_again"},
           buffer' = Append(buffer, rec[c]) \/ UNCHANGED buffer,
           UNCHANGED <<file, lastLsn, running, history>>, WrittenThen(c)
    PROVE  IInv'
<1>0. TypeOK /\ OperationsDiffer /\ LoggedInTime
  BY DEF IInv
<1>1. UNCHANGED <<file, lastLsn, running, begun, committed, overlapped, crashes>>
  BY DEF history
<1>2. /\ rec' \in [Client -> LogRecord] /\ stage' \in [Client -> Stage]
      /\ rec[c].op = BeginMark => rec'[c].op = running[c] /\ stage'[c] = "take_lsn"
      /\ rec[c].op # BeginMark => rec' = rec /\ stage'[c] = "flush"
      /\ \A d \in Client : d # c => rec'[d] = rec[d] /\ stage'[d] = stage[d]
  BY WrittenThenTypes
<1>3. InOperation(c) /\ running[c] \in 1..begun /\ rec[c].op \in {BeginMark, running[c]}
  BY <1>0 DEF InOperation, OperationsDiffer
<1>4. \A d \in Client : InOperation(d)' => InOperation(d)
  BY <1>2, <1>3 DEF InOperation
<1>5. /\ buffer' \in Seq(LogRecord)
      /\ Log' = Log \/ Log' = Append(Log, rec[c])
  <2>1. CASE UNCHANGED buffer
    BY <1>0, <1>1, <2>1 DEF TypeOK, Log, All
  <2>2. CASE buffer' = Append(buffer, rec[c])
    BY <1>0, <1>1, <2>2, Written
  <2> QED
    BY <2>1, <2>2
<1>6. TypeOK'
  BY <1>0, <1>1, <1>2, <1>5 DEF TypeOK
<1>7. OperationsDiffer'
  BY <1>0, <1>1, <1>2, <1>3, <1>4 DEF OperationsDiffer
<1>8. begun \in Nat
  BY <1>0, BoundsAssumption DEF TypeOK
<1>9. ASSUME NEW d \in Client, InOperation(d)', stage'[d] # "flush"
      PROVE  /\ running'[d] \notin OpsOf(Log) /\ running'[d] # rec[c].op
  <2>1. running'[d] = running[d] /\ running[d] \in 1..begun
    BY <1>0, <1>1, <1>4, <1>9 DEF OperationsDiffer
  <2>2. CASE d = c
    <3>1. rec[c].op = BeginMark /\ stage[c] # "flush"
      BY <1>2, <1>9, <2>2
    <3> QED
      BY <1>0, <1>3, <2>1, <2>2, <3>1 DEF LoggedInTime, BeginMark
  <2>3. CASE d # c
    <3>1. running[d] # running[c] /\ stage[d] # "flush" /\ InOperation(d)
      BY <1>0, <1>2, <1>3, <1>4, <1>9, <2>3 DEF OperationsDiffer
    <3> QED
      BY <1>0, <1>3, <2>1, <3>1 DEF LoggedInTime, BeginMark
  <2> QED
    BY <2>2, <2>3
<1>10. LoggedInTime'
  <2>1. CASE Log' = Log
    BY <1>0, <1>1, <1>8, <1>9, <2>1, LogUntouched
  <2>2. CASE Log' = Append(Log, rec[c])
    <3>1. /\ Len(Log') = Len(Log) + 1 /\ Len(Log) \in Nat
          /\ Log'[Len(Log) + 1] = rec[c]
          /\ \A i \in 1..Len(Log) : Log'[i] = Log[i]
          /\ \A i \in 1..Len(Log') : i \in 1..Len(Log) \/ i = Len(Log) + 1
          /\ OpsOf(Log') = OpsOf(Log) \cup {rec[c].op}
      BY <1>0, <2>2, OneMore
    <3>2. ASSUME rec[c].op # BeginMark, NEW i \in 1..Len(Log) PROVE Log[i].op # rec[c].op
      <4>1. running[c] \notin OpsOf(Log)
        BY <1>0, <1>3 DEF LoggedInTime
      <4> QED
        BY <1>3, <3>2, <4>1 DEF OpsOf
    <3>3. \A i, j \in 1..Len(Log') : Log'[i].op = Log'[j].op /\ Log'[i].op # BeginMark => i = j
      <4>1. SUFFICES ASSUME NEW i \in 1..Len(Log'), NEW j \in 1..Len(Log'),
                            Log'[i].op = Log'[j].op, Log'[i].op # BeginMark
                     PROVE  i = j
        OBVIOUS
      <4>2. CASE i = Len(Log) + 1
        BY <3>1, <3>2, <4>1, <4>2
      <4>3. CASE j = Len(Log) + 1
        BY <3>1, <3>2, <4>1, <4>3
      <4>4. CASE i \in 1..Len(Log) /\ j \in 1..Len(Log)
        BY <1>0, <3>1, <4>1, <4>4 DEF LoggedInTime
      <4> QED
        BY <3>1, <4>2, <4>3, <4>4
    <3>4. \A i \in 1..Len(Log') : Log'[i].op <= begun'
      BY <1>0, <1>1, <1>3, <1>8, <3>1 DEF LoggedInTime, BeginMark
    <3>5. \A d \in Client : InOperation(d)' /\ stage'[d] # "flush" => running'[d] \notin OpsOf(Log')
      BY <1>9, <3>1
    <3>6. OpsOf(Log)' = OpsOf(Log')
      BY DEF OpsOf
    <3> QED
      BY <3>3, <3>4, <3>5, <3>6 DEF LoggedInTime
  <2> QED
    BY <1>5, <2>1, <2>2
<1> QED
  BY <1>6, <1>7, <1>10 DEF IInv

\* The other steps of WriteWALLog and CommitTransaction: a full buffer is
\* noticed, and the two flushes.
LEMMA FlushIInv ==
    ASSUME IInv, NEW c \in Client,
           \/ /\ stage[c] = "write" /\ Goto(c, "make_room")
              /\ UNCHANGED <<buffer, rec, file, lastLsn, running, history>>
           \/ MakeRoom(c)
           \/ CommitFlush(c)
    PROVE  IInv' /\ Log' = Log
<1>0. TypeOK /\ OperationsDiffer /\ LoggedInTime
  BY DEF IInv
<1>1. stage[c] \in {"write", "make_room", "flush"} /\ UNCHANGED <<lastLsn, rec, running, begun, overlapped, crashes>>
  BY DEF MakeRoom, CommitFlush, history
<1>2. /\ Log' = Log
      /\ file' \in Seq(LogRecord \cup {Torn}) /\ buffer' \in Seq(LogRecord)
  <2>1. CASE UNCHANGED <<buffer, file>>
    BY <1>0, <2>1 DEF TypeOK, Log, All
  <2>2. CASE FlushToFile
    BY <1>0, <2>2, Flushed
  <2> QED
    BY <2>1, <2>2 DEF MakeRoom, CommitFlush
<1>3. \E s \in {"make_room", "write_again", "ready"} :
         /\ stage' = [stage EXCEPT ![c] = s]
         /\ s # "ready" => stage[c] # "flush"
  BY DEF MakeRoom, CommitFlush, Goto
<1>4. /\ stage' \in [Client -> Stage]
      /\ \A d \in Client : d # c => stage'[d] = stage[d]
      /\ \A d \in Client : /\ InOperation(d)' => InOperation(d)
                           /\ InOperation(d)' /\ stage'[d] # "flush" => stage[d] # "flush"
  BY <1>0, <1>1, <1>3 DEF TypeOK, Stage, InOperation
<1>5. committed' \in Seq(Operation)
  <2>1. CASE committed' = committed
    BY <1>0, <2>1 DEF TypeOK
  <2>2. CASE CommitFlush(c)
    <3>1. running[c] \in 1..begun /\ running[c] \in Operation \cup {0}
      BY <1>0, <2>2 DEF CommitFlush, OperationsDiffer, InOperation, TypeOK
    <3>2. running[c] \in Operation
      BY <3>1
    <3>3. committed \in Seq(Operation) /\ committed' = Append(committed, running[c])
      BY <1>0, <2>2 DEF TypeOK, CommitFlush
    <3> QED
      BY <3>2, <3>3, AppendProperties
  <2> QED
    BY <2>1, <2>2 DEF MakeRoom, history
<1>6. TypeOK'
  BY <1>0, <1>1, <1>2, <1>4, <1>5 DEF TypeOK
<1>7. OperationsDiffer'
  BY <1>0, <1>1, <1>4 DEF OperationsDiffer
<1>8. LoggedInTime'
  <2>1. begun \in Nat
    BY <1>0, BoundsAssumption DEF TypeOK
  <2>2. \A d \in Client : InOperation(d)' /\ stage'[d] # "flush" => running'[d] \notin OpsOf(Log)
    BY <1>0, <1>1, <1>4 DEF LoggedInTime
  <2> QED
    BY <1>0, <1>1, <1>2, <2>1, <2>2, LogUntouched
<1> QED
  BY <1>2, <1>6, <1>7, <1>8 DEF IInv

\* A kill ends all operations, and what is read afterwards was read before.
LEMMA CrashIInv ==
    ASSUME IInv, CrashAndRestart
    PROVE  IInv'
<1>0. TypeOK /\ OperationsDiffer /\ LoggedInTime
  BY DEF IInv
<1>1. /\ crashes < MaxCrashes /\ crashes' = crashes + 1
      /\ lastLsn' = 0
      /\ stage' = [c \in Client |-> "outside"]
      /\ rec' = [c \in Client |-> NoRecord]
      /\ running' = [c \in Client |-> 0]
      /\ UNCHANGED <<begun, committed, overlapped>>
  BY DEF CrashAndRestart
<1>2. /\ file' \in Seq(LogRecord \cup {Torn}) /\ buffer' = <<>>
      /\ Len(Log') \in Nat /\ Len(Log') <= Len(Log)
      /\ \A i \in 1..Len(Log') : i \in 1..Len(Log) /\ Log'[i] = Log[i]
  BY <1>0, Killed
<1>3. TypeOK'
  <2>1. crashes' \in 0..MaxCrashes /\ 0 \in Lsn
    BY <1>0, <1>1, BoundsAssumption DEF TypeOK, Lsn
  <2>2. NoRecord \in LogRecord
    BY DEF NoRecord, LogRecord, Lsn, BeginMark
  <2>3. /\ stage' \in [Client -> Stage] /\ rec' \in [Client -> LogRecord]
        /\ running' \in [Client -> Operation \cup {0}]
    BY <1>1, <2>2 DEF Stage
  <2>4. buffer' \in Seq(LogRecord)
    BY <1>2
  <2> QED
    BY <1>0, <1>1, <1>2, <2>1, <2>3, <2>4 DEF TypeOK
<1>4. \A c \in Client : ~InOperation(c)'
  BY <1>1 DEF InOperation
<1>5. OperationsDiffer'
  BY <1>4 DEF OperationsDiffer
<1>6. LoggedInTime'
  BY <1>0, <1>1, <1>2, <1>4 DEF LoggedInTime
<1> QED
  BY <1>3, <1>5, <1>6 DEF IInv

\* Every step keeps the invariant.
LEMMA NextIInv == IInv /\ [Next]_vars => IInv'
<1> SUFFICES ASSUME IInv, [Next]_vars PROVE IInv'
  OBVIOUS
<1>1. ASSUME NEW c \in Client, InitializeReads(c) \/ InitializeSets(c) PROVE IInv'
  BY <1>1, InitializeIInv
<1>2. ASSUME NEW c \in Client, BeginTransaction(c) PROVE IInv'
  BY <1>2, BeginIInv
<1>3. ASSUME NEW c \in Client, TakeLsn(c) \/ SetLsn(c) PROVE IInv'
  BY <1>3, LsnIInv
<1>4. ASSUME NEW c \in Client, WriteRecord(c) PROVE IInv'
  <2>1. CASE HasRoom
    BY <1>4, <2>1, WriteIInv DEF WriteRecord
  <2>2. CASE ~HasRoom
    BY <1>4, <2>2, FlushIInv DEF WriteRecord
  <2> QED
    BY <2>1, <2>2
<1>5. ASSUME NEW c \in Client, WriteAgain(c) PROVE IInv'
  BY <1>5, WriteIInv DEF WriteAgain
<1>6. ASSUME NEW c \in Client, MakeRoom(c) \/ CommitFlush(c) PROVE IInv'
  BY <1>6, FlushIInv
<1>7. CASE CrashAndRestart
  BY <1>7, CrashIInv
<1>8. CASE UNCHANGED vars
  <2>1. UNCHANGED <<All, Log>>
    BY <1>8 DEF vars, All, Log
  <2> QED
    BY <1>8, <2>1 DEF vars, IInv, TypeOK, OperationsDiffer, LoggedInTime, InOperation
<1> QED
  BY <1>1, <1>2, <1>3, <1>4, <1>5, <1>6, <1>7, <1>8 DEF Next

-----------------------------------------------------------------------------
(* No record is lost *)

\* Each thread has two records.
LEMMA TwoRecords == IsFiniteSet({1, 2}) /\ Cardinality({1, 2}) = 2
<1>1. IsFiniteSet({}) /\ Cardinality({}) = 0
  BY FS_EmptySet
<1>2. IsFiniteSet({} \cup {1}) /\ Cardinality({} \cup {1}) = 1
  BY <1>1, FS_AddElement
<1>3. 2 \notin {} \cup {1} /\ ({} \cup {1}) \cup {2} = {1, 2}
  OBVIOUS
<1>4. /\ IsFiniteSet(({} \cup {1}) \cup {2})
      /\ Cardinality(({} \cup {1}) \cup {2}) = Cardinality({} \cup {1}) + 1
  BY <1>2, <1>3, FS_AddElement
<1> QED
  BY <1>2, <1>3, <1>4

\* There are finitely many records to be in the buffer.
LEMMA BufferedIsFinite ==
    ASSUME RoomForAll
    PROVE  \A B \in SUBSET (Client \X {1, 2}) : IsFiniteSet(B) /\ Cardinality(B) \in Nat
<1>1. IsFiniteSet(Client \X {1, 2})
  BY TwoRecords, FS_Product DEF RoomForAll
<1> QED
  BY <1>1, FS_Subset, FS_CardinalityType

\* The second WriteRecord, after a flush, finds room.
LEMMA SecondWriteFits ==
    ASSUME RoomForAll, TypeOK, CommittedInv, NEW c \in Client, stage[c] = "write_again"
    PROVE  HasRoom
<1> DEFINE others == Client \ {c}
<1>1. IsFiniteSet(others) /\ Cardinality(others) = Cardinality(Client) - 1 /\ Cardinality(Client) \in Nat
  BY FS_RemoveElement, FS_CardinalityType DEF RoomForAll
<1> HIDE DEF others
<1>3. IsFiniteSet(others \X {1, 2}) /\ Cardinality(others \X {1, 2}) = Cardinality(others) * 2
  BY <1>1, TwoRecords, FS_Product
<1>4. Buffered \in SUBSET (others \X {1, 2})
  <2>1. ASSUME NEW w \in Buffered PROVE w \in others \X {1, 2}
    <3>1. w \in Client \X {1, 2} /\ w[1] # c
      BY <2>1 DEF Buffered
    <3> QED
      BY <3>1 DEF others
  <2> QED
    BY <2>1
<1>5. Cardinality(Buffered) <= Cardinality(others \X {1, 2}) /\ Cardinality(Buffered) \in Nat
  BY <1>3, <1>4, FS_Subset, FS_CardinalityType
<1>6. Cardinality(others \X {1, 2}) = 2 * (Cardinality(Client) - 1)
  BY <1>1, <1>3
<1>7. Len(buffer) \in Nat /\ Len(buffer) <= Cardinality(Buffered)
  BY AllType DEF CommittedInv
<1> QED
  BY <1>1, <1>5, <1>6, <1>7, BoundsAssumption DEF HasRoom, RoomForAll

\* It holds at the start.
LEMMA InitCommittedInv == RoomForAll /\ Init => CommittedInv
<1> SUFFICES ASSUME RoomForAll, Init PROVE CommittedInv
  OBVIOUS
<1>1. Buffered \in SUBSET (Client \X {1, 2})
  BY DEF Buffered
<1>2. Cardinality(Buffered) \in Nat
  BY <1>1, BufferedIsFinite
<1>3. buffer = <<>> /\ Len(buffer) = 0 /\ committed = <<>> /\ ToSet(committed) = {}
  BY DEF Init, ToSet
<1> QED
  BY <1>2, <1>3 DEF CommittedInv, Init

\* Steps that leave file, buffer and committed operations alone.
LEMMA CommittedUntouched ==
    ASSUME RoomForAll, TypeOK, CommittedInv, UNCHANGED <<file, buffer, committed>>,
           Buffered \subseteq Buffered',
           \A c \in Client : stage'[c] = "flush" => stage[c] = "flush" /\ running'[c] = running[c]
    PROVE  CommittedInv'
<1>1. Buffered \in SUBSET (Client \X {1, 2}) /\ Buffered' \in SUBSET (Client \X {1, 2})
  BY DEF Buffered
<1>2. Cardinality(Buffered) <= Cardinality(Buffered')
  <2>1. IsFiniteSet(Buffered')
    BY <1>1, BufferedIsFinite
  <2> QED
    BY <2>1, FS_Subset
<1>3. Len(buffer) \in Nat /\ Cardinality(Buffered) \in Nat /\ Cardinality(Buffered') \in Nat
  BY <1>1, AllType, BufferedIsFinite
<1>4. All' = All
  BY DEF All
<1>5. Len(buffer') <= Cardinality(Buffered')
  BY <1>2, <1>3 DEF CommittedInv
<1>6. (\A c \in Client : stage[c] = "flush" => running[c] \in OpsOf(All))'
  <2>1. \A c \in Client : stage'[c] = "flush" => running'[c] \in OpsOf(All)
    BY DEF CommittedInv
  <2> QED
    BY <1>4, <2>1 DEF OpsOf
<1>7. (ToSet(committed) \subseteq OpsOf(file))'
  BY DEF CommittedInv, ToSet, OpsOf
<1> QED
  BY <1>5, <1>6, <1>7 DEF CommittedInv

\* A written record counts for its thread.
LEMMA WriteCommittedInv ==
    ASSUME RoomForAll, IInv, CommittedInv, NEW c \in Client,
           stage[c] \in {"write", "write_again"},
           buffer' = Append(buffer, rec[c]), UNCHANGED <<file, running, committed>>,
           WrittenThen(c)
    PROVE  CommittedInv'
<1>0. TypeOK /\ OperationsDiffer
  BY DEF IInv
<1>1. /\ rec[c].op = BeginMark => rec'[c].op = running[c] /\ stage'[c] = "take_lsn"
      /\ rec[c].op # BeginMark => rec' = rec /\ stage'[c] = "flush"
      /\ \A d \in Client : d # c => rec'[d] = rec[d] /\ stage'[d] = stage[d]
  BY WrittenThenTypes
<1>2. running[c] \in 1..begun /\ rec[c].op \in {BeginMark, running[c]} /\ begun \in Nat
  <2>1. begun \in Nat
    BY <1>0, BoundsAssumption DEF TypeOK
  <2>2. InOperation(c)
    BY DEF InOperation
  <2> QED
    BY <1>0, <2>1, <2>2 DEF OperationsDiffer
<1>3. Len(buffer') = Len(buffer) + 1 /\ OpsOf(All') = OpsOf(All) \cup {rec[c].op}
  BY <1>0, Written
<1> DEFINE w == IF rec[c].op = BeginMark THEN <<c, 1>> ELSE <<c, 2>>
<1>4. Buffered \cup {w} \subseteq Buffered' /\ w \notin Buffered
  <2>1. w \in Client \X {1, 2}
    OBVIOUS
  <2>2. w \notin Buffered
    BY DEF Buffered
  <2>3. w \in Buffered'
    <3>1. CASE rec[c].op = BeginMark
      <4>1. running[c] # BeginMark
        BY <1>2 DEF BeginMark
      <4> QED
        BY <1>1, <2>1, <3>1, <4>1 DEF Buffered, InOperation
    <3>2. CASE rec[c].op # BeginMark
      BY <1>1, <2>1, <3>2 DEF Buffered
    <3> QED
      BY <3>1, <3>2
  <2>4. ASSUME NEW v \in Buffered PROVE v \in Buffered'
    <3>1. v \in Client \X {1, 2} /\ v[1] \in Client
      BY <2>4 DEF Buffered
    <3>2. CASE v[1] = c
      <4>1. v[2] = 1 /\ rec[c].op # BeginMark /\ stage'[c] = "flush" /\ rec'[c] = rec[c]
        BY <1>1, <2>4, <3>2 DEF Buffered
      <4> QED
        BY <3>1, <3>2, <4>1 DEF Buffered, InOperation
    <3>3. CASE v[1] # c
      <4>1. rec'[v[1]] = rec[v[1]] /\ stage'[v[1]] = stage[v[1]]
        BY <1>1, <3>1, <3>3
      <4> QED
        BY <2>4, <3>1, <4>1 DEF Buffered, InOperation
    <3> QED
      BY <3>2, <3>3
  <2> QED
    BY <2>2, <2>3, <2>4
<1>5. Len(buffer') <= Cardinality(Buffered')
  <2>1. Buffered \in SUBSET (Client \X {1, 2}) /\ Buffered' \in SUBSET (Client \X {1, 2})
    BY DEF Buffered
  <2>2. IsFiniteSet(Buffered) /\ IsFiniteSet(Buffered')
        /\ Cardinality(Buffered) \in Nat /\ Cardinality(Buffered') \in Nat
    BY <2>1, BufferedIsFinite
  <2> HIDE DEF w
  <2>3. Cardinality(Buffered \cup {w}) = Cardinality(Buffered) + 1
    BY <1>4, <2>2, FS_AddElement
  <2>4. Cardinality(Buffered \cup {w}) <= Cardinality(Buffered')
    BY <1>4, <2>2, FS_Subset
  <2>5. Len(buffer) <= Cardinality(Buffered) /\ Len(buffer) \in Nat
    BY <1>0, AllType DEF CommittedInv
  <2> QED
    BY <1>3, <2>2, <2>3, <2>4, <2>5
<1>6. \A d \in Client : stage'[d] = "flush" => running'[d] \in OpsOf(All')
  <2>1. ASSUME NEW d \in Client, stage'[d] = "flush" PROVE running'[d] \in OpsOf(All')
    <3>1. CASE d = c
      BY <1>1, <1>2, <1>3, <2>1, <3>1
    <3>2. CASE d # c
      BY <1>1, <1>3, <2>1, <3>2 DEF CommittedInv
    <3> QED
      BY <3>1, <3>2
  <2> QED
    BY <2>1
<1>7. ToSet(committed') \subseteq OpsOf(file')
  BY DEF CommittedInv
<1>8. OpsOf(All)' = OpsOf(All') /\ OpsOf(file)' = OpsOf(file') /\ ToSet(committed)' = ToSet(committed')
  BY DEF OpsOf, ToSet
<1> QED
  BY <1>5, <1>6, <1>7, <1>8 DEF CommittedInv

\* A flush puts into the file what a thread is about to report as done.
LEMMA FlushCommittedInv ==
    ASSUME RoomForAll, IInv, CommittedInv, NEW c \in Client, MakeRoom(c) \/ CommitFlush(c)
    PROVE  CommittedInv'
<1>0. TypeOK /\ OperationsDiffer
  BY DEF IInv
<1>1. file' = All /\ buffer' = <<>> /\ All' = All
  BY <1>0, Flushed DEF MakeRoom, CommitFlush
<1>2. Buffered' \in SUBSET (Client \X {1, 2})
  BY DEF Buffered
<1>3. Len(buffer') = 0 /\ Cardinality(Buffered') \in Nat
  BY <1>1, <1>2, BufferedIsFinite
<1>4. OpsOf(file) \subseteq OpsOf(All)
  BY <1>0, AllType DEF OpsOf
<1>5. \A d \in Client : stage'[d] = "flush" => stage[d] = "flush" /\ running'[d] = running[d]
  BY <1>0 DEF MakeRoom, CommitFlush, Goto, TypeOK
<1>6. ToSet(committed') \subseteq OpsOf(All)
  <2>1. CASE MakeRoom(c)
    BY <1>4, <2>1 DEF MakeRoom, history, CommittedInv
  <2>2. CASE CommitFlush(c)
    <3>1. committed' = Append(committed, running[c]) /\ running[c] \in OpsOf(All)
      BY <2>2 DEF CommitFlush, CommittedInv
    <3>2. running[c] \in Operation \cup {0} /\ committed \in Seq(Operation \cup {0})
      BY <1>0 DEF TypeOK
    <3> DEFINE a == Append(committed, running[c])
    <3>3. /\ Len(a) = Len(committed) + 1 /\ a[Len(committed) + 1] = running[c]
          /\ \A i \in 1..Len(committed) : a[i] = committed[i]
          /\ a \in Seq(Operation \cup {0})
      BY <3>2, AppendProperties
    <3> HIDE DEF a
    <3>4. DOMAIN a = 1..(Len(committed) + 1) /\ DOMAIN committed = 1..Len(committed) /\ Len(committed) \in Nat
      BY <3>2, <3>3
    <3>5. \A i \in DOMAIN a : i = Len(committed) + 1 \/ i \in DOMAIN committed
      BY <3>4
    <3>6. ToSet(a) \subseteq ToSet(committed) \cup {running[c]}
      BY <3>3, <3>4, <3>5 DEF ToSet
    <3> QED
      BY <1>4, <3>1, <3>6 DEF a, CommittedInv
  <2> QED
    BY <2>1, <2>2
<1>7. OpsOf(All)' = OpsOf(All) /\ OpsOf(file)' = OpsOf(All)
  BY <1>1 DEF OpsOf
<1>8. ToSet(committed)' = ToSet(committed')
  BY DEF ToSet
<1> QED
  BY <1>3, <1>5, <1>6, <1>7, <1>8 DEF CommittedInv

\* Every step keeps it.
LEMMA NextCommittedInv == RoomForAll /\ IInv /\ CommittedInv /\ [Next]_vars => CommittedInv'
<1> SUFFICES ASSUME RoomForAll, IInv, CommittedInv, [Next]_vars PROVE CommittedInv'
  OBVIOUS
<1>0. TypeOK
  BY DEF IInv
<1>1. ASSUME NEW c \in Client, InitializeReads(c) \/ InitializeSets(c) PROVE CommittedInv'
  <2>1. /\ UNCHANGED <<file, buffer, running, committed>>
        /\ stage[c] \in {"outside", "ready", "initialize"} /\ stage'[c] \in {"initialize", "ready"}
        /\ \A d \in Client : d # c => stage'[d] = stage[d]
        /\ \A d \in Client : rec'[d].op = rec[d].op
    <3>1. CASE InitializeReads(c)
      BY <1>0, <3>1 DEF InitializeReads, Goto, TypeOK, LogRecord
    <3>2. CASE InitializeSets(c)
      BY <1>0, <3>2 DEF InitializeSets, Goto, history, TypeOK
    <3> QED
      BY <1>1, <3>1, <3>2
  <2>2. Buffered \subseteq Buffered'
    BY <2>1 DEF Buffered, InOperation
  <2> QED
    BY <1>0, <2>1, <2>2, CommittedUntouched
<1>2. ASSUME NEW c \in Client, BeginTransaction(c) PROVE CommittedInv'
  <2>1. /\ UNCHANGED <<file, buffer, committed>>
        /\ stage[c] = "ready" /\ stage'[c] = "take_lsn"
        /\ \A d \in Client : d # c =>
              stage'[d] = stage[d] /\ rec'[d] = rec[d] /\ running'[d] = running[d]
    BY <1>0, <1>2 DEF BeginTransaction, Goto, TypeOK
  <2>2. Buffered \subseteq Buffered'
    BY <2>1 DEF Buffered, InOperation
  <2> QED
    BY <1>0, <2>1, <2>2, CommittedUntouched
<1>3. ASSUME NEW c \in Client, TakeLsn(c) \/ SetLsn(c) PROVE CommittedInv'
  <2>1. /\ UNCHANGED <<file, buffer, running, committed>>
        /\ stage[c] \in {"take_lsn", "set_lsn"} /\ stage'[c] \in {"set_lsn", "write"}
        /\ \A d \in Client : d # c => stage'[d] = stage[d]
        /\ \A d \in Client : rec'[d].op = rec[d].op
    BY <1>0, <1>3 DEF TakeLsn, SetLsn, Goto, history, TypeOK, LogRecord
  <2>2. Buffered \subseteq Buffered'
    BY <2>1 DEF Buffered, InOperation
  <2> QED
    BY <1>0, <2>1, <2>2, CommittedUntouched
<1>4. ASSUME NEW c \in Client, WriteRecord(c) PROVE CommittedInv'
  <2>1. CASE HasRoom
    BY <1>4, <2>1, WriteCommittedInv DEF WriteRecord, history
  <2>2. CASE ~HasRoom
    <3>1. /\ UNCHANGED <<file, buffer, rec, running, committed>>
          /\ stage[c] = "write" /\ stage'[c] = "make_room"
          /\ \A d \in Client : d # c => stage'[d] = stage[d]
      BY <1>0, <1>4, <2>2 DEF WriteRecord, Goto, history, TypeOK
    <3>2. Buffered \subseteq Buffered'
      BY <3>1 DEF Buffered, InOperation
    <3> QED
      BY <1>0, <3>1, <3>2, CommittedUntouched
  <2> QED
    BY <2>1, <2>2
<1>5. ASSUME NEW c \in Client, WriteAgain(c) PROVE CommittedInv'
  BY <1>0, <1>5, SecondWriteFits, WriteCommittedInv DEF WriteAgain, history
<1>6. ASSUME NEW c \in Client, MakeRoom(c) \/ CommitFlush(c) PROVE CommittedInv'
  BY <1>6, FlushCommittedInv
<1>7. CASE CrashAndRestart
  <2>1. /\ buffer' = <<>> /\ OpsOf(file) \subseteq OpsOf(file')
        /\ committed' = committed /\ stage' = [c \in Client |-> "outside"]
    BY <1>0, <1>7, Killed DEF CrashAndRestart
  <2>2. Buffered' \in SUBSET (Client \X {1, 2})
    BY DEF Buffered
  <2>3. Len(buffer') = 0 /\ Cardinality(Buffered') \in Nat
    BY <2>1, <2>2, BufferedIsFinite
  <2>4. OpsOf(file)' = OpsOf(file') /\ ToSet(committed)' = ToSet(committed)
    BY <2>1 DEF OpsOf, ToSet
  <2> QED
    BY <2>1, <2>3, <2>4 DEF CommittedInv
<1>8. CASE UNCHANGED vars
  <2>1. UNCHANGED <<file, buffer, committed, Buffered, stage, running>>
    BY <1>8 DEF vars, Buffered, InOperation
  <2> QED
    BY <1>0, <2>1, CommittedUntouched
<1> QED
  BY <1>1, <1>2, <1>3, <1>4, <1>5, <1>6, <1>7, <1>8 DEF Next

-----------------------------------------------------------------------------
(* LSNs follow the operations *)

\* It holds at the start.
LEMMA InitSerialInv == Init => SerialInv
<1> SUFFICES ASSUME Init PROVE SerialInv
  OBVIOUS
<1>1. TypeOK /\ buffer = <<>> /\ file = <<>> /\ \A c \in Client : stage[c] = "outside"
  BY InitIInv DEF Init, IInv
<1>2. Len(Log) = 0
  <2>1. Len(All) = 0 /\ All \in Seq(LogRecord \cup {Torn})
    BY <1>1, AllType
  <2>2. Len(Log) \in Nat /\ Len(Log) <= Len(All)
    BY <2>1, ReadProperties DEF Log
  <2> QED
    BY <2>1, <2>2
<1> QED
  BY <1>1, <1>2 DEF SerialInv, TakeTurns, OneInside, EmptyBetween, LatestRuns, LsnsBelow,
                    LsnIsSet, Ordered, Inside, InOperation

\* When a thread enters the logger and no other is inside, it is alone there.
LEMMA EnteredAlone ==
    ASSUME NEW c \in Client, NoteOverlap(c), ~overlapped'
    PROVE  ~overlapped /\ \A d \in Client : d # c => stage[d] \in {"outside", "ready"}
BY DEF NoteOverlap, Inside

\* A thread inside the logger is alone there.
LEMMA InsideAlone ==
    ASSUME OneInside, NEW c \in Client, Inside(c)
    PROVE  \A d \in Client : d # c => stage[d] \in {"outside", "ready"}
BY DEF OneInside, Inside

\* What a step of one thread leaves of the invariant when no record is added:
\* the parts that are not about its own LSN.
LEMMA SerialStep ==
    ASSUME IInv, TakeTurns, Log' = Log, NEW c \in Client,
           \A d \in Client : d # c => stage[d] \in {"outside", "ready"} /\ stage'[d] = stage[d],
           InOperation(c)' => running'[c] = begun',
           ~InOperation(c)' => buffer' = <<>>,
           \/ lastLsn' = lastLsn
           \/ \A i \in 1..Len(Log) : Log[i].lsn <= lastLsn',
           \A i \in 1..Len(Log) :
              /\ stage'[c] = "initialize" => Log[i].lsn <= rec'[c].lsn
              /\ stage'[c] \notin {"outside", "initialize"} => Log[i].lsn <= lastLsn'
              /\ stage'[c] \in {"set_lsn", "write", "make_room", "write_again"} =>
                    Log[i].lsn < rec'[c].lsn,
           stage'[c] \in {"write", "make_room", "write_again"} => rec'[c].lsn = lastLsn'
    PROVE  TakeTurns'
<1>1. OneInside'
  BY DEF OneInside, Inside
<1>2. EmptyBetween'
  BY DEF EmptyBetween
<1>3. LatestRuns'
  BY DEF LatestRuns, InOperation
<1>4. LsnsBelow'
  <2>1. SUFFICES ASSUME NEW i \in 1..Len(Log), NEW d \in Client, d # c
                 PROVE  /\ stage'[d] # "initialize"
                        /\ stage'[d] \notin {"outside", "initialize"} => Log[i].lsn <= lastLsn'
                        /\ stage'[d] \notin {"set_lsn", "write", "make_room", "write_again"}
    BY DEF LsnsBelow
  <2>2. stage'[d] = stage[d] /\ stage[d] \in {"outside", "ready"}
    BY <2>1
  <2>3. stage[d] \notin {"outside", "initialize"} => Log[i].lsn <= lastLsn
    BY DEF TakeTurns, LsnsBelow
  <2> QED
    BY <2>2, <2>3
<1>5. LsnIsSet'
  BY DEF LsnIsSet
<1>6. Ordered'
  BY DEF Ordered, TakeTurns
<1> QED
  BY <1>1, <1>2, <1>3, <1>4, <1>5, <1>6 DEF TakeTurns

\* The record a thread alone in the logger writes is the latest.
LEMMA SerialWrite ==
    ASSUME IInv, TakeTurns, NEW c \in Client, stage[c] \in {"write", "write_again"},
           WrittenThen(c), UNCHANGED <<lastLsn, running, begun>>,
           Log' = Log \/ Log' = Append(Log, rec[c])
    PROVE  TakeTurns'
<1>0. TypeOK /\ OperationsDiffer /\ LoggedInTime
  BY DEF IInv
<1>1. \A d \in Client : d # c => stage[d] \in {"outside", "ready"}
  BY InsideAlone DEF TakeTurns, Inside
<1>2. /\ stage'[c] \in {"take_lsn", "flush"}
      /\ \A d \in Client : d # c => stage'[d] = stage[d]
  BY WrittenThenTypes
<1>3. InOperation(c) /\ InOperation(c)' /\ running[c] = begun
  BY <1>2 DEF InOperation, TakeTurns, LatestRuns
<1>4. /\ \A i \in 1..Len(Log) : Log[i].lsn <= lastLsn /\ Log[i].lsn < rec[c].lsn
      /\ rec[c].lsn = lastLsn
  BY DEF TakeTurns, LsnsBelow, LsnIsSet
<1>5. CASE Log' = Log
  BY <1>1, <1>2, <1>3, <1>4, <1>5, SerialStep
<1>6. CASE Log' = Append(Log, rec[c])
  <2>1. /\ Len(Log') = Len(Log) + 1 /\ Len(Log) \in Nat
        /\ Log'[Len(Log) + 1] = rec[c]
        /\ \A i \in 1..Len(Log) : Log'[i] = Log[i]
        /\ \A i \in 1..Len(Log') : i \in 1..Len(Log) \/ i = Len(Log) + 1
    BY <1>0, <1>6, OneMore
  <2>2. begun \in Nat /\ lastLsn \in Nat /\ rec[c].op \in {BeginMark, begun}
    <3>1. begun \in Nat /\ lastLsn \in Nat
      BY <1>0, BoundsAssumption DEF TypeOK, Lsn
    <3>2. rec[c].op \in {BeginMark, running[c]}
      BY <1>0, <1>3 DEF OperationsDiffer
    <3> QED
      BY <1>3, <3>1, <3>2
  <2>3. \A i \in 1..Len(Log') : Log'[i].lsn <= lastLsn'
    <3>1. lastLsn <= lastLsn
      BY <2>2
    <3> QED
      BY <1>4, <2>1, <3>1
  <2>4. OneInside'
    BY <1>1, <1>2 DEF OneInside, Inside
  <2>5. EmptyBetween'
    BY <1>3 DEF EmptyBetween
  <2>6. LatestRuns'
    BY <1>1, <1>2, <1>3 DEF LatestRuns, InOperation
  <2>7. LsnsBelow' /\ LsnIsSet'
    BY <1>1, <1>2, <2>3 DEF LsnsBelow, LsnIsSet
  <2>8. Ordered'
    <3>1. SUFFICES ASSUME NEW i \in 1..Len(Log'), NEW j \in 1..Len(Log'),
                          BeginMark # Log'[i].op, Log'[i].op < Log'[j].op
                   PROVE  Log'[i].lsn < Log'[j].lsn
      BY DEF Ordered
    <3>2. \A k \in 1..Len(Log) : Log[k].op \in Nat /\ Log[k].op <= begun
      BY <1>0, LogType DEF LoggedInTime
    <3>3. CASE i \in 1..Len(Log) /\ j \in 1..Len(Log)
      BY <2>1, <3>1, <3>3 DEF TakeTurns, Ordered
    <3>4. CASE i \in 1..Len(Log) /\ j = Len(Log) + 1
      BY <1>4, <2>1, <3>4
    <3>5. CASE i = Len(Log) + 1
      <4>1. Log'[i].op = begun
        BY <2>1, <2>2, <3>1, <3>5
      <4>2. Log'[j].op <= begun /\ Log'[j].op \in Nat
        <5>1. CASE j \in 1..Len(Log)
          BY <2>1, <3>2, <5>1
        <5>2. CASE j = Len(Log) + 1
          BY <2>1, <2>2, <3>5, <4>1, <5>2
        <5> QED
          BY <2>1, <5>1, <5>2
      <4> QED
        BY <2>2, <3>1, <4>1, <4>2
    <3> QED
      BY <2>1, <3>3, <3>4, <3>5
  <2> QED
    BY <2>4, <2>5, <2>6, <2>7, <2>8 DEF TakeTurns
<1> QED
  BY <1>5, <1>6

\* A thread that enters alone finds all records in the file, and takes their
\* largest LSN.
LEMMA SerialInitializeReads ==
    ASSUME IInv, SerialInv, NEW c \in Client, InitializeReads(c), ~overlapped'
    PROVE  TakeTurns'
<1>0. TypeOK
  BY DEF IInv
<1>1. TakeTurns /\ \A d \in Client : d # c => stage[d] \in {"outside", "ready"}
  BY EnteredAlone DEF InitializeReads, SerialInv
<1>2. /\ stage[c] \in {"outside", "ready"}
      /\ UNCHANGED <<file, buffer, lastLsn, running, begun>>
      /\ rec' = [rec EXCEPT ![c].lsn = FindMaxLSN(file)]
      /\ stage' = [stage EXCEPT ![c] = "initialize"]
  BY DEF InitializeReads, Goto
<1>3. /\ stage'[c] = "initialize" /\ rec'[c].lsn = FindMaxLSN(file)
      /\ \A d \in Client : d # c => stage'[d] = stage[d]
  BY <1>0, <1>2 DEF TypeOK, LogRecord
<1>4. ~InOperation(c)' /\ \A d \in Client : ~InOperation(d)
  BY <1>1, <1>2, <1>3 DEF InOperation
<1>5. buffer = <<>>
  BY <1>1, <1>4 DEF TakeTurns, EmptyBetween
<1>6. All = file /\ Log = ReadWALLog(file) /\ file \in Seq(LogRecord \cup {Torn})
  <2>1. file \in Seq(LogRecord \cup {Torn})
    BY <1>0 DEF TypeOK
  <2> QED
    BY <1>5, <2>1, ConcatEmptySeq DEF All, Log
<1>7. \A i \in 1..Len(Log) : Log[i].lsn <= FindMaxLSN(file)
  BY <1>6, FindMaxProperties
<1>8. Log' = Log /\ buffer' = <<>>
  BY <1>2, <1>5 DEF Log, All
<1> QED
  BY <1>1, <1>2, <1>3, <1>4, <1>7, <1>8, SerialStep

\* A thread that begins an operation alone begins the latest.
LEMMA SerialBegin ==
    ASSUME IInv, SerialInv, NEW c \in Client, BeginTransaction(c), ~overlapped'
    PROVE  TakeTurns'
<1>0. TypeOK
  BY DEF IInv
<1>1. TakeTurns /\ \A d \in Client : d # c => stage[d] \in {"outside", "ready"}
  BY EnteredAlone DEF BeginTransaction, SerialInv
<1>2. /\ stage[c] = "ready" /\ stage' = [stage EXCEPT ![c] = "take_lsn"]
      /\ running' = [running EXCEPT ![c] = begun + 1] /\ begun' = begun + 1
      /\ UNCHANGED <<file, buffer, lastLsn>>
  BY DEF BeginTransaction, Goto
<1>3. /\ stage'[c] = "take_lsn" /\ running'[c] = begun'
      /\ \A d \in Client : d # c => stage'[d] = stage[d]
  BY <1>0, <1>2 DEF TypeOK
<1>4. InOperation(c)'
  BY <1>3 DEF InOperation
<1>5. \A i \in 1..Len(Log) : Log[i].lsn <= lastLsn
  BY <1>1, <1>2 DEF TakeTurns, LsnsBelow
<1>6. Log' = Log
  BY <1>2 DEF Log, All
<1> QED
  BY <1>1, <1>2, <1>3, <1>4, <1>5, <1>6, SerialStep

\* The accesses to LAST_LSN of a thread alone in the logger.
LEMMA SerialLsn ==
    ASSUME IInv, TakeTurns, NEW c \in Client, InitializeSets(c) \/ TakeLsn(c) \/ SetLsn(c)
    PROVE  TakeTurns'
<1>0. TypeOK
  BY DEF IInv
<1>1. /\ stage[c] \in {"initialize", "take_lsn", "set_lsn"}
      /\ UNCHANGED <<file, buffer, running, begun>> /\ Log' = Log
  BY DEF InitializeSets, TakeLsn, SetLsn, history, Log, All
<1>2. \A d \in Client : d # c => stage[d] \in {"outside", "ready"}
  BY <1>1, InsideAlone DEF TakeTurns, Inside
<1>3. \A d \in Client : d # c => stage'[d] = stage[d]
  BY <1>0 DEF InitializeSets, TakeLsn, SetLsn, Goto, TypeOK
<1>4. CASE InitializeSets(c)
  <2>1. stage[c] = "initialize" /\ stage'[c] = "ready" /\ lastLsn' = rec[c].lsn
    BY <1>0, <1>4 DEF InitializeSets, Goto, TypeOK
  <2>2. \A i \in 1..Len(Log) : Log[i].lsn <= lastLsn'
    BY <2>1 DEF TakeTurns, LsnsBelow
  <2>3. ~InOperation(c)' /\ ~InOperation(c)
    BY <2>1 DEF InOperation
  <2>4. buffer' = <<>>
    <3>1. \A d \in Client : ~InOperation(d)
      BY <1>2, <2>3 DEF InOperation
    <3> QED
      BY <1>1, <3>1 DEF TakeTurns, EmptyBetween
  <2> QED
    BY <1>1, <1>2, <1>3, <2>1, <2>2, <2>3, <2>4, SerialStep
<1>5. CASE TakeLsn(c)
  <2>1. /\ stage[c] = "take_lsn" /\ stage'[c] = "set_lsn" /\ lastLsn' = lastLsn
        /\ rec'[c].lsn = lastLsn + 1
    BY <1>0, <1>5 DEF TakeLsn, Goto, TypeOK, LogRecord
  <2>2. \A i \in 1..Len(Log) : Log[i].lsn <= lastLsn /\ Log[i].lsn \in Nat
    BY <1>0, <2>1, LogType DEF TakeTurns, LsnsBelow
  <2>3. lastLsn \in Nat
    BY <1>0 DEF TypeOK, Lsn
  <2>4. \A i \in 1..Len(Log) : Log[i].lsn <= lastLsn' /\ Log[i].lsn < rec'[c].lsn
    BY <2>1, <2>2, <2>3
  <2>5. InOperation(c)' /\ running'[c] = begun'
    BY <1>1, <2>1 DEF InOperation, TakeTurns, LatestRuns
  <2> QED
    BY <1>1, <1>2, <1>3, <2>1, <2>4, <2>5, SerialStep
<1>6. CASE SetLsn(c)
  <2>1. /\ stage[c] = "set_lsn" /\ stage'[c] = "write" /\ lastLsn' = rec[c].lsn
        /\ rec' = rec
    BY <1>0, <1>6 DEF SetLsn, Goto, TypeOK
  <2>2. rec[c].lsn \in Nat
    BY <1>0 DEF TypeOK, LogRecord, Lsn
  <2>3. \A i \in 1..Len(Log) : Log[i].lsn < rec[c].lsn /\ Log[i].lsn \in Nat
    BY <1>0, <2>1, LogType DEF TakeTurns, LsnsBelow
  <2>4. \A i \in 1..Len(Log) : Log[i].lsn <= lastLsn' /\ Log[i].lsn < rec'[c].lsn
    BY <2>1, <2>2, <2>3
  <2>5. InOperation(c)' /\ running'[c] = begun'
    BY <1>1, <2>1 DEF InOperation, TakeTurns, LatestRuns
  <2> QED
    BY <1>1, <1>2, <1>3, <2>1, <2>4, <2>5, SerialStep
<1> QED
  BY <1>4, <1>5, <1>6

\* A flush by the only thread in the logger, or its finding the buffer full.
LEMMA SerialFlush ==
    ASSUME IInv, TakeTurns, NEW c \in Client,
           \/ /\ stage[c] = "write" /\ Goto(c, "make_room")
              /\ UNCHANGED <<buffer, rec, file, lastLsn, running, history>>
           \/ MakeRoom(c)
           \/ CommitFlush(c)
    PROVE  TakeTurns'
<1>0. TypeOK
  BY DEF IInv
<1>1. /\ stage[c] \in {"write", "make_room", "flush"}
      /\ UNCHANGED <<lastLsn, rec, running, begun>> /\ Log' = Log
  <2>1. Log' = Log
    BY FlushIInv
  <2> QED
    BY <2>1 DEF MakeRoom, CommitFlush, history
<1>2. \A d \in Client : d # c => stage[d] \in {"outside", "ready"}
  BY <1>1, InsideAlone DEF TakeTurns, Inside
<1>3. /\ \A d \in Client : d # c => stage'[d] = stage[d]
      /\ stage'[c] \in {"make_room", "write_again", "ready"}
      /\ stage'[c] \in {"make_room", "write_again"} => stage[c] \in {"write", "make_room"}
      /\ stage'[c] = "ready" => buffer' = <<>>
  BY <1>0 DEF MakeRoom, CommitFlush, FlushToFile, Goto, TypeOK
<1>4. /\ \A i \in 1..Len(Log) : Log[i].lsn <= lastLsn
      /\ stage[c] \in {"write", "make_room"} => \A i \in 1..Len(Log) : Log[i].lsn < rec[c].lsn
      /\ stage[c] \in {"write", "make_room"} => rec[c].lsn = lastLsn
      /\ running[c] = begun
  <2>1. InOperation(c)
    BY <1>1 DEF InOperation
  <2> QED
    BY <1>1, <2>1 DEF TakeTurns, LsnsBelow, LsnIsSet, LatestRuns
<1>5. ~InOperation(c)' => stage'[c] = "ready"
  BY <1>3 DEF InOperation
<1> QED
  BY <1>1, <1>2, <1>3, <1>4, <1>5, SerialStep

\* A kill: nobody is inside, nothing is buffered.
LEMMA SerialCrash ==
    ASSUME IInv, TakeTurns, CrashAndRestart
    PROVE  TakeTurns'
<1>0. TypeOK
  BY DEF IInv
<1>1. \A c \in Client : stage'[c] = "outside"
  BY DEF CrashAndRestart
<1>2. /\ buffer' = <<>>
      /\ \A i \in 1..Len(Log') : i \in 1..Len(Log) /\ Log'[i] = Log[i]
  BY <1>0, Killed
<1>3. Ordered'
  BY <1>2 DEF Ordered, TakeTurns
<1> QED
  BY <1>1, <1>2, <1>3 DEF TakeTurns, OneInside, EmptyBetween, LatestRuns, LsnsBelow, LsnIsSet,
                          Inside, InOperation

\* Every step keeps it.
LEMMA NextSerialInv == IInv /\ SerialInv /\ [Next]_vars => SerialInv'
<1> SUFFICES ASSUME IInv, SerialInv, [Next]_vars, ~overlapped' PROVE TakeTurns'
  BY DEF SerialInv
<1>1. ASSUME NEW c \in Client, InitializeReads(c) PROVE TakeTurns'
  BY <1>1, SerialInitializeReads
<1>2. ASSUME NEW c \in Client, BeginTransaction(c) PROVE TakeTurns'
  BY <1>2, SerialBegin
<1>3. ASSUME NEW c \in Client, InitializeSets(c) \/ TakeLsn(c) \/ SetLsn(c) PROVE TakeTurns'
  <2>1. TakeTurns
    BY <1>3 DEF InitializeSets, TakeLsn, SetLsn, history, SerialInv
  <2> QED
    BY <1>3, <2>1, SerialLsn
<1>4. ASSUME NEW c \in Client, WriteRecord(c) PROVE TakeTurns'
  <2>1. TakeTurns /\ TypeOK
    BY <1>4 DEF WriteRecord, history, SerialInv, IInv
  <2>2. CASE HasRoom
    <3>1. Log' = Log \/ Log' = Append(Log, rec[c])
      BY <1>4, <2>1, <2>2, Written DEF WriteRecord
    <3> QED
      BY <1>4, <2>1, <2>2, <3>1, SerialWrite DEF WriteRecord, history
  <2>3. CASE ~HasRoom
    BY <1>4, <2>1, <2>3, SerialFlush DEF WriteRecord
  <2> QED
    BY <2>2, <2>3
<1>5. ASSUME NEW c \in Client, WriteAgain(c) PROVE TakeTurns'
  <2>1. TakeTurns /\ TypeOK
    BY <1>5 DEF WriteAgain, history, SerialInv, IInv
  <2>2. Log' = Log \/ Log' = Append(Log, rec[c])
    <3>1. CASE HasRoom
      BY <1>5, <2>1, <3>1, Written DEF WriteAgain
    <3>2. CASE ~HasRoom
      BY <1>5, <3>2 DEF WriteAgain, Log, All
    <3> QED
      BY <3>1, <3>2
  <2> QED
    BY <1>5, <2>1, <2>2, SerialWrite DEF WriteAgain, history
<1>6. ASSUME NEW c \in Client, MakeRoom(c) \/ CommitFlush(c) PROVE TakeTurns'
  <2>1. TakeTurns
    BY <1>6 DEF MakeRoom, CommitFlush, history, SerialInv
  <2> QED
    BY <1>6, <2>1, SerialFlush
<1>7. CASE CrashAndRestart
  <2>1. TakeTurns
    BY <1>7 DEF CrashAndRestart, SerialInv
  <2> QED
    BY <1>7, <2>1, SerialCrash
<1>8. CASE UNCHANGED vars
  <2>1. TakeTurns /\ UNCHANGED <<All, Log>>
    BY <1>8 DEF vars, All, Log, SerialInv
  <2> QED
    BY <1>8, <2>1 DEF vars, TakeTurns, OneInside, EmptyBetween, LatestRuns, LsnsBelow, LsnIsSet,
                      Ordered, Inside, InOperation
<1> QED
  BY <1>1, <1>2, <1>3, <1>4, <1>5, <1>6, <1>7, <1>8 DEF Next

-----------------------------------------------------------------------------
(* Theorems *)

\* The inductive invariant holds in every state: types; operations that are
\* in progress have different numbers; the log, with the buffer behind it,
\* has no operation twice and none that its thread has still to write.
THEOREM IInvHolds == Spec => []IInv
BY InitIInv, NextIInv, PTL DEF Spec

\* The fields of the logger keep their types, and the file holds records and
\* at most heads of records.
THEOREM TypeCorrect == Spec => []TypeOK
<1>1. IInv => TypeOK
  BY DEF IInv
<1> QED
  BY <1>1, IInvHolds, PTL

\* No row change is in the WAL file twice, although one thread's flush writes
\* what another has buffered and will flush itself (WriteWALLog,
\* CommitTransaction).
THEOREM LoggedAtMostOnce == Spec => []LoggedOnce
<1>1. IInv => LoggedOnce
  BY LogType DEF IInv, LoggedInTime, LoggedOnce, Changes
<1> QED
  BY <1>1, IInvHolds, PTL

\* With a WAL buffer that holds two records of every client but one, and one
\* more, what CommitTransaction has reported done is in the log for good, over
\* any number of kills, unless a kill tears a record: no WriteRecord drops one.
THEOREM CommittedStaysLogged ==
    ASSUME RoomForAll
    PROVE  Spec => []CommittedIsLogged
<1>1. IInv /\ CommittedInv => CommittedIsLogged
  <2> SUFFICES ASSUME IInv, CommittedInv PROVE CommittedIsLogged
    OBVIOUS
  <2>1. LoggedOnce
    BY LogType DEF IInv, LoggedInTime, LoggedOnce, Changes
  <2>2. ASSUME ~IsTorn(file), NEW o \in ToSet(committed) PROVE o \in LoggedOperations(file)
    <3>1. file \in Seq(LogRecord \cup {Torn}) /\ committed \in Seq(Operation)
      BY DEF IInv, TypeOK
    <3>2. ReadWALLog(file) = file
      BY <2>2, <3>1, ReadProperties
    <3>3. o # BeginMark
      BY <2>2, <3>1, BoundsAssumption DEF ToSet, Operation, BeginMark
    <3>4. PICK i \in 1..Len(file) : file[i].op = o
      BY <2>2 DEF CommittedInv, OpsOf
    <3> QED
      BY <3>2, <3>3, <3>4 DEF LoggedOperations, Changes
  <2> QED
    BY <2>1, <2>2 DEF CommittedIsLogged
<1>2. Init => CommittedInv
  BY InitCommittedInv
<1>3. IInv /\ CommittedInv /\ [Next]_vars => CommittedInv'
  BY NextCommittedInv
<1> QED
  BY <1>1, <1>2, <1>3, IInvHolds, PTL DEF Spec

\* While the threads take turns, sorting the changes by LSN gives the order
\* in which they were made: LAST_LSN, although nothing protects it and every
\* Initialize resets it from the file, never goes back below a logged LSN.
THEOREM LsnsFollowChanges == Spec => []NewestFirst
<1>1. IInv /\ SerialInv => NewestFirst
  BY LogType DEF IInv, SerialInv, TakeTurns, Ordered, NewestFirst, Changes
<1>2. Init => SerialInv
  BY InitSerialInv
<1>3. IInv /\ SerialInv /\ [Next]_vars => SerialInv'
  BY NextSerialInv
<1> QED
  BY <1>1, <1>2, <1>3, IInvHolds, PTL DEF Spec

\* No flush, kill or restart takes a record out of what ReadWALLog returns,
\* changes one, or puts one before another.
THEOREM LogOnlyGrows == Spec => ReadableLogOnlyGrows
<1>1. ASSUME IInv, IInv', [Next]_vars PROVE IsPrefix(ReadWALLog(file), ReadWALLog(file'))
  <2>1. /\ TypeOK /\ file \in Seq(LogRecord \cup {Torn}) /\ file' \in Seq(LogRecord \cup {Torn})
        /\ Len(file) \in Nat
    BY <1>1 DEF IInv, TypeOK
  <2>2. Len(file) <= Len(file') /\ \A i \in 1..Len(file) : file'[i] = file[i]
    <3>1. CASE file' = file
      BY <2>1, <3>1
    <3>2. CASE FlushToFile
      <4>1. file' = All
        BY <2>1, <3>2, Flushed
      <4>2. /\ Len(All) = Len(file) + Len(buffer) /\ Len(buffer) \in Nat
            /\ \A i \in 1..Len(file) : All[i] = file[i]
        BY <2>1, AllType
      <4> QED
        BY <2>1, <4>1, <4>2
    <3>3. CASE CrashAndRestart
      BY <2>1, <3>3, Killed
    <3> QED
      BY <1>1, <3>1, <3>2, <3>3 DEF Next, vars, InitializeReads, InitializeSets,
         BeginTransaction, TakeLsn, SetLsn, WriteRecord, MakeRoom, WriteAgain, CommitFlush
  <2> DEFINE a == ReadWALLog(file)
             b == ReadWALLog(file')
  <2>3. Len(a) <= Len(b) /\ \A i \in 1..Len(a) : b[i] = a[i]
    BY <2>1, <2>2, ReadExtended
  <2>4. a \in Seq(LogRecord) /\ b \in Seq(LogRecord)
    BY <2>1, ReadProperties
  <2> HIDE DEF a, b
  <2> DEFINE n == Len(a)
             s == SubSeq(a, 1, n)
             t == SubSeq(b, 1, n)
  <2>5. n \in Nat /\ \A i \in 1..n : a[i] \in LogRecord /\ b[i] \in LogRecord
    BY <2>3, <2>4
  <2> HIDE DEF n
  <2>6. /\ s \in Seq(LogRecord) /\ Len(s) = n /\ \A i \in 1..n : s[i] = a[i]
        /\ t \in Seq(LogRecord) /\ Len(t) = n /\ \A i \in 1..n : t[i] = b[i]
    BY <2>5, SubSeqProperties
  <2>7. \A i \in 1..n : s[i] = t[i]
    BY <2>3, <2>6 DEF n
  <2> HIDE DEF s, t
  <2>8. s = t
    BY <2>6, <2>7, SeqEqual
  <2> QED
    BY <2>3, <2>8 DEF IsPrefix, a, b, n, s, t
<1>2. IInv /\ IInv' /\ [Next]_vars => [IsPrefix(ReadWALLog(file), ReadWALLog(file'))]_vars
  BY <1>1
<1> QED
  BY <1>2, IInvHolds, PTL DEF Spec, ReadableLogOnlyGrows
==============================================================================
