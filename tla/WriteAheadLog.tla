----------------------------- MODULE WriteAheadLog -----------------------------
(***************************************************************************)
(* The write-ahead log of logger.cpp as the executor uses it through       *)
(* EnhancedExecutor (logger_integration.cpp): LSNs from the global         *)
(* LAST_LSN, the WAL buffer under its mutex, the WAL file, and what        *)
(* RecoveryManager reads back from it.                                     *)
(*                                                                         *)
(* One DatabaseLogger is shared by the threads of all clients.  A logged   *)
(* row change ("operation") is a BEGIN record that stays in the buffer and *)
(* then the record of the change itself, which "commits" by flushing the   *)
(* buffer.  The threads interleave between the accesses to LAST_LSN, which *)
(* nothing protects, and the critical sections of the buffer mutex.        *)
(*                                                                         *)
(* The process may be killed at any moment; a kill during a flush leaves a *)
(* prefix of the buffer in the file, the last record of it possibly torn.  *)
(***************************************************************************)
EXTENDS Integers, Sequences, FiniteSets, SequencesExt, FiniteSetsExt

CONSTANTS
    Client,          \* the client threads that log operations
    BufferCapacity,  \* records that fit in the WAL buffer
    MaxOperations,   \* bound: operations ever logged
    MaxCrashes       \* bound: kills of the process

ASSUME BoundsAssumption ==
    /\ BufferCapacity \in Nat \ {0}
    /\ MaxOperations \in Nat
    /\ MaxCrashes \in Nat

\* Operations are numbered in the order they begin; 0 marks a BEGIN record.
Operation == 1..MaxOperations
BeginMark == 0

Lsn == Nat
LogRecord == [lsn : Lsn, op : Operation \cup {BeginMark}]
Torn == [lsn |-> 0, op |-> MaxOperations + 1]   \* the head of a record cut off by a kill

\* Where a thread stands in BeginTransaction and CommitTransaction.
Stage == {"outside",     \* before Initialize: between two operators
          "ready",       \* Initialize done, no operation in progress
          "initialize",  \* has read the maximal LSN of the file
          "take_lsn",    \* about to read LAST_LSN for the next record
          "set_lsn",     \* has read it
          "write",       \* first WriteRecord of WriteWALLog
          "make_room",   \* it failed: FlushWALBuffer
          "write_again", \* second WriteRecord, its result ignored
          "flush"}       \* FlushWALBuffer of CommitTransaction

VARIABLES
    file,        \* the WAL file
    buffer,      \* WALBuffer: the serialized records
    lastLsn,     \* LAST_LSN
    stage,       \* client -> Stage
    rec,         \* client -> the record it is logging
    running,     \* client -> the number of its operation
    begun,       \* history: operations begun so far
    committed,   \* history: operations whose CommitTransaction returned, in order
    overlapped,  \* history: two threads have been inside the logger together
    crashes      \* history: kills so far

vars == <<file, buffer, lastLsn, stage, rec, running, begun, committed, overlapped, crashes>>
history == <<begun, committed, overlapped, crashes>>

TypeOK ==
    /\ file \in Seq(LogRecord \cup {Torn})
    /\ buffer \in Seq(LogRecord)
    /\ lastLsn \in Lsn
    /\ stage \in [Client -> Stage]
    /\ rec \in [Client -> LogRecord]
    /\ running \in [Client -> Operation \cup {0}]
    /\ begun \in 0..MaxOperations
    /\ committed \in Seq(Operation)
    /\ overlapped \in BOOLEAN
    /\ crashes \in 0..MaxCrashes

NoRecord == [lsn |-> 0, op |-> BeginMark]

Init ==
    /\ file = <<>>
    /\ buffer = <<>>
    /\ lastLsn = 0
    /\ stage = [c \in Client |-> "outside"]
    /\ rec = [c \in Client |-> NoRecord]
    /\ running = [c \in Client |-> 0]
    /\ begun = 0
    /\ committed = <<>>
    /\ overlapped = FALSE
    /\ crashes = 0

-----------------------------------------------------------------------------
(* RecoveryManager *)

\* ReadWALLog: every record up to the first damaged one.
ReadWALLog(f) ==
    LET damaged == {i \in 1..Len(f) : f[i] = Torn}
    IN  IF damaged = {} THEN f ELSE SubSeq(f, 1, Min(damaged) - 1)

\* Mutants of FindMaxLSN: -1 for an empty log; the LSN of the first record,
\* as if the records were read newest first.
FindMaxOrMinusOne(f) == Max({ReadWALLog(f)[i].lsn : i \in 1..Len(ReadWALLog(f))} \cup {-1})
FindFirstLSN(f) == IF ReadWALLog(f) = <<>> THEN 0 ELSE ReadWALLog(f)[1].lsn

\* FindMaxLSN
FindMaxLSN(f) == Max({ReadWALLog(f)[i].lsn : i \in 1..Len(ReadWALLog(f))} \cup {0})

\* The records FindFilteredWALRecords keeps, by their places in the log: the
\* row changes, no BEGINs.
Changes(f) == {i \in 1..Len(ReadWALLog(f)) : ReadWALLog(f)[i].op # BeginMark}

-----------------------------------------------------------------------------

Goto(c, s) == stage' = [stage EXCEPT ![c] = s]

Inside(c) == stage[c] \notin {"outside", "ready"}

NoteOverlap(c) == overlapped' = (overlapped \/ \E d \in Client \ {c} : Inside(d))

\* EnhancedExecutor::Initialize, run by the constructor of every operator:
\* read the file...
InitializeReads(c) ==
    /\ stage[c] \in {"outside", "ready"}
    /\ rec' = [rec EXCEPT ![c].lsn = FindMaxLSN(file)]
    /\ Goto(c, "initialize")
    /\ NoteOverlap(c)
    /\ UNCHANGED <<file, buffer, lastLsn, running, begun, committed, crashes>>

\* ... and SET_LSN.
InitializeSets(c) ==
    /\ stage[c] = "initialize"
    /\ lastLsn' = rec[c].lsn
    /\ Goto(c, "ready")
    /\ UNCHANGED <<file, buffer, rec, running, history>>

\* InsertRecord, DeleteRecord, UpdateRecord call BeginTransaction.
BeginTransaction(c) ==
    /\ stage[c] = "ready"
    /\ begun < MaxOperations
    /\ begun' = begun + 1
    /\ running' = [running EXCEPT ![c] = begun + 1]
    /\ rec' = [rec EXCEPT ![c].op = BeginMark]
    /\ Goto(c, "take_lsn")
    /\ NoteOverlap(c)
    /\ UNCHANGED <<file, buffer, lastLsn, committed, crashes>>

\* record.lsn = LAST_LSN + 1 ...
TakeLsn(c) ==
    /\ stage[c] = "take_lsn"
    /\ rec' = [rec EXCEPT ![c].lsn = lastLsn + 1]
    /\ Goto(c, "set_lsn")
    /\ UNCHANGED <<file, buffer, lastLsn, running, history>>

\* ... and SET_LSN(record.lsn).
SetLsn(c) ==
    /\ stage[c] = "set_lsn"
    /\ lastLsn' = rec[c].lsn
    /\ Goto(c, "write")
    /\ UNCHANGED <<file, buffer, rec, running, history>>

\* What follows WriteWALLog: after the BEGIN record CommitTransaction takes
\* the LSN of the change's record, after that record it flushes.
WrittenThen(c) ==
    IF rec[c].op = BeginMark
    THEN /\ rec' = [rec EXCEPT ![c].op = running[c]]
         /\ Goto(c, "take_lsn")
    ELSE /\ Goto(c, "flush")
         /\ UNCHANGED rec

HasRoom == Len(buffer) < BufferCapacity

\* WriteRecord, first call: it reports a full buffer.
WriteRecord(c) ==
    /\ stage[c] = "write"
    /\ IF HasRoom
       THEN buffer' = Append(buffer, rec[c]) /\ WrittenThen(c)
       ELSE Goto(c, "make_room") /\ UNCHANGED <<buffer, rec>>
    /\ UNCHANGED <<file, lastLsn, running, history>>

\* Mutant of FlushToFile: the buffer is cleared and nothing is written.
FlushToNowhere ==
    /\ buffer' = <<>>
    /\ UNCHANGED file

\* FlushToFile: the whole buffer goes to the file, in one critical section.
FlushToFile ==
    /\ file' = file \o buffer
    /\ buffer' = <<>>

MakeRoom(c) ==
    /\ stage[c] = "make_room"
    /\ FlushToFile
    /\ Goto(c, "write_again")
    /\ UNCHANGED <<lastLsn, rec, running, history>>

\* WriteRecord, second call: nobody looks at the result, so a record that
\* does not fit now is lost without a word.
WriteAgain(c) ==
    /\ stage[c] = "write_again"
    /\ buffer' = IF HasRoom THEN Append(buffer, rec[c]) ELSE buffer
    /\ WrittenThen(c)
    /\ UNCHANGED <<file, lastLsn, running, history>>

\* The flush that ends CommitTransaction; the operation is reported done.
CommitFlush(c) ==
    /\ stage[c] = "flush"
    /\ FlushToFile
    /\ committed' = Append(committed, running[c])
    /\ Goto(c, "ready")
    /\ UNCHANGED <<lastLsn, rec, running, begun, overlapped, crashes>>

\* What a kill can leave in the file: nothing more than is there, or, in the
\* middle of a flush, part of the buffer and perhaps the head of one more
\* record.
FlushRemains ==
    IF \E c \in Client : stage[c] \in {"flush", "make_room"}
    THEN {SubSeq(buffer, 1, n) : n \in 0..Len(buffer)}
           \cup {Append(SubSeq(buffer, 1, n), Torn) : n \in 0..(Len(buffer) - 1)}
    ELSE {<<>>}

\* Mutant of Reopened: the file is opened without ios::app.
ReopenedEmpty(f) == <<>>

\* DatabaseLogger::Initialize opens the WAL file for appending.
Reopened(f) == f

\* The process is killed and started again: LAST_LSN starts at 0 and the
\* buffer is empty.
CrashAndRestart ==
    /\ crashes < MaxCrashes
    /\ \E remains \in FlushRemains : file' = Reopened(file \o remains)
    /\ buffer' = <<>>
    /\ lastLsn' = 0
    /\ stage' = [c \in Client |-> "outside"]
    /\ rec' = [c \in Client |-> NoRecord]
    /\ running' = [c \in Client |-> 0]
    /\ crashes' = crashes + 1
    /\ UNCHANGED <<begun, committed, overlapped>>

Next ==
    \/ \E c \in Client :
        \/ InitializeReads(c)
        \/ InitializeSets(c)
        \/ BeginTransaction(c)
        \/ TakeLsn(c)
        \/ SetLsn(c)
        \/ WriteRecord(c)
        \/ MakeRoom(c)
        \/ WriteAgain(c)
        \/ CommitFlush(c)
    \/ CrashAndRestart

Spec == Init /\ [][Next]_vars

-----------------------------------------------------------------------------
(***************************************************************************)
(* Properties.                                                             *)
(***************************************************************************)

IsTorn(f) == \E i \in 1..Len(f) : f[i] = Torn
LoggedOperations(f) == {ReadWALLog(f)[i].op : i \in Changes(f)}

\* Once CommitTransaction has returned, the operation is in the log that
\* ReadWALLog returns, whatever the other threads do to the buffer and
\* however often the process is killed - as long as no kill has torn a
\* record: what is appended behind a torn record is never read again.  And
\* no operation is there twice, although one thread's flush writes what
\* another has buffered and is about to flush.
LoggedOnce ==
    \A i, j \in Changes(file) : ReadWALLog(file)[i].op = ReadWALLog(file)[j].op => i = j
CommittedIsLogged ==
    /\ IsTorn(file) \/ ToSet(committed) \subseteq LoggedOperations(file)
    /\ LoggedOnce

\* While the threads have never been in the logger at the same time (two
\* that have may give two changes one number), LSNs say how operations
\* followed each other: sorting the changes by LSN, as FindFilteredWALRecords
\* does, yields the order in which they committed, without ties, also when
\* kills and restarts came between them.
NewestFirst ==
    overlapped \/
        LET log == ReadWALLog(file)
        IN  \A i, j \in Changes(file) :
                log[i].op < log[j].op => log[i].lsn < log[j].lsn

\* What can be read back from the log is never rewritten, by any flush,
\* restart or torn write: it only gets longer.
ReadableLogOnlyGrows == [][IsPrefix(ReadWALLog(file), ReadWALLog(file'))]_vars
=============================================================================
