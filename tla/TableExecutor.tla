----------------------------- MODULE TableExecutor -----------------------------
(***************************************************************************)
(* INSERT, DELETE, UPDATE (executor.cpp) and the rollback command          *)
(* (HAOSQL.cpp, rollback.cpp) on one table, which is one page of the data  *)
(* file, together with the write-ahead log they append to.                 *)
(*                                                                         *)
(* Every client has a thread and a buffer pool of its own.  The pools are  *)
(* never told of each other's writes and a page stays cached until the     *)
(* client leaves, so a client works on a private copy of the page and      *)
(* writes that copy over the page on disk.  A statement is cut into steps  *)
(* where it logs, where it writes the page and where it goes on to the     *)
(* next row: between the steps other clients run, and the process may be   *)
(* killed.                                                                 *)
(*                                                                         *)
(* Abstractions: a slot is the record it holds plus whether it is deleted  *)
(* (SlottedPage); a log record is in the file once it is written and the   *)
(* newest record has the highest LSN (WriteAheadLog).  What is in an index *)
(* is left out, but not that to enter a row into one may throw, between    *)
(* the change of the page and its log record.                              *)
(***************************************************************************)
EXTENDS Sublists, SequencesExt

CONSTANTS
    Client,
    Id, Val,         \* the values of the columns "id" and (say) "val"
    PrefixOf,        \* pairs of ids: the text of the first begins the second's
    NoValue,         \* a column a record does not have
    Number,          \* the values that std::stoi reads as a number
    Indexes,         \* the indexes of the table, each the set of its columns
    Kinds,           \* the statements the clients use
    Capacity,        \* records that fit in the page
    MaxStatements,   \* bound: statements executed
    MaxUndo,         \* bound: the n of "rollback n"
    MaxCrashes       \* bound: kills of the process

ASSUME ParameterAssumption ==
    /\ PrefixOf \subseteq Id \X Id
    /\ NoValue \notin Id \cup Val
    /\ Number \subseteq Id \cup Val
    /\ Indexes \subseteq SUBSET {"id", "val"}
    /\ Kinds \subseteq {"insert", "delete", "update", "rollback"}
    /\ {Capacity, MaxStatements, MaxUndo, MaxCrashes} \subseteq Nat

Row == [id : Id \cup {NoValue}, val : Val \cup {NoValue}]
EmptyRow == [id |-> NoValue, val |-> NoValue]

\* A slot of the page.  The status of a deleted record says what deleted it,
\* and from what wrote the record, an INSERT that was reported as failed
\* included; both are history.
SlotState == [row : Row, status : {"live", "deleted", "replaced", "undone"},
              from : {"insert", "failed", "update"}]
PageState == Seq(SlotState)

\* A change as the log has it: the slot, and the record whose length it says.
\* "in" is INSERT_OP or UPDATE_OP_IN, "out" DELETE_OP or UPDATE_OP_DE.
Change == [kind : {"in", "out"}, slot : Nat, row : Row]
Position == [slot : Nat, row : Row]
NoPosition == [slot |-> 1, row |-> EmptyRow]      \* all zeroes: slot 0, length 0

\* WHERE clauses and SET clauses, as the grammar allows them.
Everywhere == [col |-> "none", is |-> NoValue]        \* no WHERE clause
NoAssignment == [col |-> "none", to |-> NoValue]
Condition == {Everywhere} \cup [col : {"id"}, is : Id] \cup [col : {"val"}, is : Val]
Assignment == [col : {"id"}, to : Id] \cup [col : {"val"}, to : Val]

VARIABLES
    disk,         \* the page in the data file
    cache,        \* client -> its pool's copies of the page ({} or one)
    wal,          \* the row changes in the WAL file, a sequence of changes each
    walData,      \* WAL_DATA_RECORD, one global for all clients
    task,         \* client -> the statement in progress
    statements,   \* history: statements begun
    crashes,      \* history: kills so far
    acked,        \* history: INSERTs reported as done
    keyChanged,   \* history: an UPDATE has SET the id column
    before,       \* history: client -> the page as the statement found it
    snapshots,    \* history: the rows before each change logged since the last
                  \* rollback, restart, disconnection or failed statement
    terminated    \* history: an exception has left handle_client and ended the process

vars == <<disk, cache, wal, walData, task, statements, crashes, acked,
          keyChanged, before, snapshots, terminated>>

\* A client between two statements.
Idle == [do |-> "idle", rows |-> <<>>, set |-> NoAssignment, where |-> Everywhere,
         todo |-> <<>>, steps |-> 0]

TypeOK ==
    /\ disk \in PageState
    /\ \A c \in Client : Cardinality(cache[c]) <= 1 /\ \A page \in cache[c] : page \in PageState
    /\ wal \in Seq(Seq(Change))
    /\ walData \in [before : Position, after : Position]
    /\ \A c \in Client : /\ task[c].rows \in Seq(Row)
                         /\ task[c].todo \in Seq(Change)
    /\ snapshots \in Seq(Seq(Row))

NothingLogged == [before |-> NoPosition, after |-> NoPosition]

Init ==
    /\ disk = <<>>
    /\ cache = [c \in Client |-> {}]
    /\ wal = <<>>
    /\ walData = NothingLogged
    /\ task = [c \in Client |-> Idle]
    /\ statements = 0
    /\ crashes = 0
    /\ acked = 0
    /\ keyChanged = FALSE
    /\ before = [c \in Client |-> <<>>]
    /\ snapshots = <<>>
    /\ terminated = FALSE

-----------------------------------------------------------------------------
(* The page *)

IsLive(s) == s.status = "live"

Live(page) == {i \in DOMAIN page : IsLive(page[i])}

\* The rows in some of the slots, in slot order, and the rows of the table.
RowsAt(page, slots) == LET kept == Kept(page, slots) IN [i \in DOMAIN kept |-> kept[i].row]
Rows(page) == RowsAt(page, Live(page))

\* fetchPage
PageOf(c) == IF cache[c] = {} THEN disk ELSE CHOOSE page \in cache[c] : TRUE

\* Whether the search for "id:x" in the text of a record succeeds: also when
\* the record's id only begins with x.
Finds(s, x) == IsLive(s) /\ (s.row.id = x \/ <<x, s.row.id>> \in PrefixOf)

\* The first slot the search finds, 0 if none.
TargetSlot(page, x) ==
    LET found == {i \in 1..Len(page) : Finds(page[i], x)}
    IN  IF found = {} THEN 0 ELSE CHOOSE i \in found : \A j \in found : i <= j

HasRoom(page) == Len(page) < Capacity

NewRecord(row, origin) == [row |-> row, status |-> "live", from |-> origin]

\* Scan::execute: a row per slot, an empty one for a deleted record.
Scanned(page) ==
    [i \in 1..Len(page) |-> IF IsLive(page[i]) THEN page[i].row ELSE EmptyRow]

\* Filter::execute passes over empty rows; without WHERE there is no Filter.
Selected(page, where) ==
    IF where.col = "none"
    THEN Scanned(page)
    ELSE LET rows == Scanned(page)
         IN  Kept(rows, {i \in DOMAIN rows : rows[i] # EmptyRow /\ rows[i][where.col] = where.is})

\* The predicate of a Filter throws on a record without the column.
FilterThrows(page, where) ==
    where.col # "none" /\ \E i \in 1..Len(page) : IsLive(page[i]) /\ page[i].row[where.col] = NoValue

-----------------------------------------------------------------------------

Begin(c, t) ==
    /\ task[c].do = "idle"
    /\ statements < MaxStatements
    /\ statements' = statements + 1
    /\ task' = [task EXCEPT ![c] = t]

Do(c, step) == task' = [task EXCEPT ![c].do = step]
Finish(c) == task' = [task EXCEPT ![c] = Idle]

\* Mutant of NextRow: the break that ends the search ends the loop over the rows.
NoNextRow(c, step, whenDone) == task' = [task EXCEPT ![c].rows = Tail(@), ![c].do = whenDone]

NextRow(c, step, whenDone) ==
    task' = [task EXCEPT ![c].rows = Tail(@), ![c].do = IF Len(task[c].rows) = 1 THEN whenDone ELSE step]

\* Mutant of Cache: a page that is cached is loaded into a second frame.
CacheBeside(c, page) == cache' = [cache EXCEPT ![c] = @ \cup {page}]

Cache(c, page) == cache' = [cache EXCEPT ![c] = {page}]

\* Mutant of WritePage: unpinPage(pageId, false), and flushPage finds it clean.
WriteNothing(c) == UNCHANGED disk

\* unpinPage(pageId, true); flushPage(pageId)
WritePage(c) == disk' = PageOf(c)

\* Mutant of Log: the record does not get beyond the buffer.
LogNothing(c, changes) == UNCHANGED wal

\* InsertRecord, DeleteRecord, UpdateRecord of EnhancedExecutor; the rows the
\* table had before the change are remembered for RollbackRestores.
Log(c, changes) == wal' = Append(wal, changes)
Snapshot(c) == snapshots' = Append(snapshots, Rows(PageOf(c)))
ForgetSnapshots == snapshots' = <<>>

AfterChange == <<[kind |-> "in", slot |-> walData.after.slot, row |-> walData.after.row]>>

\* Mutant of BeforeChange: the slot is taken from the after position.
BeforeChangeAtAfter == <<[kind |-> "out", slot |-> walData.after.slot, row |-> walData.before.row]>>

BeforeChange == <<[kind |-> "out", slot |-> walData.before.slot, row |-> walData.before.row]>>

-----------------------------------------------------------------------------
(* Insert::execute *)

\* The key of a row is made for each index in turn: a missing column throws,
\* and so does what is no number in an index of one column.  (The keys of
\* longer ones are hashes.)
IndexThrows(row) ==
    \E columns \in Indexes : \E col \in columns :
        row[col] = NoValue \/ (columns = {col} /\ row[col] \notin Number)

\* The record is put into the page first, the indexes come second: when one
\* throws, the statement ends and the record stays in the pool's page, to be
\* written with the next change, in no log.
InsertRow(c, row) ==
    /\ "insert" \in Kinds
    /\ LET page == PageOf(c)
       IN  CASE ~HasRoom(page) ->                    \* insertRecord throws
                  /\ Begin(c, Idle)
                  /\ Cache(c, page)
                  /\ UNCHANGED <<walData, snapshots>>
             [] HasRoom(page) /\ IndexThrows(row) ->
                  /\ Begin(c, Idle)
                  /\ Cache(c, Append(page, NewRecord(row, "failed")))
                  /\ ForgetSnapshots
                  /\ UNCHANGED walData
             [] HasRoom(page) /\ ~IndexThrows(row) ->
                  /\ Begin(c, [Idle EXCEPT !.do = "insert_log"])
                  /\ Cache(c, Append(page, NewRecord(row, "insert")))
                  /\ walData' = [walData EXCEPT !.after = [slot |-> Len(page) + 1, row |-> row]]
                  /\ Snapshot(c)
    /\ before' = [before EXCEPT ![c] = PageOf(c)]
    /\ UNCHANGED <<disk, wal, crashes, acked, keyChanged, terminated>>

InsertLog(c) ==
    /\ task[c].do = "insert_log"
    /\ Log(c, AfterChange)
    /\ Do(c, "insert_write")
    /\ UNCHANGED <<disk, cache, walData, statements, crashes, acked, keyChanged, before, snapshots, terminated>>

InsertWrite(c) ==
    /\ task[c].do = "insert_write"
    /\ WritePage(c)
    /\ acked' = acked + 1
    /\ Finish(c)
    /\ UNCHANGED <<cache, wal, walData, statements, crashes, keyChanged, before, snapshots, terminated>>

-----------------------------------------------------------------------------
(* Delete::execute *)

\* The child operator runs; with no rows, or when its predicate throws, the
\* statement is over.
DeleteBegin(c, where) ==
    /\ "delete" \in Kinds
    /\ LET page == PageOf(c)
           rows == Selected(page, where)
       IN  /\ Begin(c, IF rows = <<>> \/ FilterThrows(page, where)
                       THEN Idle
                       ELSE [Idle EXCEPT !.do = "delete_row", !.rows = rows, !.where = where])
           /\ Cache(c, page)
           /\ before' = [before EXCEPT ![c] = page]
    /\ UNCHANGED <<disk, wal, walData, crashes, acked, keyChanged, snapshots, terminated>>

\* One row: find its slot by its id and delete that.  On the empty row of a
\* slot deleted earlier row.at("id") throws and the page is not written.
DeleteRow(c) ==
    /\ task[c].do = "delete_row"
    /\ LET page == PageOf(c)
           row == Head(task[c].rows)
           target == TargetSlot(page, row.id)
       IN  CASE row.id = NoValue ->
                  /\ Finish(c)
                  /\ UNCHANGED <<cache, walData, snapshots>>
             [] row.id # NoValue /\ target = 0 ->
                  /\ NextRow(c, "delete_row", "delete_write")
                  /\ UNCHANGED <<cache, walData, snapshots>>
             [] row.id # NoValue /\ target # 0 ->
                  /\ Cache(c, [page EXCEPT ![target].status = "deleted"])
                  /\ walData' = [walData EXCEPT !.before = [slot |-> target, row |-> page[target].row]]
                  /\ Snapshot(c)
                  /\ Do(c, "delete_log")
    /\ UNCHANGED <<disk, wal, statements, crashes, acked, keyChanged, before, terminated>>

DeleteLog(c) ==
    /\ task[c].do = "delete_log"
    /\ Log(c, BeforeChange)
    /\ NextRow(c, "delete_row", "delete_write")
    /\ UNCHANGED <<disk, cache, walData, statements, crashes, acked, keyChanged, before, snapshots, terminated>>

DeleteWrite(c) ==
    /\ task[c].do = "delete_write"
    /\ WritePage(c)
    /\ Finish(c)
    /\ UNCHANGED <<cache, wal, walData, statements, crashes, acked, keyChanged, before, snapshots, terminated>>

-----------------------------------------------------------------------------
(* Update::execute *)

UpdateBegin(c, set, where) ==
    /\ "update" \in Kinds
    /\ LET page == PageOf(c)
           rows == Selected(page, where)
       IN  /\ Begin(c, IF rows = <<>> \/ FilterThrows(page, where)
                       THEN Idle
                       ELSE [Idle EXCEPT !.do = "update_row", !.rows = rows, !.set = set, !.where = where])
           /\ Cache(c, page)
           /\ before' = [before EXCEPT ![c] = page]
    /\ keyChanged' = (keyChanged \/ set.col = "id")
    /\ UNCHANGED <<disk, wal, walData, crashes, acked, snapshots, terminated>>

\* One row: the new values are put in first, THEN the old record is looked up
\* under the id the row has now, deleted if found, and the new record is
\* added.  A row without an id throws before anything changes; an id that is
\* no number (index or not) and a full page throw after the old record is gone.
UpdateRow(c) ==
    /\ task[c].do = "update_row"
    /\ LET page == PageOf(c)
           set == task[c].set
           row == [Head(task[c].rows) EXCEPT ![set.col] = set.to]
           target == TargetSlot(page, row.id)
           rest == IF target = 0 THEN page ELSE [page EXCEPT ![target].status = "replaced"]
           old == IF target = 0 THEN walData.before ELSE [slot |-> target, row |-> page[target].row]
       IN  IF row.id = NoValue
           THEN Finish(c) /\ UNCHANGED <<cache, walData, snapshots>>
           ELSE IF row.id \notin Number \/ ~HasRoom(page)
           THEN /\ Cache(c, rest)
                /\ walData' = [walData EXCEPT !.before = old]
                /\ ForgetSnapshots
                /\ Finish(c)
           ELSE /\ Cache(c, Append(rest, NewRecord(row, "update")))
                /\ walData' = [before |-> old, after |-> [slot |-> Len(page) + 1, row |-> row]]
                /\ Snapshot(c)
                /\ Do(c, "update_write")
    /\ UNCHANGED <<disk, wal, statements, crashes, acked, keyChanged, before, terminated>>

\* The page is written first, the log second.
UpdateWrite(c) ==
    /\ task[c].do = "update_write"
    /\ WritePage(c)
    /\ Do(c, "update_log")
    /\ UNCHANGED <<cache, wal, walData, statements, crashes, acked, keyChanged, before, snapshots, terminated>>

UpdateLog(c) ==
    /\ task[c].do = "update_log"
    /\ Log(c, BeforeChange \o AfterChange)
    /\ IF Len(task[c].rows) = 1 THEN Finish(c) ELSE NextRow(c, "update_row", "idle")
    /\ UNCHANGED <<disk, cache, walData, statements, crashes, acked, keyChanged, before, snapshots, terminated>>

-----------------------------------------------------------------------------
(* "rollback n": checkRollBack, UndoLastOperation, undos *)

\* Mutant of ToUndo: the changes are undone oldest first.
ToUndoOldestFirst(n) ==
    LET count == IF n < Len(wal) THEN n ELSE Len(wal)
    IN  FlattenSeq(SubSeq(wal, Len(wal) - count + 1, Len(wal)))

\* UndoLastOperation: the changes of the newest n log records, newest first,
\* those of one record in reverse.
ToUndo(n) ==
    LET newest(k) == wal[Len(wal) - k + 1]
        count == IF n < Len(wal) THEN n ELSE Len(wal)
    IN  FlattenSeq([k \in 1..count |-> Reverse(newest(k))])

\* The log is read, and the client is asked whether to go on.
RollbackAsk(c, n) ==
    /\ "rollback" \in Kinds
    /\ Begin(c, [Idle EXCEPT !.do = "confirm", !.todo = ToUndo(n), !.steps = n])
    /\ UNCHANGED <<disk, cache, wal, walData, crashes, acked, keyChanged, before, snapshots, terminated>>

RollbackConfirm(c) ==
    /\ task[c].do = "confirm"
    /\ \E yes \in BOOLEAN :
          IF yes /\ task[c].todo # <<>> THEN Do(c, "undo") ELSE Finish(c)
    /\ UNCHANGED <<disk, cache, wal, walData, statements, crashes, acked, keyChanged, before, snapshots, terminated>>

\* undo on one slot: an inserted record is deleted, a deleted one gets the
\* length the log names, which revives it unless that is 0.
Undone(page, ch) ==
    [page EXCEPT ![ch.slot].status =
        IF ch.kind = "out" /\ ch.row # EmptyRow THEN "live" ELSE "undone"]

\* One change is undone and the page written.  The log is left as it is.
UndoOne(c) ==
    /\ task[c].do = "undo"
    /\ LET ch == Head(task[c].todo)
       IN  /\ ch.slot <= Len(PageOf(c))
           /\ Cache(c, Undone(PageOf(c), ch))
           /\ disk' = Undone(PageOf(c), ch)
    /\ IF Len(task[c].todo) = 1
       THEN Finish(c) /\ ForgetSnapshots
       ELSE task' = [task EXCEPT ![c].todo = Tail(@)] /\ UNCHANGED snapshots
    /\ UNCHANGED <<wal, walData, statements, crashes, acked, keyChanged, before, terminated>>

\* getSlot throws on a slot the page does not have.  checkRollBack runs
\* outside every try block of handle_client: the thread dies, and with it
\* the process.
UndoThrows(c) ==
    /\ task[c].do = "undo"
    /\ Head(task[c].todo).slot > Len(PageOf(c))
    /\ terminated' = TRUE
    /\ task' = [d \in Client |-> [Idle EXCEPT !.do = "killed"]]
    /\ UNCHANGED <<disk, cache, wal, walData, statements, crashes, acked, keyChanged, before, snapshots>>

-----------------------------------------------------------------------------

\* The client leaves and comes back: a new buffer pool.  The old one is
\* dropped with whatever was not written.
Reconnect(c) ==
    /\ task[c].do = "idle"
    /\ cache[c] # {}
    /\ cache' = [cache EXCEPT ![c] = {}]
    /\ ForgetSnapshots
    /\ UNCHANGED <<disk, wal, walData, task, statements, crashes, acked, keyChanged, before, terminated>>

\* The process is killed, or has ended itself, and is started again.  There
\* is no recovery pass.
CrashAndRestart ==
    /\ crashes < MaxCrashes
    /\ crashes' = crashes + 1
    /\ cache' = [c \in Client |-> {}]
    /\ task' = [c \in Client |-> Idle]
    /\ walData' = NothingLogged
    /\ before' = [c \in Client |-> <<>>]
    /\ ForgetSnapshots
    /\ UNCHANGED <<disk, wal, statements, acked, keyChanged, terminated>>

Next ==
    \/ \E c \in Client :
        \/ \E row \in Row \ {EmptyRow} : InsertRow(c, row)
        \/ InsertLog(c)
        \/ InsertWrite(c)
        \/ \E where \in Condition : DeleteBegin(c, where)
        \/ DeleteRow(c)
        \/ DeleteLog(c)
        \/ DeleteWrite(c)
        \/ \E set \in Assignment, where \in Condition : UpdateBegin(c, set, where)
        \/ UpdateRow(c)
        \/ UpdateWrite(c)
        \/ UpdateLog(c)
        \/ \E n \in 1..MaxUndo : RollbackAsk(c, n)
        \/ RollbackConfirm(c)
        \/ UndoOne(c)
        \/ UndoThrows(c)
        \/ Reconnect(c)
    \/ CrashAndRestart

Spec == Init /\ [][Next]_vars

-----------------------------------------------------------------------------
(***************************************************************************)
(* Properties.                                                             *)
(***************************************************************************)

LoggedChanges == UNION {ToSet(wal[k]) : k \in DOMAIN wal}

\* "rollback n" straight after n row changes gives back the table as it was
\* before them, whatever mix of INSERT, DELETE and UPDATE they were, rows in
\* their old places (UndoLastOperation and undo against the executor's
\* logging).  An UPDATE that sets the key is excluded: it logs the deletion
\* of a record it has not deleted.
RollbackRestores ==
    [][\A c \in Client :
          UndoOne(c) /\ Len(task[c].todo) = 1 /\ task[c].steps <= Len(snapshots) /\ ~keyChanged
          => Rows(PageOf(c)') = snapshots[Len(snapshots) - task[c].steps + 1]]_vars

\* No two records can be taken for one another by the search for an id.
Unambiguous(page) ==
    \A i, j \in 1..Len(page) : i # j /\ IsLive(page[i]) => ~Finds(page[j], page[i].row.id)

Matches(row, where) == where.col = "none" \/ row[where.col] = where.is

\* A DELETE or UPDATE that runs to its end changes the rows its WHERE clause
\* selects, all of them and nothing else, provided ids identify the rows of
\* the table: the second search, by id, finds what the scan has found.
ChangesWhatItSelects ==
    [][\A c \in Client :
          LET page == before[c]
              chosen == {i \in Live(page) : Matches(page[i].row, task[c].where)}
              kept == RowsAt(page, Live(page) \ chosen)
              rows == RowsAt(page, chosen)
              set == task[c].set
          IN  Unambiguous(page) =>
                /\ DeleteWrite(c) => Rows(PageOf(c)') = kept
                /\ UpdateLog(c) /\ Len(task[c].rows) = 1 /\ set.col # "id" =>
                     Rows(PageOf(c)') =
                         kept \o [i \in 1..Len(rows) |-> [rows[i] EXCEPT ![set.col] = set.to]]]_vars

\* Write-ahead logging of INSERT and DELETE: the data file never shows an
\* inserted record, or a record deleted by DELETE, that the log does not
\* name, at any point where the process may be killed.  Of the records of
\* INSERTs that failed at an index this is not claimed, for it is not so.
InsertsAndDeletesAreLoggedAhead ==
    \A i \in 1..Len(disk) :
        /\ disk[i].from = "insert" => [kind |-> "in", slot |-> i, row |-> disk[i].row] \in LoggedChanges
        /\ disk[i].status = "deleted" => [kind |-> "out", slot |-> i, row |-> disk[i].row] \in LoggedChanges

\* The record a logged deletion speaks of is the one its slot holds, also
\* when a kill has lost a page write and slots were used anew: the length
\* undo writes into the slot is the length of the bytes there.  Excluded are
\* deletions of rows an index throws at: what a failed INSERT has left in the
\* page can be deleted, and the deletion logged, before it is ever written.
UndoRevivesTheLoggedRecord ==
    keyChanged \/
        \A ch \in LoggedChanges :
            ch.kind = "out" /\ ch.slot <= Len(disk) /\ ~IndexThrows(ch.row) =>
                disk[ch.slot].row = ch.row

\* Every INSERT that was reported as done has a slot of its own in the data
\* file, deleted since or not: nobody's page write takes it away ("together
\* with the mutex, safe access": README.md on multithreading).
AckedInsertsAreOnDisk ==
    acked <= Cardinality({i \in 1..Len(disk) : disk[i].from = "insert"})

\* "does not interrupt the main loop" (HAOSQL.cpp:238): no statement takes
\* the server down.
ServerSurvives == ~terminated
=============================================================================
