# HAODB in TLA+

TLA+ models of HAODB, a small relational database server in C++
(`src/HAOSQL/`): what its components do, what makes them correct, which of it
TLC checks on small instances and which of it TLAPS proves for every value of
the constants. All paths below are relative to `src/HAOSQL/` unless they begin
with `src/`.

Contents: 1 the system · 2 the models · 3 the runs · 4 bounds · 5 fairness ·
6 proofs · 7 where code and words disagree · 8 what is not modelled · 9 plan.

## 1. The system

`HAOSQL.cpp` accepts connections and gives each client a detached thread
(`handle_client`). The thread logs the client in, loads the catalog into a
`CatalogManager` **of its own**, opens a `DiskManager` and a 10-frame
`BufferPoolManager` **of its own** over the data file of the system database,
and then runs one statement at a time: lexer, parser, semantic analysis,
quadruples, `buildPlan`, a tree of operators, a formatted answer. Shared by all
threads are the files on disk, the global logger with its LSN counter, the
globals `DBName`, `USER_NAME`, `WAL_DATA_RECORD` and the index manager. No lock
protects any of the shared globals except the WAL buffer; the lock manager
exists as a class and is not called.

| Component | State | Operations | Hard behaviour | Correct when |
|---|---|---|---|---|
| Lock manager (`LockManager.*`) | lock table: holders and waiting queue per object; sleeping threads | acquire shared / exclusive, release all | one condition variable for all objects, barging, upgrades, spurious wakeups | holders never conflict, locks are not stolen, waiters wait for a reason |
| Buffer pool (`buffer_pool.*`) | frames, page table, LRU list, pin counts, dirty flags | fetch, unpin, flush, LRU access / push / victim | eviction under pins, all frames pinned, dirty victims | table, frames and LRU agree; pins protect; no write lost |
| Data page, disk manager (`page.*`) | header, slot directory, data area; the data file | insert, read, delete, undelete, compact; read / write page | two regions growing towards each other, moves that overlap, undo of deletions | a page is a store of numbered records |
| Write-ahead log (`logger.*`, `logger_integration.*`) | WAL buffer, WAL file, `LAST_LSN` | initialize, begin, log, flush, commit, read back, find max LSN | unprotected LSN, full buffer, two threads in one buffer, kill in a flush, restart | a committed change is read back once, in order, for ever |
| Row operators (`executor.*`) | the client's cached page, the page on disk, `WAL_DATA_RECORD` | Scan, Filter, Insert, Delete, Update, … | page and log written at different times, row slots found by text search, exceptions half-way, other clients' writes | a statement changes the rows it selects, logged ahead |
| Rollback (`rollback.*`, `checkRollBack`, `UndoLastOperation`) | the log read when asked | rollback n, confirm, undo one change | undo after a kill, repeated undo, exceptions outside the try block | rollback n restores the table before n changes |
| B+ tree (`B+tree.*`) over paged files (`file_manager.*`) | node pages, root | insert, remove, search, range, create / destroy | splits, borrowing, merging, root moves, one mutex per short-lived object | an ordered multimap |
| Index manager (`index_manager.*`) | catalog entries, root pages | create, drop, insert / delete entry | root changes of two clients, a recursive lock | index and table agree |
| Catalog (`catalog_manager.*`, `database_*`, `system_config_*`, `metadata_structures.*`) | databases, tables, columns, indexes, in per-client copies and whole files | create / drop / alter, save, load, shutdown | two sessions saving whole files, DDL half done, ids after drops, two globals all sessions share | ids unique, references valid, storage disjoint, no DDL of serial sessions lost |
| Plan builder (`executor.cpp` `buildPlan`, `dbname_setter.cpp`) | operator tree, conditions | quadruples → plan | which conditions an index scan drops, what a missing temporary stands for | the plan computes the statement |
| SQL front end (`lexer.*`, `parser.*`, `semantic.*`) | token list, grammar, FIRST / FOLLOW sets, LL(1) table, parse stack | tokenize, LL(1) parse, emit quadruples, ask for a correction | fixpoints, left recursion, a fixed buffer, positions the analyzer never looks at | the parser decides its grammar and returns; quadruples mean what the statement says |
| Login (`login.*`) | `users.dat` | register, login | check-then-insert | one account per name |
| Server loop (`HAOSQL.cpp`) | one thread per client | dispatch, answer | an exception outside the try block | one client's failure is its own |
| AI hints, formatting, banner, test programs | – | – | – | – |

The hazards of this code, each at the line where it bites, with the properties
that would notice it, are listed in `PROJECT.json`.

## 2. The models

Each action is one stretch of code nothing can interleave with: a whole method
where one thread owns the object, the code between two releases of a mutex or
two accesses to an unprotected global where threads share it.

**`LockManager`** – `lockTable` is `lock_table` (an entry per object with
`shared_txns`, `exclusive_txn`, `waiting_queue`), `asleep` the threads inside
`cv.wait` and what they wait for, `signalled` those a `notify_all` has made
runnable. An acquire is `AcquireAtOnce` or `AcquireBlocks` (queue the request,
sleep) followed by `WakeAndAcquire` or `WakeInVain`; wakeups may be spurious.
`ReleaseLocks` is the whole of `releaseLocks`: it walks *every* entry, drops
the transaction's locks and pops the longest grantable prefix of each queue
(`PoppedCount`). `LockManagerProofs` holds its theorems.

**`BufferPool`** – `frames`, `pageTable`, `lru` and `disk` are the members of
`BufferPoolManager`, `LRUReplacer` and `DiskManager`. `fetchPage` is `FetchHit`,
`FetchMiss` or `FetchFails`; `UnpinPage` and `FlushPage` are the other methods;
`CallerWrites` is a caller writing through the pointer it was given. Callers
keep the executor's discipline: unpin what you pinned, `is_dirty` when you
wrote. Contents are (page, number of the write), so a misdirected write is
visible. The victim search takes pinned pages off the LRU list for good, as the
code does; `crashed` records an `erase` of a singular iterator.
`BufferPoolProofs` holds its theorems.

**`SlottedPage`** refines **`RecordStore`** – `freeOffset`, `slots` and `bytes`
are the page header, the slot directory and the data area. Insertion copies
bytes, deletion sets a length to 0, undelete sets it back to the logged length
(the same assignment `undo()` makes), `Compact` moves records down one after
another, as `memmove` does. `RecordStore` is the promise: slots read back as
what was put there, or as empty. `Spec` is what the server does to pages;
`CompactingSpec` adds `compact`, which the class offers and nobody calls.
`SlottedPageProofs` holds the theorems, about `CompactingSpec`.

**`WriteAheadLog`** – `buffer`, `file` and `lastLsn` are `WALBuffer`, the WAL
file and `LAST_LSN`. A client thread moves through `stage`: the operator's
constructor (`InitializeReads`, `InitializeSets`), the two accesses to
`LAST_LSN` (`TakeLsn`, `SetLsn`), the critical sections of `WriteRecord`,
`FlushToFile`, the retry after a full buffer whose result nobody looks at
(`WriteAgain`), and the flush of the commit. `CrashAndRestart` kills the
process between any two actions; a kill during a flush leaves a prefix of the
buffer, its last record possibly torn (`FlushRemains`), and `ReadWALLog` stops
at a torn record. `WriteAheadLogProofs` holds its theorems.

**`TableExecutor`** – one table on one page. `disk` is the page in the file,
`cache[c]` the copy in client c's pool (empty or one page), `wal` the changes
the log can read back (a record per row change; this is the promise
`WriteAheadLog` checks), `walData` the global `WAL_DATA_RECORD`, `task[c]`
where the client's statement stands. `Insert`, `Delete` and `Update` are split
at the log write and the page write, between which the process may be killed:
`InsertRow; InsertLog; InsertWrite`, `DeleteBegin; (DeleteRow; DeleteLog)*;
DeleteWrite`, `UpdateBegin; (UpdateRow; UpdateWrite; UpdateLog)*`. A slot is
found as in the code, by a text search for the row's id (`Finds`, where id 1 is
a prefix of id 10), and exceptions end a statement where they are thrown:
`InsertRow` when an index cannot make its key of the new row (`IndexThrows`),
which is *after* the record has been put into the pool's page and before it is
logged, `UpdateRow` when the new id is no number or the page is full, after the
old record is gone, `DeleteRow` at a row without an id. The slot a failed INSERT
leaves is marked `from = "failed"`, which is history.
`RollbackAsk` reads the log, `RollbackConfirm` is the Y/N answer, `UndoOne`
undoes one change and writes the page, `UndoThrows` is the exception of
`getSlot` that no try block catches. `Reconnect` drops the pool, and
`CrashAndRestart` everything in memory. `TableExecutorProofs` holds its theorems.

**`BPlusTree`** refines **`OrderedMultimap`** – `pages` is the index file that
all indexes of a database share, `roots` the `root_page_id` of each index in the
catalog, `op[c]` client c's call of `InsertEntry` or `DeleteEntry`: its stack
frames (`path`, the nodes as they were read), the pages it has yet to write
(`writes`), its own `root_pid`. `insertRecursive` is `Descend` to the leaf, then
`InsertIntoLeaf` and, after a split, `InsertIntoParent` or `GrowRoot`;
`deleteEntry` is `Descend`, `RemoveFromLeaf`, then `Separate`, `Underflow` or
neither, `Unwind` on the way up and `ShrinkRoot`. Every page is written in an
action of its own (`WritePage`), so two clients' calls interleave as their file
accesses do. `Search` and `SearchRange` are operators: what a reader would
collect now. The promise holds whenever no call is in progress (`Quiet`).
`FairSpec` adds that a call that has begun goes on (section 5). `BPlusTreeProofs`
holds the theorems.

**`Metadata`** and **`Catalog`** – `Metadata` is one database's metadata as a
value (tables with their columns, offsets and marks, indexes, one counter for
the statistics) and the methods that change it in memory; a new table gets the
columns that fit into its fixed array (`CopiedColumns`). `Catalog` has the
three kinds of files (`registryFile`, `metaFile`, `configFile`), each session's
`CatalogManager` (`view`), the two globals `dbName` and `indexOwner` (whose
`CatalogManager` the global `indexManager` points to) and, for each client, the
`calls` its statement has yet to make. A statement (`CreateTableStatement`,
`UseDatabase`, …) puts its calls there in the order in which the DDL operators
make them; `CallCreateTable`, `CallCreateIndex`, … make one. A save is two
calls, `Open`, which cuts the file to nothing, and `Write`. `Connect`, `Login`,
`Leave` and `Left` are a connection's life, `Shutdown`'s saves of everything
included; `LostSave` is a save of a catalog whose session has ended. `Kill` ends
the process between any two calls. `CatalogProofs` holds the theorems.

**`Sublists`** has the one operator that loops like those of `Filter` and
`ListIndexes` become: `Kept(s, P)`, the elements of a vector at the places that
pass a test. **`FiniteFacts`** proves what the theorems need about it, and about
greatest and least elements of sets of numbers.

**`SqlStatements`**, **`SemanticAnalyzer`**, **`PlanBuilder`** and
**`SqlCompiler`** – the way of a statement. `SqlStatements` says what statements
are, how they are written as tokens, and what they mean: `Answer`, `Updates` and
`Deletes` are the reference the code is compared with. `SemanticAnalyzer` is
`SemanticAnalyzer` of `semantic.cpp`: for each `handle...` method the demands it
makes of the tokens, in its order, and the quadruples it emits. `PlanBuilder`
is `buildPlan`, one operator per branch, over the variables of that function
(`build`), and what the resulting tree answers, and leaves, of a `table`: the
slots of its page and, for each key, the slots its index names. `AfterInsert`,
`AfterUpdate` and `AfterDelete` are what one row of an Insert, Update or Delete
does to both: an Update enters the new row's id at the *first* slot of the page,
wherever the row is, and a Delete cleans no index, for its table name is empty.
An index scan answers what is in the slots the index names. `SqlCompiler` ties
them together as the server does: `Receive` one statement after another, compile
it, perhaps ask the AI client for another one (external: it may answer
anything), plan one quadruple per step, execute, or meet a null root. `table`
is what lasts from one statement to the next; `found` (history) is the table as
the statement found it.

**`SqlParser`** – `start_parser`, run once per statement: `Load` reads the
statement's terminals and the grammar file (through the 256-byte buffer of
`read_grammar`: `NamesRead`), `EliminateOne` rewrites one left-recursive
nonterminal, `FirstPass` and `FollowPass` are rounds of `prediction`,
`BuildTable` is `prediction_table`, and `Match`, `Expand`, `Reject` and
`LeaveLoop` are the stack machine. `MCSqlParser` gives it `sql_grammar.txt` and
the expression grammar of `test.txt`. Its reference is `IsSentence`: whether the
grammar *file* derives the statement, computed as spans without FIRST, FOLLOW
or a stack.

How the modules fit: `TableExecutor` stands on `SlottedPage` (slots with a
status instead of bytes: what `RecordStore` promises), on `BufferPool` (a
cached page stays what it is until it is written) and on `WriteAheadLog` (a
logged change is read back once, newest last). `SqlCompiler` ends where
`TableExecutor` and `Catalog` begin: it says which rows a statement is about, and
which DDL operator gets which columns and constraints; `TableExecutor` says how
rows are written, logged and undone, and `Catalog` how a DDL operator's calls
reach the files. `Catalog` hands each index a root page, and `BPlusTree` is the
tree under it. `SqlParser` is beside them, as in the code: it prints a verdict
and the statement is compiled whatever it says (`HAOSQL.cpp:668`). Each module takes
the promises of the others, not the modules, so that each can be checked with
bounds of its own.

Variables called *history* in the modules are not in the code; they record what
a property needs. Definitions called mutants are wrong on purpose: each is a
plausible slip in the definition after it, and shows that the property it is
listed with would notice.

## 3. The runs

Runs that pass:

| Run | Properties | What they say of the code |
|---|---|---|
| `lock_manager` | `Exclusion` | no conflicting holders, through upgrades, re-entry and barging |
| | `FirstInLineIsExcluded` | who sleeps first in line waits for a lock that somebody else holds |
| | `NoLockStolen` | a lock goes away only by its owner's release |
| `buffer_pool` | `PageTableMatchesFrames` | page table and frame ids agree both ways |
| | `UnpinnedIsEvictable` | every unpinned cached page is on the LRU list, once |
| | `NoWriteLost` | until an eviction writes back, every write is in the pool or on disk |
| | `PinnedPageStays` | a pinned page keeps its frame and its bytes |
| `slotted_page` | `LayoutOK` | records and directory never share a byte |
| | `RefinesRecordStore` | the page implements the record store, `compact` included |
| `write_ahead_log` | `CommittedIsLogged` | a committed change can be read back, once (unless a torn record hides it), and no change is logged twice |
| | `NewestFirst` | LSNs order the changes while clients do not overlap, across restarts |
| | `ReadableLogOnlyGrows` | what a rollback could read, it can read for ever |
| `table_executor` | `InsertsAndDeletesAreLoggedAhead` | no inserted or deleted record reaches the disk unlogged, those of failed INSERTs apart |
| | `UndoRevivesTheLoggedRecord` | a logged deletion, of a row the indexes take, speaks of the record in that slot |
| | `AckedInsertsAreOnDisk` | one client: an acknowledged INSERT stays on disk |
| | `RollbackRestores` | `rollback n` straight after n changes restores the rows, in place |
| | `ChangesWhatItSelects` | a finished DELETE or UPDATE changes exactly the selected rows |
| `b_plus_tree` | `RefinesMultimap` | completed calls enter or delete exactly their own entry |
| | `RangeIsSearches` | the leaf chain and the tree above it hold the same entries |
| | `Balanced` | leaves equally deep, nodes filled, no keyless root |
| | `EveryCallReturns` | a call never goes round in circles, down the tree or up |
| `catalog` | `IdsAreUnique` | no two tables, indexes or databases of one catalog share an id, on stale and truncated files too |
| | `IndexesHaveTheirTable` | no index outlives its table or passes to another |
| | `StorageIsDisjoint` | columns of a table never overlap; tables share no page before the first DROP TABLE |
| | `IndexesListTheirColumns` | an index stays on the columns it was made on, until a column is dropped |
| | `SerialSessionsLoseNothing` | sessions one after another, ended or killed, find everything the earlier ones did |
| `sql_compiler` | `AnswersAreRight` | a SELECT answers with the rows its condition holds of, each once, after whatever statements; an error only for what the front end does not take |
| | `ChangesAreRight` | UPDATE and DELETE change the rows their condition holds of, and leave all others in their slots |
| | `ConstraintsReachTheTable` | all columns and constraints of a CREATE TABLE arrive at the operator |
| `sql_parser` | `AcceptsTheSentences` | the parser accepts what the grammar file derives and nothing else |
| | `ParsingEnds` | `start_parser` returns for every statement |

Each module's `TypeOK` is checked in its run as well. Runs that find a
violation (`pool_write_back`, `rollback_kills_server`, `two_clients`) each check
one sentence of the repository's own words; section 7 has the results.

Seven properties are stated with exclusions, each a definition with a name and
a comment; what the code does in those cases is in the model and is told in
section 7. `InsertsAndDeletesAreLoggedAhead` leaves out the records of INSERTs
that failed at an index, `UndoRevivesTheLoggedRecord` deletions of rows at which
an index throws: a step of the model reaches both, and the properties fail
without these conditions. `AnswersAreRight` and `ChangesAreRight` leave out the
statements of `GoesWrong`, `AcceptsTheSentences` those of `Starved`, and
`SerialSessionsLoseNothing` and, as to the pages of tables, `StorageIsDisjoint`
speak of `serial` sessions only.

Deadlock checking is off in all runs because every model may stop: the bounded
counters run out, lock waiters can wait for each other (the class has no
deadlock detection), a crashed pool stays crashed, and a statement that has been
parsed or executed is done.

## 4. Bounds

| Run | Bound | Why it is enough |
|---|---|---|
| `lock_manager` | 3 transactions, 2 objects | a holder, a head and someone behind it, or a barging third; a release on one object that walks the other |
| `buffer_pool` | 3 pages, 2 frames, 2 pins, 1 write | eviction with a choice, all frames pinned, two callers on a page, a dirty victim |
| `slotted_page` | 11 bytes: header 2, slots 2, records of 1–2 of two byte values | up to three records, holes at the front, in the middle and at the end, a record larger than the hole it moves into, an exactly full page |
| `write_ahead_log` | 2 clients, 3 operations, a buffer of 3 records, 1 kill | the third record waits for room; a flush of another client's record; torn tail and what comes after it |
| `table_executor` | 1 client, ids 1, 2, 10, of which 10 stands for one too long for an `int`, 2 values, an index on id, 4 slots, 4 statements, rollback of up to 3, 1 kill | a full page, an ambiguous id, rows with no key or a bad one and what happens to the records they leave, rollbacks across INSERT, DELETE and UPDATE, a kill at every step and the statements after it: 1.4 million states |
| `b_plus_tree` | 1 client, keys 1–6 and a second record under key 2, degree 3, insertions up to 8 pages, 2 removals | five leaves under two internal nodes under a root: every split and merge on both levels and every loan but one, and a root that grows twice and shrinks. The one left out, an inner node borrowing from its left neighbour, needs a third removal: `MaxRemovals = 3` reaches it and passes too, with a state space too large for a routine run; the index manager passes degree 4, where three levels take ten keys and the arithmetic of the halves is the same |
| `catalog` | 2 clients, 2 databases, 2 tables, 2 columns (of widths 4 and 8), 2 forms of CREATE TABLE, 2 connections, 3 statements (2 once sessions overlap), 1 kill | create, drop and create again; a column dropped and added; two sessions that save over each other at every step of a save; a kill with a file cut to nothing, and what the next session makes of it |
| `sql_compiler` | one table of two columns, one indexed; 770 statements: one and two comparisons of every kind, three plain ones, brackets, negative numbers, texts, one and two assignments, DDL with every mix of constraints; six sessions before them (`Session`): nothing, three INSERTs, with a DELETE or two UPDATEs after them, an UPDATE that enters its id at a slot it empties, an INSERT that fails among others; 1 correction | every branch of the analyzer and of `buildPlan`, every pair of conditions around AND and OR; an index that is right, has a deleted slot, names a wrong row, a row twice, and none |
| `sql_parser` | the shipped grammar with seven statements and everything one slip away from them (a word left out, doubled, exchanged with the next); the expression grammar with every string of up to four tokens; a stack of 24 | every production, every error position; two left-recursive nonterminals; the stack never needs more than 24 |

`MaxPins`, `MaxWrites`, `MaxOperations`, `MaxCrashes`, `MaxStatements`,
`MaxUndo`, `MaxPages`, `MaxRemovals`, `MaxLength`, `MaxOverlapping`,
`MaxSessions`, `MaxKills`, `MaxCorrections` and `Session` exist for TLC alone. `PoolSize`,
`BufferCapacity`, `PageSize`, `HeaderSize`, `SlotSize`, `Capacity`, `Degree`,
`MaxColumns` and `MaxAmount` are the code's own limits made small; `BufferSize` is
the code's own 256. Symmetry is used for transactions, objects, clients, tables
and values, none of which any module compares other than for equality; not in
`b_plus_tree` and `sql_parser`, where liveness is checked.

## 5. Fairness

Fairness is assumed in two places, and in both it is only that a thread which
has something to do goes on.

- `BPlusTree!Fairness` is weak fairness of `Continues(c)` for each client: a call
  runs in the thread of its client, takes a mutex nobody else can know (its
  object is made for the call), and reads and writes a local file. Nothing is
  assumed about clients making calls.
- `SqlParser!Spec` has weak fairness of `Next`: the parser waits for nothing. Its
  actions are stretches of one function, and which is next is determined.

Nothing else is promised by the server. Client threads block in `recv` for as
long as the client likes, the lock manager can lose a waiter (section 7) and
has no deadlock detection, and the background flusher does nothing under the
default synchronous mode. The properties about waiting (`FirstInLineIsExcluded`,
`UnpinnedIsEvictable`) are the safety part of "nobody waits for nothing".

## 6. Proofs

`LockManagerProofs`, for every set of transactions and objects: `TypeCorrect`,
`MutualExclusion`, `HeadsAreExcluded`, `FirstInLine`, `LocksAreNotStolen`, all
from `IInvHolds`. The one assumption is `NoTxAssumption`: the mark "nobody"
(-1 in the code) is no transaction. The inductive invariant is `TypeOK`,
`Exclusion`, `HeadIsExcluded` and `SleeperNotExclusive`. `FirstInLineIsExcluded`
is not inductive by itself; it follows from `HeadIsExcluded` (some lock excludes
the request at the head) and `SleeperNotExclusive` (that lock is not the
sleeper's own exclusive one: it would not have blocked, and it acquires nothing
while it sleeps). `LocksAreNotStolen` needs only the types and the guard of each grant.
The proofs lean on two lemmas about `PoppedCount`: it is a length,
and the request after the popped prefix cannot be granted.

`BufferPoolProofs`, for every number of pages, frames, pins and writes
(`SizesAssumption`): `TypeCorrect`, `TableAgrees`, `UnpinnedCanLeave`,
`WritesAreKept` and `PinsProtect`, all from `IInvHolds`. The properties hold
each other up. `UnpinnedIsEvictable` needs the page table to be injective, for
otherwise the LRU list could be longer than the pool and drop a page;
`NoWriteLost` needs to know that a victim is not in the middle of a write. Two
parts are added for that: `PinsAreHeld`, the pool's pin counts are the pins the
callers hold, and `WritersHold`, who has written and not yet unpinned holds a pin.

`SlottedPageProofs`, for every page size, header size, slot size, set of bytes
and record length allowed by `SizesAssumption`: `IInvHolds`, `TypeCorrect`,
`LayoutIsKept` and `ImplementsRecordStore`, of `CompactingSpec`, and so of the
server's `Spec`, whose steps are among its steps. The invariant adds `BytesKept`
to the layout: the area of each slot that no compaction has reclaimed still
holds the bytes the slot was created with, *whether or not the slot is deleted*.
Without it an undelete could not be shown to bring the record back; with it and
`LayoutOK` an insertion provably writes where no slot has bytes. `Compact` is
a loop over the slots, in the model a recursive function. `CompactedIsPacked`
shows `Packed(c, i)` of the page `c` after slot `i`: the directory, the room, the
records and their bytes so far; above all, the place the next record goes to is
never beyond a record still to move, so no copy overwrites one. The refinement
maps `insertRecord`, `deleteRecord` and `undeleteRecord` to `Put`, `Remove` and
`Restore`, and `compact` to a step that changes nothing.

`WriteAheadLogProofs`, for any number of clients, operations and kills. The
proofs look at `All`, the file with the buffer behind it, which a flush leaves as
it is: `All` grows when a record is written to the buffer and shrinks only in a
kill. `IInvHolds` says that operations in progress have different numbers and
that the log has no operation twice and none its thread has still to write;
from it follow `TypeCorrect` and `LoggedAtMostOnce`, and with it
`LogOnlyGrows`. `LsnsFollowChanges` (`NewestFirst`) adds `SerialInv`: as long as
no two threads have been in the logger together, `LAST_LSN` is not below any
logged LSN when a change is numbered, although each `Initialize` resets it from
the file. `CommittedStaysLogged` has a hypothesis, `RoomForAll`: the buffer holds
two records of every client but one, and one more. It says what `CommittedIsLogged`
rests on: with less room the buffer can still be full at the second
`WriteRecord`, whose result nobody looks at, and a record is dropped in
silence. The code's buffer is eight megabytes, far more than that for any number
of clients it can serve; the run's (three records, two clients) is exactly large
enough.

`CatalogProofs`, for every set of clients, databases, tables and columns and any
number of statements, sessions and kills; the assumptions are those of `Catalog`
and `Metadata` about their constants, among them that no database is named like
the registry's or the configuration's file. There are two groups.

- `IdsStayUnique`, `IndexesKeepTheirTable`, `IndexesListColumns`, `TypeCorrect`
  and half of `StorageStaysDisjoint` (the columns of a table) follow from
  `IInvHolds`. A copy of the metadata may be stale, or made from a file that was
  cut to nothing; they hold all the same, because each copy is good by itself
  (`Good`), and copies are only ever copied, replaced by the empty metadata, or
  changed by one method. So there is one lemma per method about one metadata
  (`CreateTableIsGood`, `DropTableIsGood`, …), and `IInv` says that all copies, in
  views and in files, are good. It also has the types of `calls`, `indexOwner`
  and `dbName`, for what a call carries ends up in a copy.
- `SerialSessionsAreSafe` and the other half of `StorageStaysDisjoint` (the pages
  of tables) are about the order of saves, and follow from `SerialInvHolds`.
  While sessions have been `serial`, at most one is there (`OneSession`); its copies
  are what the calls so far have made of the catalog (`ViewAgrees`); a file that
  differs from that has a write of it pending among the calls the statement has
  yet to make, or differs in the statistics, which are saved when the session
  leaves (`FilesAgree`, `CallsFit`); and until the first drop tables are on as many
  pages as there are tables, so that the next page, which a CREATE TABLE under way
  has chosen, is a new one (`AllPacked`, `PagePlanned`).

`TableExecutorProofs`. `TypesHold`, `TypeCorrect` and
`StatementsChangeWhatTheySelect` are for any number of clients. `IInvHolds`,
`ChangesAreLoggedAhead`, `UndoFindsItsRecord`, `AckedInsertsStay` and
`RollbackGivesBack` are for one client, any table and any number of statements,
rollbacks, reconnections and kills: they `ASSUME OneClient`, because with two
clients they are false (run `two_clients`), each client having a copy of the page
and all of them sharing `WAL_DATA_RECORD`. The invariant relates three things:
the client's page has the slots of the file, with the same records; behind them
are what failed INSERTs have left since the last page write and, between the step
that adds a record and the one that writes the page, that record (`PageFits`); what
the page shows is in the log, but for the change to be logged next and what failed
INSERTs have left (`PageLogged`); `WAL_DATA_RECORD` describes that change rightly
even when an UPDATE left it from an earlier row (`BeforeKnown`); and every logged
deletion of a row the indexes take names a slot that the file has, with that record
(`DeletionsAreThere`). The last is more than `UndoRevivesTheLoggedRecord` says: a
deletion logged for a slot *beyond* the end of the file would satisfy that
property, until the next INSERT puts another record there. With a left-over record
just that can happen: it is deleted in the pool, the deletion is logged, the process
is killed before the page is written. So `IsThere` says nothing of rows at which an
index throws. With an index on the id these come from failed INSERTs alone, for an
UPDATE adds no record before it has read a number from its id.

`StatementsChangeWhatTheySelect` (`ChangesWhatItSelects`) rests on another
invariant, `SelectInv`: a DELETE or UPDATE in progress is `Midway`. The scan and
the filter have enumerated the slots of the page as the statement found it in
their order; the records of the first k are gone and all others are as they were,
an UPDATE has put k records behind the page, the rows still to come are those from
the k+1st on. If the ids identify the rows of that page, then what the second
search finds under the id of the next row is that row's own slot (`NextPlace`): no
other record of the page has an id that begins with it, and of the records an
UPDATE has added, each has the id of a row that is done. This holds for any number
of clients because the page a statement works on is the client's own.

`RollbackGivesBack` (`RollbackRestores`) compares the end of n undo steps with the
page of n changes ago. `snapshots` remembers the rows of those pages; `RestoreInv`
says that there are pages, one for each, the present one last, such that each of
the newest log records tells how the next page came from the one before (`Tells`,
`Explains`: a row added behind, a row gone, or both). Between a change of the page
and its log entry the log to look at is the one with the record that is about to be
appended (`WillLog`). `UndoesAll` then goes through the records backwards. An undo
does not restore the page itself, because slots that were added stay, without a
record; so what is compared is the slots of the old page, nothing live being behind
them (`Shows`). While the rollback runs, what is left to undo leads to the rows to
be restored (`Undoes`). An UPDATE that found no record for a row would log the
position of an earlier row and break the chain; that it never does follows from the
rows it has yet to replace being live in the page, in slots further and further on
(`RowsAhead`). An UPDATE that sets the id can look for a record that is not there,
which is why `RollbackRestores` speaks of histories without one, and why
`RestoreInv` claims nothing once `keyChanged` holds.

`BPlusTreeProofs`, for any set of indexes and entries, any degree and any number of
calls: `TypeCorrect` and `TreesBalanced`, both from `InvariantHolds`. They are about
one client (`Client = {c}`): two that work on one tree at a time lose entries
(section 7), and nothing is claimed of the tree they leave. Between two steps of a
call the file is no tree, for pages are still to be written. So the invariant
speaks of the file `F` that will be there when they are (`OnDisk`); `WritePage`,
which is where a call changes the file, leaves `F` alone, and the other steps
change `F` at most where they put something into `writes`. Of `F` the invariant says
that there are a `level` for every page, a set of live pages with the parent `up` of
each, and (`Tree`) that parents are one level above their children, (`Rooted`) that
the roots are live, have no parent and differ, (`Filled`) that a live child has keys
enough, but for the node whose underflow the call is about to mend, (`RootsFilled`)
that an internal root has a key, but for the one the call may have to replace, and
(`Branch`, `Progress`) that the call's stack frames are a branch of the tree, with
nodes as they are in `F` where the call is still to use them. A split makes a page
live, a merge and the collapse of a root make one dead, and nothing live leads to a
dead page; `freePage` is never called, so dead pages stay and are themselves
consistent. `Depth` and `Below`, by which `Balanced` is stated, are recursive
functions of the file; that they exist follows from the levels, by the lowest page
at which they would not. The assumptions are those of `SizesAssumption`: a degree of
at least three, keys that are numbers, finitely many indexes.

`FiniteFacts` has the lemmas the others share. `LeastElement` (by the
well-foundedness of `<`) takes the place of induction: a claim about all slots or
all columns is proved by the least one it would fail for. So the existence and
the values of the recursive functions of `Compact`, of `FlattenSeq` and of the
column offsets are proved without an induction theorem. `GreatestElement` is behind
`NewId`, `RankProperties` and `KeptProperties` behind the loops that filter.

Checked by TLC only:

- `RangeIsSearches` and `RefinesMultimap` of `BPlusTree`, the contents of the leaves.
  They need, on top of the shape that is proved, the interval of keys every page
  stands for and the order of the chain of leaves.
- The front end (`SqlCompiler`, `SqlParser` and what they use): recursive operators,
  and one fixed grammar and one fixed set of statements, which TLC covers.
- Liveness (`EveryCallReturns`, `ParsingEnds`), which the provers cannot treat.

## 7. Where code and words disagree

Each with a run that finds it:

- `buffer_pool.cpp:82-84` says the dirty victim is written back. The frame
  number is passed as the page number: the bytes go to another page
  (`pool_write_back`).
- `HAOSQL.cpp:238` says a failing statement does not interrupt the main loop; a
  rollback that meets the log record of a lost INSERT ends the process
  (`rollback_kills_server`).
- `src/README.md:74` says threads access data safely by mutexes; one client's
  page write removes another's acknowledged INSERT (`two_clients`).

Seen in the models, as behaviour they have and the properties are stated around:

- `LockManager.h:21` calls `waiting_queue` the requests that wait for the lock.
  A released waiter is popped before it has the lock; if a shared request barges
  in first, it sleeps again and is queued nowhere (`WakeInVain`).
- `buffer_pool.cpp:22` says `push` makes a page usable again. After a fetch that
  found every frame pinned it erases a singular iterator (`crashed`).
- `B+tree.h:53` calls the tree's mutex the global lock of the tree. Each call has
  an object, and a mutex, of its own: with a second client in `b_plus_tree`,
  `RefinesMultimap` fails within a dozen steps, an entry being lost.
- A new table gets the page whose number is the number of tables
  (`executor.cpp:710`): after a DROP TABLE, a page in use (`tableDropped`).
- A session saves what it loaded at its start: overlapping sessions undo each
  other's DDL, and a session that loads while another saves finds an empty file
  (`serial`).
- `buildPlan` takes the temporary T4 of ALTER TABLE's constraints for one of a
  CREATE TABLE: NOT NULL and UNIQUE of ADD COLUMN get lost
  (`AddColumnStatement`). `SetNullable(…, true)` is what NOT NULL calls.
- An index scan takes the place of the whole WHERE (`IndexStandsAlone`); UPDATE
  and DELETE read one comparison (`IgnoresTests`), UPDATE its last assignment, and
  none of a WHERE behind an arithmetic one (`IgnoresAssignments`); a negative
  number is read as its sign (`HasNegatives`); a missing table is an
  uninitialised offset (`NoSuchTable`); ORDER BY reaches the plan and is passed
  over (`PlanUnknown`).
- An INSERT whose row has no key for an index, or one `stoi` does not take, is
  reported as failed when its record is already in the pool's page
  (`executor.cpp:172`, `:180`). The record shows in the client's SELECTs, the next
  page write puts it on disk, and no log names it
  (`InsertsAndDeletesAreLoggedAhead`). When it is deleted and the process killed
  before that write, the logged deletion speaks of a slot the next INSERT uses
  (`UndoRevivesTheLoggedRecord`).
- An UPDATE that sets an id which is no number throws (`executor.cpp:320`), with or
  without an index, when the old record is gone from the pool's page.
- UPDATE enters each row in the index at slot 0 (`executor.cpp:323`, with a TODO), so
  that `WHERE id = k` then answers, and a further UPDATE or DELETE changes, the row
  in slot 0, or finds it twice, or nothing (`IndexMisleads`). DELETE and rollback
  leave entries behind; DELETE's cleaning (`:391`) is never reached, because the
  operator has no table name (`:370`). Entries of deleted records do no harm here:
  an index scan passes over empty records.
- An UPDATE that sets the id looks for the old record under the new id
  (`ChangesIds`; in `TableExecutor`, `keyChanged`).
- `src/README.md:157` shows `SELECT * FROM students WHERE age > 17;`, and
  `sql_grammar.txt` derives it. The analyzer demands a name after SELECT and refuses
  it (`SelectsAll`). `src/README.md:151` shows an INSERT without a list of columns,
  which the constructor of `Values` refuses (`ValuesOf`).
- CREATE TABLE keeps the count of all columns it is given, and copies 32
  (`database_metadata_manager.cpp:153`, `:159`; `CopiedColumns`).
- `src/README.md:58` lists INSERT and UPDATE among the statements supported. The
  buffer of `read_grammar` (`parser.cpp:136`) holds 256 bytes of a first line of
  340, and the parser finds every INSERT and UPDATE ungrammatical (`Starved`);
  they work because nobody looks at its verdict.

## 8. What is not modelled

- Power loss: a kill loses memory, never what a write call has handed over.
- File errors (failed opens and writes) and pages beyond the end of the file.
- `BufferPoolManager::newPage` (an empty shell) and `LRUReplacer::erase` (no
  caller); the background flusher, log rotation, statistics and the operation
  and error logs of the logger; `AbortTransaction` (never reached).
- In `TableExecutor`: what the indexes contain (that they throw is in it),
  IndexScan, Project and compound conditions, which are in `SqlCompiler`; Sort,
  Aggregate and Join; more than one page or table; a match of the id search inside
  another column's text.
- In `WriteAheadLog`, the numbers of changes logged by two clients at once may
  tie (`LAST_LSN` is unprotected); `NewestFirst` is stated for clients that are
  not in the logger together.
- In `BPlusTree`: kills, readers between two page writes, nodes that outgrow a
  page, `createIndex` (its result is the initial state) and `destroyIndex` (its
  caller passes a page number for a file number).
- In `Catalog`: the methods nothing in the server calls (`DropIndex`,
  `UpdateTableRowCount`, `UpdateTableOffset`, most setters of the configuration)
  and the reports; what is read beyond the 32nd column of a table whose count is
  larger; opening a file for writing succeeds, and an open file is written whole or
  not at all.
- In `SqlCompiler`: ids that begin like others, full pages, the log, rollback and
  kills (all in `TableExecutor`); more than one index on a table; what a definition
  changes (in `Catalog`) and what becomes of the page that a missing table's
  offset happens to name; the splitting of text into tokens and the lexer's errors;
  `GROUPBY`, `JOIN` and `ORDERBY` of `buildPlan`, for which the analyzer emits no
  quadruple. `SqlParser` leaves the stack machine when the stack overflows: what
  the code then does is undefined.
- `IndexManager::DropIndexesOnTable`, which locks a mutex it holds, and
  `DropIndex`: nothing calls them.
- The components without a module: login (planned, section 9); the transport of
  the AI call (its answer is an input of `SqlCompiler`), formatting and banner
  (no state), the test programs (read as documentation).

## 9. Plan

1. The contents of the B+ tree: `RangeIsSearches` and `RefinesMultimap` for one client,
   by adding to the invariant of `BPlusTreeProofs` the interval of keys of each live
   page and that the chain of leaves runs through the intervals in order.
2. `Login`: the race of two registrations over `users.dat`, and the page it
   shares with whoever writes it back.
3. Rollback and kills in `SqlCompiler`'s table, or the index of its table in
   `TableExecutor`: entries against rows through rollbacks, which undo no entry.
