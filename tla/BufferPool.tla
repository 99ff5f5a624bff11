------------------------------ MODULE BufferPool ------------------------------
(***************************************************************************)
(* The buffer pool of buffer_pool.cpp over the DiskManager of page.cpp:    *)
(* frames, the page table, the LRU list, pin counts and dirty flags.       *)
(*                                                                         *)
(* A pool belongs to one client thread, so its methods never interleave:   *)
(* an action is one whole method call (or the caller writing through the   *)
(* pointer fetchPage gave it).  The callers keep the contract of the       *)
(* executor: they unpin what they pinned, and say is_dirty when they wrote.*)
(*                                                                         *)
(* A page's bytes are abstracted to a value that names the page it belongs *)
(* to and the write that made it (0: as found in the file).                *)
(***************************************************************************)
EXTENDS Integers, Sequences, FiniteSets, SequencesExt

CONSTANTS
    NumPages,     \* pages of the data file, numbered from 0
    PoolSize,     \* frames of the pool, numbered from 0
    MaxWrites,    \* bound: how often the callers write to a page, over all pages
    MaxPins       \* bound: pins the callers hold on one page at a time

ASSUME SizesAssumption ==
    /\ NumPages \in Nat \ {0}
    /\ PoolSize \in 1..NumPages
    /\ MaxWrites \in Nat
    /\ MaxPins \in Nat \ {0}

PageId == 0..(NumPages - 1)
FrameId == 0..(PoolSize - 1)
None == -1                       \* Page::id of an unused frame, "no frame", "no victim"

Content == [page : PageId, version : 0..MaxWrites]

FrameState == [id : PageId \cup {None}, dirty : BOOLEAN, pins : 0..MaxPins, data : Content]

VARIABLES
    frames,      \* frames: frame -> Page object (id, dirty, pin_count, data)
    pageTable,   \* page_table: page -> frame, None when absent
    lru,         \* LRUReplacer.lru_list, most recently used first; the keys of
                 \* pos are always the members of the list
    disk,        \* the data file
    latest,      \* history: the last content the callers gave each page
    held,        \* history: pins the callers hold on each page
    wrote,       \* history: pages written through a pointer, dirty unpin still due
    misplaced,   \* history: an eviction has written a page back
    crashed      \* undefined behaviour ended the process

vars == <<frames, pageTable, lru, disk, latest, held, wrote, misplaced, crashed>>

TypeOK ==
    /\ frames \in [FrameId -> FrameState]
    /\ pageTable \in [PageId -> FrameId \cup {None}]
    /\ lru \in Seq(PageId)
    /\ disk \in [PageId -> Content]
    /\ latest \in [PageId -> Content]
    /\ held \in [PageId -> 0..MaxPins]
    /\ wrote \subseteq PageId
    /\ misplaced \in BOOLEAN
    /\ crashed \in BOOLEAN

Fresh(p) == [page |-> p, version |-> 0]

\* A new pool over a file whose pages exist.
Init ==
    /\ frames = [f \in FrameId |-> [id |-> None, dirty |-> FALSE, pins |-> 0, data |-> Fresh(0)]]
    /\ pageTable = [p \in PageId |-> None]
    /\ lru = <<>>
    /\ disk = [p \in PageId |-> Fresh(p)]
    /\ latest = [p \in PageId |-> Fresh(p)]
    /\ held = [p \in PageId |-> 0]
    /\ wrote = {}
    /\ misplaced = FALSE
    /\ crashed = FALSE

-----------------------------------------------------------------------------
(* LRUReplacer *)

\* erase(pos[p]): pos holds the place of every page on the list.
Erased(l, p) ==
    IF p \in ToSet(l) THEN RemoveAt(l, CHOOSE i \in 1..Len(l) : l[i] = p) ELSE l

\* access: move or insert at the front; the list cannot outgrow the pool's
\* capacity, because only cached pages are on it.
Accessed(l, p) ==
    LET moved == <<p>> \o Erased(l, p)
    IN  IF Len(moved) > PoolSize THEN Front(moved) ELSE moved

\* Mutant of Pushed: the last unpin takes the page off the list and does not
\* put it back.
PushedOff(l, p) == Erased(l, p)

\* push: a page whose last pin went away goes to the BACK of the list.
Pushed(l, p) == Append(Erased(l, p), p)

InFrame(p) == frames[pageTable[p]]

\* Mutant of UnpinnedPositions: the search does not look at pin_count.
AllPositions == 1..Len(lru)

\* The search of fetchPage: victim() takes candidates off the back until one
\* is unpinned.  The pinned ones met on the way are off the list for good.
UnpinnedPositions == {i \in 1..Len(lru) : InFrame(lru[i]).pins = 0}

VictimPosition ==
    IF UnpinnedPositions = {}
    THEN 0
    ELSE CHOOSE i \in UnpinnedPositions : \A j \in UnpinnedPositions : j <= i

Victim == IF VictimPosition = 0 THEN None ELSE lru[VictimPosition]

LruAfterSearch == IF VictimPosition = 0 THEN <<>> ELSE SubSeq(lru, 1, VictimPosition - 1)

FreeFrames == {f \in FrameId : frames[f].id = None}

\* The frame a miss loads into: the victim's, else the first free one.
TargetFrame ==
    IF Victim # None THEN pageTable[Victim]
    ELSE IF FreeFrames # {} THEN CHOOSE f \in FreeFrames : \A g \in FreeFrames : f <= g
    ELSE None

VictimIsDirty == Victim # None /\ InFrame(Victim).dirty

\* What the eviction writes: the victim's bytes, at the page numbered like
\* the FRAME (disk->writePage(frame_id, ...)).
DiskAfterEviction ==
    IF VictimIsDirty
    THEN [disk EXCEPT ![pageTable[Victim]] = InFrame(Victim).data]
    ELSE disk

-----------------------------------------------------------------------------
(* BufferPoolManager *)

\* Mutant of FetchHit: pin_count is incremented on two paths.
FetchHitPinsTwice(p) ==
    /\ ~crashed
    /\ pageTable[p] # None
    /\ held[p] < MaxPins
    /\ lru' = Accessed(lru, p)
    /\ frames' = [frames EXCEPT ![pageTable[p]].pins = @ + 2]
    /\ held' = [held EXCEPT ![p] = @ + 1]
    /\ UNCHANGED <<pageTable, disk, latest, wrote, misplaced, crashed>>

\* fetchPage on a cached page.
FetchHit(p) ==
    /\ ~crashed
    /\ pageTable[p] # None
    /\ held[p] < MaxPins
    /\ lru' = Accessed(lru, p)
    /\ frames' = [frames EXCEPT ![pageTable[p]].pins = @ + 1]
    /\ held' = [held EXCEPT ![p] = @ + 1]
    /\ UNCHANGED <<pageTable, disk, latest, wrote, misplaced, crashed>>

\* Mutant of FetchMiss: the victim stays in the page table.
FetchMissKeepsVictim(p) ==
    /\ ~crashed
    /\ pageTable[p] = None
    /\ TargetFrame # None
    /\ disk' = DiskAfterEviction
    /\ misplaced' = (misplaced \/ VictimIsDirty)
    /\ pageTable' = [pageTable EXCEPT ![p] = TargetFrame]
    /\ frames' = [frames EXCEPT ![TargetFrame] =
                        [id |-> p, dirty |-> FALSE, pins |-> 1, data |-> disk'[p]]]
    /\ lru' = Accessed(LruAfterSearch, p)
    /\ held' = [held EXCEPT ![p] = 1]
    /\ UNCHANGED <<latest, wrote, crashed>>

\* fetchPage on another page, into the frame of a victim or a free frame.
FetchMiss(p) ==
    /\ ~crashed
    /\ pageTable[p] = None
    /\ TargetFrame # None
    /\ disk' = DiskAfterEviction
    /\ misplaced' = (misplaced \/ VictimIsDirty)
    /\ pageTable' = [q \in PageId |->
                        IF q = p THEN TargetFrame
                        ELSE IF q = Victim THEN None
                        ELSE pageTable[q]]
    /\ frames' = [frames EXCEPT ![TargetFrame] =
                        [id |-> p, dirty |-> FALSE, pins |-> 1, data |-> disk'[p]]]
    /\ lru' = Accessed(LruAfterSearch, p)
    /\ held' = [held EXCEPT ![p] = 1]
    /\ UNCHANGED <<latest, wrote, crashed>>

\* fetchPage with no frame to be had: it returns nullptr, and the search has
\* emptied the LRU list on the way.
FetchFails(p) ==
    /\ ~crashed
    /\ pageTable[p] = None
    /\ TargetFrame = None
    /\ lru' = LruAfterSearch
    /\ UNCHANGED <<frames, pageTable, disk, latest, held, wrote, misplaced, crashed>>

NextVersion == Max({latest[q].version : q \in PageId}) + 1

\* A caller writes through the pointer of a page it has pinned.
CallerWrites(p) ==
    /\ ~crashed
    /\ held[p] > 0
    /\ NextVersion <= MaxWrites
    /\ frames' = [frames EXCEPT ![pageTable[p]].data.version = NextVersion]
    /\ latest' = [latest EXCEPT ![p] = frames'[pageTable[p]].data]
    /\ wrote' = wrote \cup {p}
    /\ UNCHANGED <<pageTable, lru, disk, held, misplaced, crashed>>

\* unpinPage by a caller that holds a pin; the last one out after a write
\* says is_dirty.  The last unpin pushes the page on the LRU list, first
\* erasing pos[id]: for a page the victim search took off the list that
\* erases a singular iterator, which both the debug and the release library
\* turn into the death of the process.
UnpinPage(p, isDirty) ==
    /\ ~crashed
    /\ held[p] > 0
    /\ p \in wrote /\ held[p] = 1 => isDirty
    /\ LET f == pageTable[p]
           pins == frames[f].pins - 1
       IN  /\ frames' = [frames EXCEPT ![f].pins = pins, ![f].dirty = @ \/ isDirty]
           /\ lru' = IF pins = 0 THEN Pushed(lru, p) ELSE lru
           /\ crashed' = (pins = 0 /\ p \notin ToSet(lru))
    /\ held' = [held EXCEPT ![p] = @ - 1]
    /\ wrote' = IF isDirty THEN wrote \ {p} ELSE wrote
    /\ UNCHANGED <<pageTable, disk, latest, misplaced>>

\* Mutant of FlushPage: the page is marked clean and not written.
FlushPageForgets(p) ==
    /\ ~crashed
    /\ pageTable[p] # None
    /\ InFrame(p).dirty
    /\ frames' = [frames EXCEPT ![pageTable[p]].dirty = FALSE]
    /\ UNCHANGED <<pageTable, lru, disk, latest, held, wrote, misplaced, crashed>>

\* flushPage
FlushPage(p) ==
    /\ ~crashed
    /\ pageTable[p] # None
    /\ InFrame(p).dirty
    /\ disk' = [disk EXCEPT ![p] = InFrame(p).data]
    /\ frames' = [frames EXCEPT ![pageTable[p]].dirty = FALSE]
    /\ UNCHANGED <<pageTable, lru, latest, held, wrote, misplaced, crashed>>

Next ==
    \E p \in PageId :
        \/ FetchHit(p)
        \/ FetchMiss(p)
        \/ FetchFails(p)
        \/ CallerWrites(p)
        \/ \E isDirty \in BOOLEAN : UnpinPage(p, isDirty)
        \/ FlushPage(p)

Spec == Init /\ [][Next]_vars

-----------------------------------------------------------------------------
(***************************************************************************)
(* Properties.                                                             *)
(***************************************************************************)

Cached(p) == pageTable[p] # None

\* The page table and the frames' own ids agree both ways: a page is in at
\* most one frame, and a loaded frame is found by the page it holds
\* (fetchPage updates the two in different places).
PageTableMatchesFrames ==
    \A p \in PageId, f \in FrameId : pageTable[p] = f <=> frames[f].id = p

\* Every cached page nobody pins can be found by the victim search, and the
\* search never meets a page that is not cached or meets one twice: the pool
\* never runs out of frames while one could be evicted.
UnpinnedIsEvictable ==
    crashed \/ /\ \A p \in PageId : Cached(p) /\ InFrame(p).pins = 0 => p \in ToSet(lru)
               /\ \A p \in ToSet(lru) : Cached(p)
               /\ IsInjective(lru)

\* The pointer fetchPage returned stays good until the caller's last unpin:
\* a pinned page keeps its frame, and only its callers change its bytes.
PinnedPageStays ==
    [][\A p \in PageId : held[p] > 0 =>
          /\ pageTable'[p] = pageTable[p]
          /\ CallerWrites(p) \/ frames'[pageTable[p]].data = frames[pageTable[p]].data]_vars

\* Until an eviction has to write a page back, no write of a caller is lost:
\* a cached page shows the latest content, a page that is not cached has it
\* on disk, and a cached page that differs from the disk is dirty (or still
\* pinned by the caller who wrote), so that flushPage will write it.
NoWriteLost ==
    misplaced \/ \A p \in PageId :
        IF Cached(p)
        THEN /\ InFrame(p).data = latest[p]
             /\ InFrame(p).dirty \/ p \in wrote \/ disk[p] = latest[p]
        ELSE disk[p] = latest[p]

\* "write the dirty page victim_id back to disk" (buffer_pool.cpp:82-84): a
\* page that has left the pool is on disk with its latest content.
EvictedPageIsOnDisk ==
    \A p \in PageId : ~Cached(p) => disk[p] = latest[p]

=============================================================================
