------------------------------ MODULE SlottedPage ------------------------------
(***************************************************************************)
(* The slotted page of page.cpp.  Record bytes grow from the header upwards*)
(* (free_offset), the slot directory grows from the end of the page        *)
(* downwards, a deleted record is a slot of length 0, and compact() moves  *)
(* the live records together.                                              *)
(*                                                                         *)
(* Offsets and lengths are counted in bytes of a small page.  The directory*)
(* is kept apart from the bytes it occupies; LayoutOK says that the two    *)
(* never meet.                                                             *)
(***************************************************************************)
EXTENDS Naturals, Sequences, FiniteSets

CONSTANTS
    PageSize,      \* PAGE_SIZE
    HeaderSize,    \* sizeof(PageHeader)
    SlotSize,      \* sizeof(Slot)
    Byte,          \* the values of a byte of a record
    MaxLength      \* bound: the longest record inserted

ASSUME SizesAssumption ==
    /\ PageSize \in Nat
    /\ HeaderSize \in Nat
    /\ SlotSize \in Nat \ {0}
    /\ HeaderSize + SlotSize <= PageSize
    /\ MaxLength \in Nat \ {0}

Offset == 0..PageSize

\* The records the executor inserts ("column:value,..."): never empty.
Record == UNION {[1..n -> Byte] : n \in 1..MaxLength}

VARIABLES
    freeOffset,    \* header()->free_offset
    slots,         \* the slot directory, slot i of the code at i + 1
    bytes,         \* the data area
    inserted,      \* history: the record each slot was created with
    reclaimed      \* history: slots whose bytes a compaction gave away

vars == <<freeOffset, slots, bytes, inserted, reclaimed>>

SlotIds == 1..Len(slots)

TypeOK ==
    /\ freeOffset \in Offset
    /\ slots \in Seq([offset : Offset, length : Offset])
    /\ DOMAIN bytes = Offset
    /\ inserted \in Seq(Record)
    /\ Len(inserted) = Len(slots)
    /\ reclaimed \subseteq SlotIds

\* Page(): an empty page.  The value of the unused bytes does not matter.
Init ==
    /\ freeOffset = HeaderSize
    /\ slots = <<>>
    /\ \E b \in Byte : bytes = [o \in Offset |-> b]
    /\ inserted = <<>>
    /\ reclaimed = {}

-----------------------------------------------------------------------------

\* Where the directory starts once it has n slots.
DirectoryStart(n) == PageSize - n * SlotSize

\* Mutants of Fits: no check at all; the room for the new slot is not counted.
FitsAlways(r) == TRUE
FitsWithoutSlot(r) == freeOffset + Len(r) <= DirectoryStart(Len(slots))

Fits(r) == freeOffset + Len(r) <= DirectoryStart(Len(slots) + 1)

\* data with r copied to position o (memcpy).
Copied(data, o, r) ==
    [p \in Offset |-> IF p \in o..(o + Len(r) - 1) THEN r[p - o + 1] ELSE data[p]]

\* The bytes a slot covers; readRecord.
RecordAt(data, s) == [k \in 1..s.length |-> data[s.offset + k - 1]]
ReadRecord(i) == RecordAt(bytes, slots[i])

\* insertRecord, when it does not throw.
InsertRecord(r) ==
    /\ Fits(r)
    /\ bytes' = Copied(bytes, freeOffset, r)
    /\ slots' = Append(slots, [offset |-> freeOffset, length |-> Len(r)])
    /\ freeOffset' = freeOffset + Len(r)
    /\ inserted' = Append(inserted, r)
    /\ UNCHANGED reclaimed

\* deleteRecord
DeleteRecord(i) ==
    /\ slots' = [slots EXCEPT ![i].length = 0]
    /\ UNCHANGED <<freeOffset, bytes, inserted, reclaimed>>

\* undeleteRecord, and what undo() does to a slot: the length comes from the
\* log, which holds the length the record had.  The caller's side of the
\* contract: the log entry is not older than a compaction that reclaimed the
\* record's bytes.
UndeleteRecord(i) ==
    /\ i \notin reclaimed
    /\ slots' = [slots EXCEPT ![i].length = Len(inserted[i])]
    /\ UNCHANGED <<freeOffset, bytes, inserted, reclaimed>>

\* Mutant of MovedDown: the record moves, its slot keeps the old offset.
MovedWithoutSlot(c, i) ==
    [c EXCEPT !.bytes = Copied(@, c.next, RecordAt(@, slots[i])),
              !.next = @ + slots[i].length]

\* One step of compact(): the record of slot i is copied to where the next
\* one goes.  c is the page so far.
MovedDown(c, i) ==
    [bytes |-> Copied(c.bytes, c.next, RecordAt(c.bytes, slots[i])),
     slots |-> [c.slots EXCEPT ![i].offset = c.next],
     next |-> c.next + slots[i].length]

\* compact() as far as slot i: the live slots up to i have been moved down,
\* in slot order.
CompactedUpTo[i \in 0..Len(slots)] ==
    IF i = 0
    THEN [bytes |-> bytes, slots |-> slots, next |-> HeaderSize]
    ELSE LET before == CompactedUpTo[i - 1]
         IN  IF slots[i].length = 0 THEN before ELSE MovedDown(before, i)

Dead == {i \in SlotIds : slots[i].length = 0}

Compact ==
    /\ LET c == CompactedUpTo[Len(slots)]
       IN  /\ bytes' = c.bytes
           /\ slots' = c.slots
           /\ freeOffset' = c.next
    /\ reclaimed' = reclaimed \cup Dead
    /\ UNCHANGED inserted

\* What the server does to a page.  Nothing in the repository calls compact.
Next ==
    \/ \E r \in Record : InsertRecord(r)
    \/ \E i \in SlotIds : DeleteRecord(i) \/ UndeleteRecord(i)

Spec == Init /\ [][Next]_vars

\* The whole class.
CompactingSpec == Init /\ [][Next \/ Compact]_vars

-----------------------------------------------------------------------------
(***************************************************************************)
(* Properties.                                                             *)
(***************************************************************************)

\* The page stays well formed: the records' bytes lie between the header and
\* the slot directory, no two live records share a byte, and a slot that may
\* still be undeleted has not lost its bytes to a later record (insertRecord
\* checks the room for the new slot as well as for the bytes).
LayoutOK ==
    /\ HeaderSize <= freeOffset
    /\ freeOffset <= DirectoryStart(Len(slots))
    /\ \A i \in SlotIds \ reclaimed :
          /\ HeaderSize <= slots[i].offset
          /\ slots[i].offset + Len(inserted[i]) <= freeOffset
          /\ slots[i].length \in {0, Len(inserted[i])}
    /\ \A i, j \in SlotIds \ reclaimed :
          i < j => slots[i].offset + Len(inserted[i]) <= slots[j].offset

\* The page is a record store: a slot always reads back as the record it was
\* created with, or as empty while it is deleted, through insertions, undo
\* and compaction (readRecord against insertRecord, deleteRecord, compact).
Reading == [i \in SlotIds |-> ReadRecord(i)]
Store == INSTANCE RecordStore WITH reading <- Reading, stored <- inserted
RefinesRecordStore == Store!Spec

=============================================================================
