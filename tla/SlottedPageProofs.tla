-------------------------- MODULE SlottedPageProofs --------------------------
(***************************************************************************)
(* Proofs about SlottedPage for every page, header and slot size: what a   *)
(* page does, compact included (CompactingSpec), keeps its layout and      *)
(* implements the abstract record store.                                   *)
(*                                                                         *)
(* LayoutOK says where the bytes of the records lie; BytesKept, that they  *)
(* are still the bytes that were inserted, deleted or not, until a         *)
(* compaction reclaims those of a deleted record.  BytesKept is inductive  *)
(* only together with LayoutOK, which keeps the copies that insertRecord   *)
(* and compact make off the bytes of the other records.                    *)
(***************************************************************************)
EXTENDS SlottedPage, SequenceTheorems, FiniteFacts, TLAPS

\* The slots whose bytes are on the page, deleted or not.
KeptIds == SlotIds \ reclaimed

\* The bytes of every record on the page are where its slot points.
BytesKept ==
    \A i \in KeptIds : \A k \in 1..Len(inserted[i]) :
        bytes[slots[i].offset + k - 1] = inserted[i][k]

IInv ==
    /\ TypeOK
    /\ \A i \in reclaimed : slots[i].length = 0
    /\ LayoutOK
    /\ BytesKept

-----------------------------------------------------------------------------
\* A record is a non-empty sequence of bytes, not longer than MaxLength.
LEMMA RecordIsSequence ==
    ASSUME NEW r \in Record
    PROVE  r \in Seq(Byte) /\ Len(r) \in 1..MaxLength
<1>1. PICK n \in 1..MaxLength : r \in [1..n -> Byte]
  BY DEF Record
<1>2. n \in Nat /\ MaxLength \in Nat
  BY <1>1, SizesAssumption
<1> QED
  BY <1>1, <1>2

\* A byte of a record that ends before f lies in the page, and before f.
LEMMA PositionInPage ==
    ASSUME NEW o \in Nat, NEW l \in Nat, NEW k \in 1..l, NEW f \in Nat,
           o + l <= f, f <= PageSize
    PROVE  o + k - 1 \in Offset /\ o + k - 1 < f
BY SizesAssumption DEF Offset

\* The directory begins in the page, or, if it had more slots than fit, before it.
LEMMA StartBelowEnd ==
    ASSUME NEW n \in Nat, NEW f \in Nat
    PROVE  f <= DirectoryStart(n) => f <= PageSize
<1> DEFINE m == n * SlotSize
<1>1. m \in Nat
  BY SizesAssumption
<1>2. DirectoryStart(n) = PageSize - m
  BY DEF DirectoryStart
<1> HIDE DEF m
<1> QED
  BY <1>1, <1>2, SizesAssumption

\* The empty page satisfies the invariant.
LEMMA InitIInv == Init => IInv
<1> SUFFICES ASSUME Init PROVE IInv
  OBVIOUS
<1>1. slots = <<>> /\ inserted = <<>> /\ reclaimed = {} /\ freeOffset = HeaderSize
  BY DEF Init
<1>2. Len(slots) = 0 /\ Len(inserted) = 0 /\ SlotIds = {}
  BY <1>1 DEF SlotIds
<1>3. HeaderSize \in Offset
  BY SizesAssumption DEF Offset
<1>4. TypeOK
  BY <1>1, <1>2, <1>3 DEF Init, TypeOK
<1>5. HeaderSize <= DirectoryStart(Len(slots))
  <2>1. DirectoryStart(0) = PageSize
    BY SizesAssumption DEF DirectoryStart
  <2> QED
    BY <2>1, <1>2, SizesAssumption
<1>6. LayoutOK
  BY <1>1, <1>2, <1>5, SizesAssumption DEF LayoutOK
<1> QED
  BY <1>1, <1>2, <1>4, <1>6 DEF IInv, BytesKept, KeptIds

-----------------------------------------------------------------------------
\* The k-th byte of a copy to o lies in the copy, and is the k-th byte there.
LEMMA PlaceInCopy ==
    ASSUME NEW o \in Nat, NEW l \in Nat, NEW k \in 1..l
    PROVE  /\ o + k - 1 \in o..(o + l - 1) /\ (o + k - 1) - o + 1 = k
           /\ \A a \in Nat : a <= o => a <= o + k - 1
OBVIOUS

\* A record that moves down to where there is room still ends before f.
LEMMA MovedEndsBefore ==
    ASSUME NEW a \in Nat, NEW b \in Nat, NEW l \in Nat, NEW f \in Nat, a <= b, b + l <= f
    PROVE  a + l \in Nat /\ a <= a + l /\ a + l <= f
OBVIOUS

\* What insertRecord does, in terms of the old and the new slots.
LEMMA InsertFacts ==
    ASSUME IInv, NEW r \in Record, InsertRecord(r)
    PROVE  /\ Len(slots) \in Nat /\ Len(slots') = Len(slots) + 1 /\ Len(inserted') = Len(slots')
           /\ \A i \in SlotIds : slots'[i] = slots[i] /\ inserted'[i] = inserted[i]
           /\ slots'[Len(slots) + 1] = [offset |-> freeOffset, length |-> Len(r)]
           /\ inserted'[Len(slots) + 1] = r
           /\ freeOffset \in Nat /\ freeOffset' = freeOffset + Len(r)
           /\ freeOffset' <= DirectoryStart(Len(slots'))
           /\ slots' \in Seq([offset : Offset, length : Offset])
           /\ inserted' \in Seq(Record)
<1>1. Len(r) \in 1..MaxLength /\ Len(r) \in Nat
  BY RecordIsSequence, SizesAssumption
<1>2. /\ slots \in Seq([offset : Offset, length : Offset])
      /\ inserted \in Seq(Record) /\ Len(inserted) = Len(slots)
      /\ freeOffset \in Offset /\ freeOffset \in Nat
  BY SizesAssumption DEF IInv, TypeOK, Offset
<1>3. Len(slots) \in Nat
  BY <1>2, LenProperties
<1>4. /\ slots' = Append(slots, [offset |-> freeOffset, length |-> Len(r)])
      /\ inserted' = Append(inserted, r)
      /\ freeOffset' = freeOffset + Len(r)
      /\ freeOffset + Len(r) <= DirectoryStart(Len(slots) + 1)
  BY DEF InsertRecord, Fits
<1>5. freeOffset + Len(r) <= PageSize
  <2>1. freeOffset + Len(r) \in Nat /\ Len(slots) + 1 \in Nat
    BY <1>1, <1>2, <1>3
  <2> QED
    BY <2>1, <1>4, StartBelowEnd
<1>6. [offset |-> freeOffset, length |-> Len(r)] \in [offset : Offset, length : Offset]
  BY <1>1, <1>2, <1>5, SizesAssumption DEF Offset
<1> QED
  BY <1>1, <1>2, <1>3, <1>4, <1>6, AppendProperties DEF SlotIds

LEMMA InsertKeepsIInv ==
    ASSUME IInv, NEW r \in Record, InsertRecord(r)
    PROVE  IInv'
<1>0. /\ Len(r) \in 1..MaxLength /\ Len(r) \in Nat /\ r \in Seq(Byte)
      /\ PageSize \in Nat /\ HeaderSize \in Nat /\ SlotSize \in Nat
  BY RecordIsSequence, SizesAssumption
<1>f. /\ Len(slots) \in Nat /\ Len(slots') = Len(slots) + 1 /\ Len(inserted') = Len(slots')
      /\ \A i \in SlotIds : slots'[i] = slots[i] /\ inserted'[i] = inserted[i]
      /\ slots'[Len(slots) + 1] = [offset |-> freeOffset, length |-> Len(r)]
      /\ inserted'[Len(slots) + 1] = r
      /\ freeOffset \in Nat /\ freeOffset' = freeOffset + Len(r)
      /\ freeOffset' <= DirectoryStart(Len(slots'))
      /\ slots' \in Seq([offset : Offset, length : Offset])
      /\ inserted' \in Seq(Record)
  BY InsertFacts
<1>1. /\ SlotIds' = SlotIds \cup {Len(slots) + 1} /\ reclaimed' = reclaimed /\ reclaimed \subseteq SlotIds
      /\ Len(slots) + 1 \notin SlotIds /\ KeptIds' = KeptIds \cup {Len(slots) + 1} /\ KeptIds \subseteq SlotIds
  <2>1. /\ SlotIds' = SlotIds \cup {Len(slots) + 1} /\ reclaimed' = reclaimed /\ reclaimed \subseteq SlotIds
        /\ Len(slots) + 1 \notin SlotIds
    BY <1>f DEF SlotIds, IInv, InsertRecord, TypeOK
  <2> QED
    BY <2>1 DEF KeptIds
<1>2. \A i \in KeptIds : /\ slots[i].offset \in Nat /\ Len(inserted[i]) \in Nat
                         /\ slots[i].offset >= HeaderSize
                         /\ slots[i].offset + Len(inserted[i]) <= freeOffset
                         /\ slots[i].length \in {0, Len(inserted[i])}
  <2>1. \A i \in SlotIds : slots[i] \in [offset : Offset, length : Offset] /\ inserted[i] \in Record
    BY <1>f, ElementOfSeq DEF IInv, TypeOK, SlotIds
  <2>2. \A i \in SlotIds : slots[i].offset \in Nat
    BY <2>1, <1>0 DEF Offset
  <2>3. \A i \in SlotIds : Len(inserted[i]) \in Nat
    BY <2>1, RecordIsSequence, SizesAssumption
  <2> QED
    BY <2>2, <2>3 DEF IInv, LayoutOK, KeptIds
<1>3. TypeOK'
  <2>1. freeOffset' \in Offset
    <3>1. freeOffset' \in Nat /\ Len(slots') \in Nat
      BY <1>f, <1>0
    <3>2. freeOffset' <= PageSize
      BY <3>1, <1>f, StartBelowEnd
    <3> QED
      BY <3>1, <3>2, <1>0 DEF Offset
  <2>2. DOMAIN bytes' = Offset
    BY DEF InsertRecord, Copied
  <2> QED
    BY <2>1, <2>2, <1>1, <1>f DEF TypeOK
<1>4. LayoutOK'
  <2>1. HeaderSize <= freeOffset'
    BY <1>0, <1>f DEF IInv, LayoutOK
  <2>2. \A i \in KeptIds' : /\ HeaderSize <= slots'[i].offset
                            /\ slots'[i].offset + Len(inserted'[i]) <= freeOffset'
                            /\ slots'[i].length \in {0, Len(inserted'[i])}
    <3> SUFFICES ASSUME NEW i \in KeptIds'
                 PROVE  /\ HeaderSize <= slots'[i].offset
                        /\ slots'[i].offset + Len(inserted'[i]) <= freeOffset'
                        /\ slots'[i].length \in {0, Len(inserted'[i])}
      OBVIOUS
    <3>1. CASE i \in KeptIds
      <4>1. slots'[i] = slots[i] /\ inserted'[i] = inserted[i]
        BY <3>1, <1>1, <1>f
      <4>2. freeOffset <= freeOffset'
        BY <1>0, <1>f
      <4> QED
        BY <4>1, <4>2, <3>1, <1>0, <1>2, <1>f
    <3>2. CASE i = Len(slots) + 1
      BY <3>2, <1>0, <1>f DEF IInv, LayoutOK
    <3> QED
      BY <3>1, <3>2, <1>1
  <2>3. \A i, j \in KeptIds' : i < j => slots'[i].offset + Len(inserted'[i]) <= slots'[j].offset
    <3> SUFFICES ASSUME NEW i \in KeptIds', NEW j \in KeptIds', i < j
                 PROVE  slots'[i].offset + Len(inserted'[i]) <= slots'[j].offset
      OBVIOUS
    <3>1. i \in KeptIds
      BY <1>f, <1>1 DEF SlotIds
    <3>2. CASE j \in KeptIds
      <4>1. slots'[i] = slots[i] /\ inserted'[i] = inserted[i] /\ slots'[j] = slots[j]
        BY <3>1, <3>2, <1>1, <1>f
      <4>2. slots[i].offset + Len(inserted[i]) <= slots[j].offset
        BY <3>1, <3>2 DEF IInv, LayoutOK, KeptIds
      <4>3. slots'[i].offset + Len(inserted'[i]) = slots[i].offset + Len(inserted[i])
        BY <4>1
      <4> QED
        BY <4>1, <4>2, <4>3
    <3>3. CASE j = Len(slots) + 1
      <4>1. slots'[i] = slots[i] /\ inserted'[i] = inserted[i] /\ slots'[j].offset = freeOffset
        BY <3>1, <3>3, <1>1, <1>f
      <4>2. slots[i].offset + Len(inserted[i]) <= freeOffset
        BY <3>1, <1>2
      <4> QED
        BY <4>1, <4>2
    <3> QED
      BY <3>2, <3>3, <1>1
  <2> QED
    BY <2>1, <2>2, <2>3, <1>f DEF LayoutOK, KeptIds, DirectoryStart
<1>5. BytesKept'
  <2> SUFFICES ASSUME NEW i \in KeptIds', NEW k \in 1..Len(inserted'[i])
               PROVE  bytes'[slots'[i].offset + k - 1] = inserted'[i][k]
    BY DEF BytesKept
  <2>1. bytes' = [p \in Offset |-> IF p \in freeOffset..(freeOffset + Len(r) - 1)
                                   THEN r[p - freeOffset + 1] ELSE bytes[p]]
    BY DEF InsertRecord, Copied
  <2>2. freeOffset' <= PageSize
    BY <1>3, <1>0 DEF TypeOK, Offset
  <2>3. CASE i \in KeptIds
    <3>0. /\ inserted'[i] = inserted[i] /\ k \in 1..Len(inserted[i])
          /\ slots[i].offset \in Nat /\ Len(inserted[i]) \in Nat
          /\ slots[i].offset + Len(inserted[i]) <= freeOffset
      BY <2>3, <1>1, <1>2, <1>f
    <3>a. freeOffset <= PageSize
      BY <2>2, <1>0, <1>f
    <3>1. /\ slots[i].offset + k - 1 \in Offset
          /\ slots[i].offset + k - 1 < freeOffset
      BY <3>0, <3>a, <1>f, PositionInPage
    <3>2. bytes'[slots[i].offset + k - 1] = bytes[slots[i].offset + k - 1]
      BY <2>1, <3>1, <1>f, <1>0 DEF Offset
    <3> QED
      BY <2>3, <3>0, <3>2, <1>1, <1>f DEF IInv, BytesKept
  <2>4. CASE i = Len(slots) + 1
    <3>1. k \in 1..Len(r) /\ slots'[i].offset = freeOffset /\ inserted'[i] = r
      BY <2>4, <1>f
    <3>2. freeOffset + k - 1 \in Offset /\ freeOffset + k - 1 \in freeOffset..(freeOffset + Len(r) - 1)
      BY <3>1, <2>2, <1>f, <1>0 DEF Offset
    <3>3. (freeOffset + k - 1) - freeOffset + 1 = k
      BY <3>1, <1>f, <1>0
    <3> QED
      BY <2>1, <3>1, <3>2, <3>3
  <2> QED
    BY <2>3, <2>4, <1>1
<1>6. \A i \in reclaimed' : slots'[i].length = 0
  BY <1>1, <1>f DEF IInv
<1> QED
  BY <1>3, <1>4, <1>5, <1>6 DEF IInv

\* deleteRecord and undeleteRecord change the length of one slot, to 0 or to
\* the length of its record.
LEMMA LengthChangeKeepsIInv ==
    ASSUME IInv, NEW i \in SlotIds, NEW n \in {0, Len(inserted[i])}, i \in reclaimed => n = 0,
           slots' = [slots EXCEPT ![i].length = n],
           UNCHANGED <<freeOffset, bytes, inserted, reclaimed>>
    PROVE  IInv'
<1>0. /\ PageSize \in Nat /\ HeaderSize \in Nat /\ SlotSize \in Nat
      /\ slots \in Seq([offset : Offset, length : Offset])
      /\ Len(slots) \in Nat /\ inserted \in Seq(Record) /\ Len(inserted) = Len(slots)
  BY SizesAssumption, LenProperties DEF IInv, TypeOK
<1>1. i \in 1..Len(slots) /\ slots[i] \in [offset : Offset, length : Offset]
      /\ inserted[i] \in Record
  BY <1>0, ElementOfSeq DEF SlotIds
<1>2. n \in Offset
  <2>1. Len(inserted[i]) \in Nat
    BY <1>1, RecordIsSequence, SizesAssumption
  <2>2. i \notin reclaimed =>
        /\ HeaderSize <= slots[i].offset /\ slots[i].offset \in Nat
        /\ slots[i].offset + Len(inserted[i]) <= freeOffset
        /\ freeOffset \in Nat /\ freeOffset <= PageSize
    BY <1>0, <1>1 DEF IInv, LayoutOK, TypeOK, Offset
  <2>3. CASE n = 0
    BY <2>3, <1>0 DEF Offset
  <2>4. CASE n = Len(inserted[i]) /\ i \notin reclaimed
    <3>1. Len(inserted[i]) <= PageSize
      BY <2>1, <2>2, <2>4, <1>0
    <3> QED
      BY <2>1, <2>4, <3>1, <1>0 DEF Offset
  <2> QED
    BY <2>3, <2>4, <1>0
<1>3. [slots[i] EXCEPT !.length = n] \in [offset : Offset, length : Offset]
  BY <1>1, <1>2
<1>4. slots' = [slots EXCEPT ![i] = [slots[i] EXCEPT !.length = n]]
  BY <1>0, <1>1
<1>5. /\ slots' \in Seq([offset : Offset, length : Offset]) /\ Len(slots') = Len(slots)
      /\ \A j \in 1..Len(slots) :
            slots'[j] = IF j = i THEN [slots[i] EXCEPT !.length = n] ELSE slots[j]
  BY <1>0, <1>1, <1>3, <1>4, ExceptSeq
<1>6. SlotIds' = SlotIds /\ inserted' = inserted /\ reclaimed' = reclaimed /\ KeptIds' = KeptIds
  BY <1>5 DEF SlotIds, KeptIds
<1>7. \A j \in SlotIds : slots'[j].offset = slots[j].offset
                          /\ slots'[j].length = IF j = i THEN n ELSE slots[j].length
  BY <1>1, <1>5 DEF SlotIds
<1>8. TypeOK'
  BY <1>5, <1>6 DEF IInv, TypeOK
<1>9. LayoutOK'
  BY <1>5, <1>6, <1>7 DEF IInv, LayoutOK
<1>10. BytesKept'
  BY <1>6, <1>7 DEF IInv, BytesKept, KeptIds
<1>11. \A j \in reclaimed' : slots'[j].length = 0
  BY <1>6, <1>7 DEF IInv, TypeOK
<1> QED
  BY <1>8, <1>9, <1>10, <1>11 DEF IInv

-----------------------------------------------------------------------------
(***************************************************************************)
(* compact().  CompactedUpTo is a recursive function; that it exists, and  *)
(* that every page it passes through is well packed, is shown by the least *)
(* slot where it would fail.                                               *)
(***************************************************************************)
Start == [bytes |-> bytes, slots |-> slots, next |-> HeaderSize]
PassSlot(c, i) == IF slots[i].length = 0 THEN c ELSE MovedDown(c, i)
Passes(n, f) == f = [i \in 0..n |-> IF i = 0 THEN Start ELSE PassSlot(f[i - 1], i)]

LEMMA PassesExists ==
    ASSUME NEW n \in Nat
    PROVE  \E f : Passes(n, f)
<1> DEFINE P(k) == \E f : Passes(k, f)
           Bad == {k \in 0..n : ~P(k)}
<1>1. SUFFICES ASSUME Bad # {} PROVE FALSE
  OBVIOUS
<1>2. PICK k \in Bad : \A j \in Bad : k <= j
  <2>1. Bad \in SUBSET Nat
    OBVIOUS
  <2> HIDE DEF Bad
  <2> QED
    BY <1>1, <2>1, LeastElement
<1>3. k \in 0..n /\ k \in Nat
  OBVIOUS
<1>4. CASE k = 0
  <2> DEFINE f == [i \in 0..0 |-> Start]
  <2>1. \A i \in 0..0 : i = 0
    OBVIOUS
  <2>2. Passes(0, f)
    BY <2>1 DEF Passes
  <2> QED
    BY <1>4, <2>2
<1>5. CASE k # 0
  <2>1. k - 1 \in 0..n /\ k - 1 \notin Bad
    <3>1. k - 1 \in 0..n /\ ~(k <= k - 1)
      BY <1>3, <1>5
    <3> QED
      BY <1>2, <3>1
  <2>2. PICK f : Passes(k - 1, f)
    BY <2>1
  <2> DEFINE g == [i \in 0..k |-> IF i = k THEN PassSlot(f[k - 1], k) ELSE f[i]]
  <2>3. ASSUME NEW i \in 0..k PROVE g[i] = IF i = 0 THEN Start ELSE PassSlot(g[i - 1], i)
    <3>1. CASE i = k
      <4>1. g[k - 1] = f[k - 1] /\ g[k] = PassSlot(f[k - 1], k)
        <5>1. k - 1 \in 0..k /\ k \in 0..k /\ k - 1 # k
          BY <1>3, <1>5
        <5> QED
          BY <5>1
      <4> HIDE DEF g
      <4> QED
        BY <1>5, <3>1, <4>1
    <3>2. CASE i # k
      <4>1. i \in 0..(k - 1) /\ g[i] = f[i]
        BY <1>3, <3>2
      <4>2. f[i] = IF i = 0 THEN Start ELSE PassSlot(f[i - 1], i)
        BY <2>2, <4>1 DEF Passes
      <4>3. i # 0 => g[i - 1] = f[i - 1]
        BY <1>3, <3>2
      <4> HIDE DEF g
      <4> QED
        BY <4>1, <4>2, <4>3
    <3> QED
      BY <3>1, <3>2
  <2>4. g = [i \in 0..k |-> g[i]]
    OBVIOUS
  <2> HIDE DEF g
  <2>5. g = [i \in 0..k |-> IF i = 0 THEN Start ELSE PassSlot(g[i - 1], i)]
    BY <2>3, <2>4
  <2>6. Passes(k, g)
    BY <2>5 DEF Passes
  <2> QED
    BY <2>6
<1> QED
  BY <1>4, <1>5

\* compact() starts from the page and passes one slot after the other.
LEMMA CompactedSteps ==
    ASSUME Len(slots) \in Nat
    PROVE  /\ CompactedUpTo[0] = Start
           /\ \A i \in SlotIds : CompactedUpTo[i] = PassSlot(CompactedUpTo[i - 1], i)
<1>1. \E f : Passes(Len(slots), f)
  BY PassesExists
<1>2. CompactedUpTo = CHOOSE f : Passes(Len(slots), f)
  BY DEF CompactedUpTo, Passes, Start, PassSlot
<1>3. Passes(Len(slots), CompactedUpTo)
  BY <1>1, <1>2
<1>4. \A i \in 0..Len(slots) :
         CompactedUpTo[i] = IF i = 0 THEN Start ELSE PassSlot(CompactedUpTo[i - 1], i)
  BY <1>3 DEF Passes
<1>5. 0 \in 0..Len(slots) /\ \A i \in SlotIds : i \in 0..Len(slots) /\ i # 0
  BY DEF SlotIds
<1> QED
  BY <1>4, <1>5

\* The live slots, whose records compact() keeps.
Live == SlotIds \ Dead

\* The directory of a page that compact() has passed up to some slot: only
\* offsets have changed, and only those of slots already passed.
DirectoryPacked(c, i) ==
    /\ c.slots \in Seq([offset : Offset, length : Offset])
    /\ Len(c.slots) = Len(slots)
    /\ \A j \in SlotIds : c.slots[j].length = slots[j].length
    /\ \A j \in SlotIds : i < j => c.slots[j].offset = slots[j].offset

\* Where the next record goes: never beyond a record that is still to move.
RoomPacked(c, i) ==
    /\ c.next \in Nat /\ HeaderSize <= c.next /\ c.next <= freeOffset
    /\ \A j \in Live : i < j => c.next <= slots[j].offset

\* The records passed lie together, in slot order, and end at c.next.
RecordsPacked(c, i) ==
    /\ \A j \in Live : j <= i =>
          /\ HeaderSize <= c.slots[j].offset
          /\ c.slots[j].offset + Len(inserted[j]) <= c.next
    /\ \A j, k \in Live : j < k /\ k <= i =>
          c.slots[j].offset + Len(inserted[j]) <= c.slots[k].offset

\* They have kept their bytes, and so have those that are still to move.
BytesPacked(c, i) ==
    /\ DOMAIN c.bytes = Offset
    /\ \A p \in Offset : c.next <= p => c.bytes[p] = bytes[p]
    /\ \A j \in Live : j <= i =>
          \A k \in 1..Len(inserted[j]) : c.bytes[c.slots[j].offset + k - 1] = inserted[j][k]

Packed(c, i) ==
    DirectoryPacked(c, i) /\ RoomPacked(c, i) /\ RecordsPacked(c, i) /\ BytesPacked(c, i)

\* What the invariant says of a live slot.
LEMMA LiveFacts ==
    ASSUME IInv
    PROVE  /\ Len(slots) \in Nat /\ freeOffset \in Nat /\ freeOffset <= PageSize
           /\ \A i \in SlotIds : /\ slots[i] \in [offset : Offset, length : Offset]
                                 /\ slots[i].offset \in Nat /\ slots[i].length \in Nat
                                 /\ inserted[i] \in Record /\ Len(inserted[i]) \in Nat
                                 /\ Len(inserted[i]) >= 1
           /\ \A i \in Live : /\ i \in SlotIds /\ i \in KeptIds /\ i \in Nat
                              /\ slots[i].length = Len(inserted[i])
                              /\ HeaderSize <= slots[i].offset
                              /\ slots[i].offset + Len(inserted[i]) <= freeOffset
           /\ \A i, j \in Live : i < j => slots[i].offset + Len(inserted[i]) <= slots[j].offset
<1>0. /\ PageSize \in Nat /\ HeaderSize \in Nat
      /\ slots \in Seq([offset : Offset, length : Offset])
      /\ Len(slots) \in Nat /\ inserted \in Seq(Record) /\ Len(inserted) = Len(slots)
      /\ freeOffset \in Nat /\ freeOffset <= PageSize
  BY SizesAssumption, LenProperties DEF IInv, TypeOK, Offset
<1>1. \A i \in SlotIds : slots[i] \in [offset : Offset, length : Offset] /\ inserted[i] \in Record
  BY <1>0, ElementOfSeq DEF SlotIds
<1>2. \A i \in SlotIds : slots[i].offset \in Nat /\ slots[i].length \in Nat
  BY <1>0, <1>1 DEF Offset
<1>3. \A i \in SlotIds : Len(inserted[i]) \in Nat /\ Len(inserted[i]) >= 1
  BY <1>1, RecordIsSequence, SizesAssumption
<1>4. \A i \in Live : i \in SlotIds /\ i \in KeptIds /\ i \in Nat /\ slots[i].length # 0
  BY <1>0 DEF Live, Dead, KeptIds, IInv, SlotIds
<1>5. \A i \in Live : /\ slots[i].length = Len(inserted[i])
                      /\ HeaderSize <= slots[i].offset
                      /\ slots[i].offset + Len(inserted[i]) <= freeOffset
  BY <1>4 DEF KeptIds, IInv, LayoutOK
<1>6. \A i, j \in Live : i < j => slots[i].offset + Len(inserted[i]) <= slots[j].offset
  BY <1>4 DEF KeptIds, IInv, LayoutOK
<1> QED
  BY <1>0, <1>1, <1>2, <1>3, <1>4, <1>5, <1>6

\* compact() starts with nothing passed.
LEMMA StartPacked ==
    ASSUME IInv
    PROVE  Packed(Start, 0)
<1>1. /\ Start.bytes = bytes /\ Start.slots = slots /\ Start.next = HeaderSize
  BY DEF Start
<1>2. \A j \in Live : j \in Nat /\ ~(j <= 0)
  BY LiveFacts DEF Live, SlotIds
<1>3. DirectoryPacked(Start, 0)
  BY <1>1 DEF DirectoryPacked, IInv, TypeOK
<1>4. RoomPacked(Start, 0)
  BY <1>1, LiveFacts, SizesAssumption DEF RoomPacked, IInv, LayoutOK
<1>5. RecordsPacked(Start, 0)
  BY <1>2 DEF RecordsPacked
<1>6. BytesPacked(Start, 0)
  BY <1>1, <1>2 DEF BytesPacked, IInv, TypeOK
<1> QED
  BY <1>3, <1>4, <1>5, <1>6 DEF Packed

\* A deleted slot is passed over.
LEMMA DeadSlotPassed ==
    ASSUME IInv, NEW i \in SlotIds, NEW c, Packed(c, i - 1), slots[i].length = 0
    PROVE  Packed(c, i)
<1>1. /\ \A j \in Live : j # i /\ j \in Nat
      /\ i \in Nat
  BY LiveFacts DEF Live, Dead, SlotIds
<1>2. \A j \in Live : j <= i <=> j <= i - 1
  BY <1>1
<1>3. \A j \in Live : i < j => i - 1 < j
  BY <1>1
<1>4. \A j \in SlotIds : i < j => i - 1 < j
  BY <1>1 DEF SlotIds
<1>5. DirectoryPacked(c, i)
  BY <1>4 DEF Packed, DirectoryPacked
<1>6. RoomPacked(c, i)
  BY <1>3 DEF Packed, RoomPacked
<1>7. RecordsPacked(c, i)
  BY <1>2 DEF Packed, RecordsPacked
<1>8. BytesPacked(c, i)
  BY <1>2 DEF Packed, BytesPacked
<1> QED
  BY <1>5, <1>6, <1>7, <1>8 DEF Packed

\* A live record is copied down to c.next, over bytes no record needs.
LEMMA LiveSlotPassed ==
    ASSUME IInv, NEW i \in SlotIds, NEW c, Packed(c, i - 1), slots[i].length # 0
    PROVE  Packed(MovedDown(c, i), i)
<1> DEFINE d == MovedDown(c, i)
           r == inserted[i]
<1>0. /\ i \in Live /\ i \in Nat /\ i \in 1..Len(slots) /\ Len(slots) \in Nat
      /\ PageSize \in Nat /\ HeaderSize \in Nat
      /\ r \in Record /\ Len(r) \in Nat /\ Len(r) >= 1 /\ r \in Seq(Byte)
      /\ slots[i].length = Len(r) /\ slots[i].offset \in Nat
      /\ slots[i].offset + Len(r) <= freeOffset /\ freeOffset \in Nat /\ freeOffset <= PageSize
  BY LiveFacts, RecordIsSequence, SizesAssumption DEF Live, Dead, SlotIds
<1>1. /\ c.next \in Nat /\ HeaderSize <= c.next /\ c.next <= freeOffset
      /\ \A j \in Live : i - 1 < j => c.next <= slots[j].offset
  BY DEF Packed, RoomPacked
<1>2. c.next <= slots[i].offset
  BY <1>0, <1>1
<1>3. RecordAt(c.bytes, slots[i]) = r
  <2>1. RecordAt(c.bytes, slots[i]) = [k \in 1..Len(r) |-> c.bytes[slots[i].offset + k - 1]]
    BY <1>0 DEF RecordAt
  <2>2. ASSUME NEW k \in 1..Len(r) PROVE c.bytes[slots[i].offset + k - 1] = r[k]
    <3>1. slots[i].offset + k - 1 \in Offset
      BY <1>0, PositionInPage
    <3>2. c.next <= slots[i].offset + k - 1
      BY <1>0, <1>1, <1>2, PlaceInCopy
    <3>3. c.bytes[slots[i].offset + k - 1] = bytes[slots[i].offset + k - 1]
      BY <3>1, <3>2 DEF Packed, BytesPacked
    <3>4. bytes[slots[i].offset + k - 1] = r[k]
      BY <1>0, LiveFacts DEF IInv, BytesKept
    <3> QED
      BY <3>3, <3>4
  <2>3. r = [k \in 1..Len(r) |-> r[k]]
    BY <1>0, LenProperties
  <2> QED
    BY <2>1, <2>2, <2>3
<1>4. /\ d.bytes = Copied(c.bytes, c.next, r)
      /\ d.slots = [c.slots EXCEPT ![i].offset = c.next]
      /\ d.next = c.next + Len(r)
  BY <1>0, <1>3 DEF MovedDown
<1> HIDE DEF d
<1>5. /\ d.slots \in Seq([offset : Offset, length : Offset]) /\ Len(d.slots) = Len(slots)
      /\ \A j \in SlotIds : /\ d.slots[j].length = slots[j].length
                            /\ d.slots[j].offset = IF j = i THEN c.next ELSE c.slots[j].offset
  <2>1. /\ c.slots \in Seq([offset : Offset, length : Offset]) /\ Len(c.slots) = Len(slots)
        /\ \A j \in SlotIds : c.slots[j].length = slots[j].length
    BY DEF Packed, DirectoryPacked
  <2>2. c.slots[i] \in [offset : Offset, length : Offset] /\ i \in 1..Len(c.slots)
    BY <1>0, <2>1, ElementOfSeq
  <2>3. c.next \in Offset
    BY <1>0, <1>1 DEF Offset
  <2>4. [c.slots[i] EXCEPT !.offset = c.next] \in [offset : Offset, length : Offset]
    BY <2>2, <2>3
  <2>5. d.slots = [c.slots EXCEPT ![i] = [c.slots[i] EXCEPT !.offset = c.next]]
    BY <1>4, <2>1, <2>2
  <2>6. /\ d.slots \in Seq([offset : Offset, length : Offset]) /\ Len(d.slots) = Len(c.slots)
        /\ \A j \in 1..Len(c.slots) :
              d.slots[j] = IF j = i THEN [c.slots[i] EXCEPT !.offset = c.next] ELSE c.slots[j]
    BY <2>1, <2>2, <2>4, <2>5, ExceptSeq
  <2>7. /\ [c.slots[i] EXCEPT !.offset = c.next].length = c.slots[i].length
        /\ [c.slots[i] EXCEPT !.offset = c.next].offset = c.next
    BY <2>2
  <2> QED
    BY <2>1, <2>6, <2>7, <1>0 DEF SlotIds
<1>6. \A j \in Live : /\ j \in Nat /\ j \in SlotIds /\ Len(inserted[j]) \in Nat /\ slots[j].offset \in Nat
                      /\ d.slots[j].offset \in Nat /\ c.slots[j].offset \in Nat
                      /\ j <= i - 1 => j # i
                      /\ j <= i => j <= i - 1 \/ j = i
                      /\ i < j => i - 1 < j
  <2>1. \A j \in Live : j \in Nat /\ j \in SlotIds /\ Len(inserted[j]) \in Nat /\ slots[j].offset \in Nat
    BY LiveFacts
  <2>2. \A j \in Live : d.slots[j] \in [offset : Offset, length : Offset]
    BY <2>1, <1>5, <1>0, ElementOfSeq DEF SlotIds
  <2>3. \A j \in Live : c.slots[j] \in [offset : Offset, length : Offset]
    BY <2>1, <1>0, ElementOfSeq DEF SlotIds, Packed, DirectoryPacked
  <2>4. \A j \in Live : d.slots[j].offset \in Nat /\ c.slots[j].offset \in Nat
    <3>1. \A s \in [offset : Offset, length : Offset] : s.offset \in Nat
      BY <1>0 DEF Offset
    <3> QED
      BY <2>2, <2>3, <3>1
  <2> QED
    BY <2>1, <2>4, <1>0
<1>7. DirectoryPacked(d, i)
  <2>1. \A j \in SlotIds : i < j => j # i /\ i - 1 < j
    BY <1>0 DEF SlotIds
  <2> QED
    BY <2>1, <1>5 DEF Packed, DirectoryPacked
<1>8. RoomPacked(d, i)
  <2>1. d.next \in Nat /\ HeaderSize <= d.next /\ d.next <= freeOffset
    <3>1. /\ c.next + Len(r) \in Nat /\ c.next <= c.next + Len(r)
          /\ c.next + Len(r) <= freeOffset
      BY <1>0, <1>1, <1>2, MovedEndsBefore
    <3> QED
      BY <3>1, <1>0, <1>1, <1>4
  <2>2. ASSUME NEW j \in Live, i < j PROVE d.next <= slots[j].offset
    <3>1. slots[i].offset + Len(r) <= slots[j].offset
      BY <1>0, <2>2, LiveFacts
    <3>2. slots[j].offset \in Nat
      BY <1>6
    <3>3. c.next + Len(r) <= slots[j].offset
      BY <3>1, <3>2, <1>0, <1>1, <1>2, MovedEndsBefore
    <3> QED
      BY <3>3, <1>4
  <2> QED
    BY <2>1, <2>2 DEF RoomPacked
<1>9. RecordsPacked(d, i)
  <2>1. \A j \in Live : j <= i - 1 =>
          /\ HeaderSize <= c.slots[j].offset
          /\ c.slots[j].offset + Len(inserted[j]) <= c.next
    BY DEF Packed, RecordsPacked
  <2>2. ASSUME NEW j \in Live, j <= i
        PROVE  /\ HeaderSize <= d.slots[j].offset
               /\ d.slots[j].offset + Len(inserted[j]) <= d.next
    <3>1. CASE j = i
      <4>1. d.slots[j].offset = c.next /\ Len(inserted[j]) = Len(r)
        BY <3>1, <1>5, <1>6
      <4>2. d.slots[j].offset + Len(inserted[j]) = d.next
        BY <4>1, <1>4
      <4>3. d.next \in Nat
        BY <1>0, <1>1, <1>4
      <4> QED
        BY <4>1, <4>2, <4>3, <1>1
    <3>2. CASE j <= i - 1
      <4>1. d.slots[j].offset = c.slots[j].offset
        BY <3>2, <1>5, <1>6
      <4>2. HeaderSize <= c.slots[j].offset /\ c.slots[j].offset + Len(inserted[j]) <= c.next
        BY <3>2, <2>1
      <4>3. /\ c.slots[j].offset + Len(inserted[j]) \in Nat
            /\ c.next \in Nat /\ c.next <= d.next /\ d.next \in Nat
        <5>1. c.slots[j].offset \in Nat /\ Len(inserted[j]) \in Nat
          BY <1>6
        <5>2. c.slots[j].offset + Len(inserted[j]) \in Nat
          BY <5>1
        <5>3. c.next \in Nat /\ c.next <= d.next /\ d.next \in Nat
          BY <1>0, <1>1, <1>4
        <5> QED
          BY <5>2, <5>3
      <4>4. d.slots[j].offset + Len(inserted[j]) = c.slots[j].offset + Len(inserted[j])
        BY <4>1
      <4> QED
        BY <4>1, <4>2, <4>3, <4>4
    <3> QED
      BY <2>2, <3>1, <3>2, <1>6
  <2>3. ASSUME NEW j \in Live, NEW k \in Live, j < k, k <= i
        PROVE  d.slots[j].offset + Len(inserted[j]) <= d.slots[k].offset
    <3>0. j <= i - 1 /\ d.slots[j].offset = c.slots[j].offset
      <4>1. j <= i - 1
        BY <2>3, <1>0, <1>6
      <4> QED
        BY <4>1, <1>5, <1>6
    <3>1. CASE k = i
      <4>1. d.slots[k].offset = c.next
        BY <3>1, <1>5, <1>6
      <4> QED
        BY <3>0, <4>1, <2>1
    <3>2. CASE k <= i - 1
      <4>1. d.slots[k].offset = c.slots[k].offset
        BY <3>2, <1>5, <1>6
      <4>2. c.slots[j].offset + Len(inserted[j]) <= c.slots[k].offset
        BY <2>3, <3>2 DEF Packed, RecordsPacked
      <4> QED
        BY <4>1, <4>2, <3>0
    <3> QED
      BY <2>3, <3>1, <3>2, <1>6
  <2> QED
    BY <2>2, <2>3 DEF RecordsPacked
<1>10. BytesPacked(d, i)
  <2>0. d.bytes = [p \in Offset |-> IF p \in c.next..(c.next + Len(r) - 1)
                                    THEN r[p - c.next + 1] ELSE c.bytes[p]]
    BY <1>4 DEF Copied
  <2>1. ASSUME NEW p \in Offset, d.next <= p PROVE d.bytes[p] = bytes[p]
    <3>1. p \notin c.next..(c.next + Len(r) - 1) /\ c.next <= p
      BY <2>1, <1>0, <1>1, <1>4 DEF Offset
    <3>2. c.bytes[p] = bytes[p]
      BY <3>1 DEF Packed, BytesPacked
    <3> QED
      BY <2>0, <3>1, <3>2
  <2>2. ASSUME NEW j \in Live, j <= i, NEW k \in 1..Len(inserted[j])
        PROVE  d.bytes[d.slots[j].offset + k - 1] = inserted[j][k]
    <3>1. CASE j = i
      <4>1. d.slots[j].offset = c.next /\ k \in 1..Len(r)
        BY <3>1, <1>5, <1>6
      <4>2. c.next + Len(r) <= freeOffset
        BY <1>0, <1>1, <1>2
      <4>3. c.next + k - 1 \in Offset
        BY <4>1, <4>2, <1>0, <1>1, PositionInPage
      <4>4. c.next + k - 1 \in c.next..(c.next + Len(r) - 1) /\ (c.next + k - 1) - c.next + 1 = k
        BY <4>1, <1>0, <1>1, PlaceInCopy
      <4>5. d.bytes[c.next + k - 1] = r[k]
        BY <2>0, <4>3, <4>4
      <4> QED
        BY <4>1, <4>5, <3>1
    <3>2. CASE j <= i - 1
      <4>1. d.slots[j].offset = c.slots[j].offset
        BY <3>2, <1>5, <1>6
      <4>2. c.slots[j].offset + Len(inserted[j]) <= c.next
        BY <3>2 DEF Packed, RecordsPacked
      <4>3. c.next <= PageSize
        BY <1>0, <1>1
      <4>4. c.slots[j].offset + k - 1 \in Offset /\ c.slots[j].offset + k - 1 < c.next
        BY <4>2, <4>3, <1>1, <1>6, PositionInPage
      <4>5. d.bytes[c.slots[j].offset + k - 1] = c.bytes[c.slots[j].offset + k - 1]
        <5>1. c.slots[j].offset + k - 1 \notin c.next..(c.next + Len(r) - 1)
          BY <4>4, <1>0, <1>1 DEF Offset
        <5> QED
          BY <5>1, <4>4, <2>0
      <4>6. c.bytes[c.slots[j].offset + k - 1] = inserted[j][k]
        BY <3>2 DEF Packed, BytesPacked
      <4> QED
        BY <4>1, <4>5, <4>6
    <3> QED
      BY <2>2, <3>1, <3>2, <1>6
  <2> QED
    BY <2>0, <2>1, <2>2 DEF BytesPacked
<1> QED
  BY <1>7, <1>8, <1>9, <1>10 DEF Packed, d

\* So the page compact() ends with is packed up to its last slot.
LEMMA CompactedIsPacked ==
    ASSUME IInv
    PROVE  Packed(CompactedUpTo[Len(slots)], Len(slots))
<1> DEFINE Bad == {k \in 0..Len(slots) : ~Packed(CompactedUpTo[k], k)}
<1>0. Len(slots) \in Nat
  BY LiveFacts
<1>1. SUFFICES ASSUME Bad # {} PROVE FALSE
  BY <1>0
<1>2. PICK k \in Bad : \A j \in Bad : k <= j
  <2>1. Bad \in SUBSET Nat
    BY <1>0
  <2> HIDE DEF Bad
  <2> QED
    BY <1>1, <2>1, LeastElement
<1>3. k \in 0..Len(slots) /\ ~Packed(CompactedUpTo[k], k)
  OBVIOUS
<1>4. k # 0
  BY <1>0, <1>3, StartPacked, CompactedSteps
<1>5. k \in SlotIds /\ k - 1 \in 0..Len(slots) /\ ~(k <= k - 1)
  BY <1>0, <1>3, <1>4 DEF SlotIds
<1>6. Packed(CompactedUpTo[k - 1], k - 1)
  <2>1. k - 1 \notin Bad
    BY <1>2, <1>5
  <2> QED
    BY <2>1, <1>5
<1>7. CompactedUpTo[k] = PassSlot(CompactedUpTo[k - 1], k)
  BY <1>0, <1>5, CompactedSteps
<1>8. CASE slots[k].length = 0
  BY <1>3, <1>5, <1>6, <1>7, <1>8, DeadSlotPassed DEF PassSlot
<1>9. CASE slots[k].length # 0
  BY <1>3, <1>5, <1>6, <1>7, <1>9, LiveSlotPassed DEF PassSlot
<1> QED
  BY <1>8, <1>9

\* compact() moves the live records together and gives away the bytes of the
\* deleted ones; the invariant still holds of the slots that are left.
LEMMA CompactKeepsIInv ==
    ASSUME IInv, Compact
    PROVE  /\ IInv' /\ SlotIds' = SlotIds /\ inserted' = inserted
           /\ \A i \in SlotIds : slots'[i].length = slots[i].length
<1> DEFINE n == Len(slots)
           c == CompactedUpTo[n]
<1>1. Packed(c, n)
  BY CompactedIsPacked
<1>2. /\ bytes' = c.bytes /\ slots' = c.slots /\ freeOffset' = c.next
      /\ reclaimed' = reclaimed \cup Dead /\ inserted' = inserted
  BY DEF Compact
<1> HIDE DEF c
<1>3. /\ n \in Nat /\ PageSize \in Nat /\ HeaderSize \in Nat /\ SlotSize \in Nat
      /\ freeOffset \in Nat /\ freeOffset <= PageSize
      /\ c.next \in Nat /\ HeaderSize <= c.next /\ c.next <= freeOffset
  BY <1>1, LiveFacts, SizesAssumption DEF Packed, RoomPacked
<1>4. /\ slots' \in Seq([offset : Offset, length : Offset]) /\ Len(slots') = n
      /\ \A i \in SlotIds : slots'[i].length = slots[i].length
  BY <1>1, <1>2 DEF Packed, DirectoryPacked
<1>5. SlotIds' = SlotIds
  BY <1>4 DEF SlotIds
<1>6. KeptIds' = Live /\ reclaimed \subseteq Dead
  <2>1. reclaimed \subseteq Dead
    BY DEF IInv, TypeOK, Dead
  <2> QED
    BY <2>1, <1>2, <1>5 DEF KeptIds, Live
<1>7. \A i \in Live : i <= n /\ i \in SlotIds /\ slots[i].length = Len(inserted[i])
  <2>1. \A i \in SlotIds : i <= n
    BY DEF SlotIds
  <2> QED
    BY <2>1, LiveFacts
<1>8. TypeOK'
  <2>1. freeOffset' \in Offset
    BY <1>2, <1>3 DEF Offset
  <2>2. DOMAIN bytes' = Offset
    BY <1>1, <1>2 DEF Packed, BytesPacked
  <2>3. reclaimed' \subseteq SlotIds'
    BY <1>2, <1>5 DEF IInv, TypeOK, Dead
  <2> QED
    BY <2>1, <2>2, <2>3, <1>2, <1>4 DEF IInv, TypeOK
<1>9. \A i \in reclaimed' : slots'[i].length = 0
  BY <1>2, <1>4, <1>6 DEF Dead
<1>10. LayoutOK'
  <2>1. freeOffset' <= DirectoryStart(Len(slots'))
    <3>1. freeOffset <= DirectoryStart(n)
      BY DEF IInv, LayoutOK
    <3>2. n * SlotSize \in Nat
      BY <1>3
    <3> DEFINE m == n * SlotSize
    <3>3. freeOffset <= PageSize - m /\ m \in Nat
      BY <3>1, <3>2 DEF DirectoryStart
    <3> HIDE DEF m
    <3>4. c.next <= PageSize - m
      BY <3>3, <1>3
    <3> QED
      BY <3>4, <1>2, <1>4 DEF DirectoryStart, m
  <2>2. \A i \in Live : /\ HeaderSize <= slots'[i].offset
                        /\ slots'[i].offset + Len(inserted'[i]) <= freeOffset'
    BY <1>1, <1>2, <1>7 DEF Packed, RecordsPacked
  <2>3. \A i \in Live : slots'[i].length \in {0, Len(inserted'[i])}
    BY <1>2, <1>4, <1>7
  <2>4. \A i, j \in Live : i < j => slots'[i].offset + Len(inserted'[i]) <= slots'[j].offset
    BY <1>1, <1>2, <1>7 DEF Packed, RecordsPacked
  <2> QED
    BY <2>1, <2>2, <2>3, <2>4, <1>2, <1>3, <1>6 DEF LayoutOK, KeptIds
<1>11. BytesKept'
  BY <1>1, <1>2, <1>6, <1>7 DEF Packed, BytesPacked, BytesKept
<1> QED
  BY <1>2, <1>4, <1>5, <1>8, <1>9, <1>10, <1>11 DEF IInv

LEMMA NextKeepsIInv ==
    ASSUME IInv, [Next \/ Compact]_vars
    PROVE  IInv'
<1>1. CASE UNCHANGED vars
  BY <1>1 DEF vars, IInv, TypeOK, LayoutOK, BytesKept, SlotIds, KeptIds
<1>2. CASE \E r \in Record : InsertRecord(r)
  BY <1>2, InsertKeepsIInv
<1>3. ASSUME NEW i \in SlotIds, DeleteRecord(i) PROVE IInv'
  BY <1>3, LengthChangeKeepsIInv DEF DeleteRecord
<1>4. ASSUME NEW i \in SlotIds, UndeleteRecord(i) PROVE IInv'
  BY <1>4, LengthChangeKeepsIInv DEF UndeleteRecord
<1>5. CASE Compact
  BY <1>5, CompactKeepsIInv
<1> QED
  BY <1>1, <1>2, <1>3, <1>4, <1>5 DEF Next

\* The inductive invariant of the class Page, with compact().
THEOREM IInvHolds == CompactingSpec => []IInv
<1>1. Init => IInv
  BY InitIInv
<1>2. IInv /\ [Next \/ Compact]_vars => IInv'
  BY NextKeepsIInv
<1> QED
  BY <1>1, <1>2, PTL DEF CompactingSpec

\* The state of a page always has its type, whatever the sizes.
THEOREM TypeCorrect == CompactingSpec => []TypeOK
<1>1. IInv => TypeOK
  BY DEF IInv
<1> QED
  BY <1>1, IInvHolds, PTL

\* No insertion, deletion, undo or compaction lets two records, or the
\* records and the slot directory, share a byte: the room test of
\* insertRecord is enough, and compact() never copies over a live record.
THEOREM LayoutIsKept == CompactingSpec => []LayoutOK
<1>1. IInv => LayoutOK
  BY DEF IInv
<1> QED
  BY <1>1, IInvHolds, PTL

-----------------------------------------------------------------------------
(***************************************************************************)
(* The refinement.  Under the invariant readRecord is a simple function of *)
(* the slot: the record it was created with, or nothing.                   *)
(***************************************************************************)
SlotsReadBack ==
    \A i \in SlotIds : ReadRecord(i) = IF slots[i].length = 0 THEN <<>> ELSE inserted[i]

LEMMA ReadsBack == IInv => SlotsReadBack
<1> SUFFICES ASSUME IInv, NEW i \in SlotIds
             PROVE  ReadRecord(i) = IF slots[i].length = 0 THEN <<>> ELSE inserted[i]
  BY DEF SlotsReadBack
<1>1. inserted[i] \in Record /\ Len(inserted[i]) \in Nat /\ inserted[i] \in Seq(Byte)
      /\ Len(inserted[i]) >= 1
  BY ElementOfSeq, RecordIsSequence, SizesAssumption DEF IInv, TypeOK, SlotIds
<1>2. ReadRecord(i) = [k \in 1..slots[i].length |-> bytes[slots[i].offset + k - 1]]
  BY DEF ReadRecord, RecordAt
<1>3. CASE slots[i].length = 0
  <2>1. ReadRecord(i) = [k \in 1..0 |-> bytes[slots[i].offset + k - 1]]
    BY <1>2, <1>3
  <2>2. [k \in 1..0 |-> bytes[slots[i].offset + k - 1]] = <<>>
    OBVIOUS
  <2> QED
    BY <2>1, <2>2, <1>3
<1>4. CASE slots[i].length # 0
  <2>1. slots[i].length = Len(inserted[i])
    BY <1>4 DEF IInv, LayoutOK, KeptIds
  <2>2. inserted[i] = [k \in 1..Len(inserted[i]) |-> inserted[i][k]]
    BY <1>1, LenProperties
  <2>3. \A k \in 1..Len(inserted[i]) : bytes[slots[i].offset + k - 1] = inserted[i][k]
    BY <1>4 DEF IInv, BytesKept, KeptIds
  <2>4. ReadRecord(i) = inserted[i]
    BY <1>2, <2>1, <2>2, <2>3
  <2> QED
    BY <2>4, <1>4
<1> QED
  BY <1>3, <1>4

\* An insertion is a Put: the new slot reads back as the new record, and no
\* other slot reads differently.
LEMMA InsertPuts ==
    ASSUME IInv, NEW r \in Record, InsertRecord(r)
    PROVE  Store!Put(r)
<1>f. /\ Len(slots) \in Nat /\ Len(slots') = Len(slots) + 1 /\ Len(inserted') = Len(slots')
      /\ \A i \in SlotIds : slots'[i] = slots[i] /\ inserted'[i] = inserted[i]
      /\ slots'[Len(slots) + 1] = [offset |-> freeOffset, length |-> Len(r)]
      /\ inserted'[Len(slots) + 1] = r
  BY InsertFacts
<1>n. PICK new \in Nat : new = Len(slots) + 1
  BY <1>f
<1>1. IInv'
  BY InsertKeepsIInv
<1>2. SlotIds' = SlotIds \cup {new} /\ SlotIds' = 1..new /\ new \notin SlotIds
  BY <1>f, <1>n DEF SlotIds
<1>3. \A i \in SlotIds : ReadRecord(i) = IF slots[i].length = 0 THEN <<>> ELSE inserted[i]
  BY ReadsBack DEF SlotsReadBack
<1>4. \A i \in SlotIds' : ReadRecord(i)' = IF slots'[i].length = 0 THEN <<>> ELSE inserted'[i]
  <2>1. (IInv => SlotsReadBack)'
    BY ReadsBack, PTL
  <2> QED
    BY <1>1, <2>1 DEF SlotsReadBack
<1>5. ReadRecord(new)' = r
  <2>1. Len(r) # 0
    BY RecordIsSequence, SizesAssumption
  <2> QED
    BY <2>1, <1>2, <1>4, <1>f, <1>n
<1>6. \A i \in SlotIds : ReadRecord(i)' = ReadRecord(i)
  BY <1>2, <1>3, <1>4, <1>f
<1>7. Reading' = Append(Reading, r)
  <2> DEFINE S == {ReadRecord(i) : i \in SlotIds} \cup {r}
  <2>1. Reading \in Seq(S) /\ Len(Reading) = Len(slots)
        /\ \A i \in SlotIds : Reading[i] = ReadRecord(i)
    BY <1>f, <1>n DEF Reading, SlotIds
  <2>2. Reading' \in Seq(S) /\ Len(Reading') = new
        /\ \A i \in 1..new : Reading'[i] = ReadRecord(i)'
    <3>1. \A i \in 1..new : Reading'[i] = ReadRecord(i)'
      BY <1>2 DEF Reading
    <3>2. \A i \in 1..new : ReadRecord(i)' \in S
      BY <1>2, <1>5, <1>6
    <3>3. DOMAIN Reading' = 1..new /\ Reading' = [i \in DOMAIN Reading' |-> Reading'[i]]
      BY <1>2 DEF Reading
    <3> HIDE DEF S
    <3>4. Reading' \in [1..new -> S]
      BY <3>1, <3>2, <3>3
    <3> QED
      BY <3>1, <3>4
  <2>3. r \in S
    OBVIOUS
  <2> HIDE DEF S
  <2>4. Append(Reading, r) \in Seq(S) /\ Len(Append(Reading, r)) = new
        /\ \A i \in SlotIds : Append(Reading, r)[i] = ReadRecord(i)
        /\ Append(Reading, r)[new] = r
    BY <2>1, <2>3, <1>f, <1>n, AppendProperties DEF SlotIds
  <2>5. \A i \in 1..new : Reading'[i] = Append(Reading, r)[i]
    BY <2>2, <2>4, <1>2, <1>5, <1>6
  <2> QED
    BY <2>2, <2>4, <2>5, SeqEqual
<1> QED
  BY <1>7 DEF Store!Put, InsertRecord

\* A change of one length is a Remove or a Restore of that slot.
LEMMA LengthChangeReads ==
    ASSUME IInv, IInv', NEW i \in SlotIds, NEW n \in {0, Len(inserted[i])},
           slots' = [slots EXCEPT ![i].length = n],
           UNCHANGED <<freeOffset, bytes, inserted, reclaimed>>
    PROVE  Reading' = [Reading EXCEPT ![i] = IF n = 0 THEN <<>> ELSE inserted[i]]
<1>1. /\ slots \in Seq([offset : Offset, length : Offset]) /\ Len(slots) \in Nat
      /\ inserted \in Seq(Record) /\ Len(inserted) = Len(slots)
  BY LenProperties DEF IInv, TypeOK
<1>2. SlotIds' = SlotIds
  BY <1>1 DEF SlotIds
<1>3. \A j \in SlotIds : slots'[j].length = IF j = i THEN n ELSE slots[j].length
  BY <1>1, ElementOfSeq DEF SlotIds
<1>4. \A j \in SlotIds : ReadRecord(j) = IF slots[j].length = 0 THEN <<>> ELSE inserted[j]
  BY ReadsBack DEF SlotsReadBack
<1>5. \A j \in SlotIds' : ReadRecord(j)' = IF slots'[j].length = 0 THEN <<>> ELSE inserted'[j]
  <2>1. (IInv => SlotsReadBack)'
    BY ReadsBack, PTL
  <2> QED
    BY <2>1 DEF SlotsReadBack
<1>6. \A j \in SlotIds :
         ReadRecord(j)' = IF j = i THEN (IF n = 0 THEN <<>> ELSE inserted[i]) ELSE ReadRecord(j)
  BY <1>2, <1>3, <1>4, <1>5
<1> QED
  BY <1>2, <1>6 DEF Reading

\* compact() moves bytes and offsets, and no slot reads differently.
LEMMA CompactReads ==
    ASSUME IInv, Compact
    PROVE  UNCHANGED <<Reading, inserted>>
<1>1. /\ IInv' /\ SlotIds' = SlotIds /\ inserted' = inserted
      /\ \A i \in SlotIds : slots'[i].length = slots[i].length
  BY CompactKeepsIInv
<1>2. \A i \in SlotIds : ReadRecord(i) = IF slots[i].length = 0 THEN <<>> ELSE inserted[i]
  BY ReadsBack DEF SlotsReadBack
<1>3. \A i \in SlotIds' : ReadRecord(i)' = IF slots'[i].length = 0 THEN <<>> ELSE inserted'[i]
  <2>1. (IInv => SlotsReadBack)'
    BY ReadsBack, PTL
  <2> QED
    BY <1>1, <2>1 DEF SlotsReadBack
<1>4. \A i \in SlotIds : ReadRecord(i)' = ReadRecord(i)
  BY <1>1, <1>2, <1>3
<1> QED
  BY <1>1, <1>4 DEF Reading

\* Every step of the page is a step of the record store, or none.
LEMMA NextStores ==
    ASSUME IInv, [Next \/ Compact]_vars
    PROVE  [Store!Next]_<<Reading, inserted>>
<1>0. IInv'
  BY NextKeepsIInv
<1>a. Len(Reading) = Len(slots) /\ Len(slots) \in Nat
  BY LenProperties DEF Reading, SlotIds, IInv, TypeOK
<1>1. CASE UNCHANGED vars
  BY <1>1 DEF vars, Reading, SlotIds, ReadRecord, RecordAt
<1>2. CASE \E r \in Record : InsertRecord(r)
  BY <1>2, InsertPuts DEF Store!Next
<1>3. ASSUME NEW i \in SlotIds, DeleteRecord(i) PROVE Store!Next
  <2>1. Reading' = [Reading EXCEPT ![i] = <<>>]
    BY <1>0, <1>3, LengthChangeReads DEF DeleteRecord
  <2>2. Store!Remove(i)
    BY <2>1, <1>3 DEF Store!Remove, Store!Gone, DeleteRecord
  <2> QED
    BY <2>2, <1>a DEF Store!Next, SlotIds
<1>4. ASSUME NEW i \in SlotIds, UndeleteRecord(i) PROVE Store!Next
  <2>1. Len(inserted[i]) # 0
    BY ElementOfSeq, RecordIsSequence, SizesAssumption DEF IInv, TypeOK, SlotIds
  <2>2. Reading' = [Reading EXCEPT ![i] = inserted[i]]
    BY <1>0, <1>4, <2>1, LengthChangeReads DEF UndeleteRecord
  <2>3. Store!Restore(i)
    BY <2>2, <1>4 DEF Store!Restore, UndeleteRecord
  <2> QED
    BY <2>3, <1>a DEF Store!Next, SlotIds
<1>5. CASE Compact
  BY <1>5, CompactReads
<1> QED
  BY <1>1, <1>2, <1>3, <1>4, <1>5 DEF Next

\* The slotted page implements the record store: through insertions,
\* deletions, undo and compaction a slot always reads back as the record it
\* was created with, or as empty while it is deleted.
THEOREM ImplementsRecordStore == CompactingSpec => RefinesRecordStore
<1>1. Init => Store!Init
  <2> SUFFICES ASSUME Init PROVE Store!Init
    OBVIOUS
  <2>1. SlotIds = 1..0 /\ inserted = <<>>
    BY DEF Init, SlotIds
  <2>2. [i \in 1..0 |-> ReadRecord(i)] = <<>>
    OBVIOUS
  <2>3. Reading = <<>>
    BY <2>1, <2>2 DEF Reading
  <2> QED
    BY <2>1, <2>3 DEF Store!Init
<1>2. IInv /\ [Next \/ Compact]_vars => [Store!Next]_<<Reading, inserted>>
  BY NextStores
<1>3. CompactingSpec => Store!Init /\ [][Store!Next]_<<Reading, inserted>>
  BY <1>1, <1>2, IInvHolds, PTL DEF CompactingSpec
<1> QED
  BY <1>3 DEF RefinesRecordStore, Store!Spec
=============================================================================
