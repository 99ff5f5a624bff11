-------------------------- MODULE TableExecutorProofs --------------------------
(***************************************************************************)
(* Proofs about INSERT, DELETE, UPDATE and rollback on a page, for one     *)
(* client and any number of statements, reconnections and kills: what the  *)
(* data file shows is in the log, what the log says was deleted is where   *)
(* it says, but for the records of INSERTs that failed at an index;        *)
(* inserts that were reported stay, and "rollback n" gives back the rows   *)
(* of n changes ago.  With a second client none of this holds              *)
(* (TwoClients.cfg): each has a copy of the page, and all share one        *)
(* position to be logged, walData.                                         *)
(*                                                                         *)
(* For any number of clients: the types, and that a DELETE or UPDATE that  *)
(* runs to its end has changed what its WHERE clause selects.              *)
(***************************************************************************)
EXTENDS TableExecutor, FiniteFacts, TLAPS

OneClient == \A c, d \in Client : c = d

-----------------------------------------------------------------------------
(* Sequences put in a row *)

\* The recursive function of FlattenSeq exists, and its values are sequences.
Flat(seqs, n, f) == f = [i \in 1..n |-> IF i = 1 THEN seqs[i] ELSE f[i - 1] \o seqs[i]]

LEMMA FlatExists ==
    ASSUME NEW S, NEW seqs \in Seq(Seq(S)), NEW n \in 1..Len(seqs)
    PROVE  \E f \in [1..n -> Seq(S)] : Flat(seqs, n, f)
<1> DEFINE P(k) == \E f \in [1..k -> Seq(S)] : Flat(seqs, k, f)
           Bad == {k \in 1..Len(seqs) : ~P(k)}
<1>1. SUFFICES ASSUME Bad # {} PROVE FALSE
  OBVIOUS
<1>2. PICK k \in Bad : \A j \in Bad : k <= j
  <2>1. Bad \in SUBSET Nat
    OBVIOUS
  <2> HIDE DEF Bad
  <2> QED
    BY <1>1, <2>1, LeastElement
<1>3. k \in 1..Len(seqs) /\ seqs[k] \in Seq(S) /\ k \in Nat /\ Len(seqs) \in Nat
  OBVIOUS
<1>4. CASE k = 1
  <2> DEFINE f == [i \in 1..1 |-> seqs[i]]
  <2>1. f \in [1..1 -> Seq(S)] /\ Flat(seqs, 1, f)
    BY <1>3, <1>4 DEF Flat
  <2> QED
    BY <1>4, <2>1
<1>5. CASE k # 1
  <2>1. k - 1 \in 1..Len(seqs) /\ k - 1 \notin Bad
    <3>1. k - 1 \in 1..Len(seqs) /\ ~(k <= k - 1)
      BY <1>3, <1>5
    <3> QED
      BY <1>2, <3>1
  <2>2. PICK f \in [1..(k - 1) -> Seq(S)] : Flat(seqs, k - 1, f)
    BY <2>1
  <2> DEFINE g == [i \in 1..k |-> IF i = k THEN f[k - 1] \o seqs[k] ELSE f[i]]
  <2>3. g \in [1..k -> Seq(S)]
    BY <1>3, <1>5
  <2>4. ASSUME NEW i \in 1..k PROVE g[i] = IF i = 1 THEN seqs[i] ELSE g[i - 1] \o seqs[i]
    <3>1. CASE i = k
      <4>1. g[k - 1] = f[k - 1] /\ g[k] = f[k - 1] \o seqs[k]
        <5>1. k - 1 \in 1..k /\ k \in 1..k /\ k - 1 # k
          BY <1>3, <1>5
        <5> QED
          BY <5>1
      <4> HIDE DEF g
      <4> QED
        BY <1>5, <3>1, <4>1
    <3>2. CASE i # k
      <4>1. i \in 1..(k - 1) /\ g[i] = f[i]
        BY <1>3, <3>2
      <4>2. f[i] = IF i = 1 THEN seqs[i] ELSE f[i - 1] \o seqs[i]
        BY <2>2, <4>1 DEF Flat
      <4>3. i # 1 => g[i - 1] = f[i - 1]
        BY <1>3, <3>2
      <4> QED
        BY <4>1, <4>2, <4>3
    <3> QED
      BY <3>1, <3>2
  <2> HIDE DEF g
  <2>5. Flat(seqs, k, g)
    BY <2>3, <2>4 DEF Flat
  <2> QED
    BY <2>3, <2>5
<1> QED
  BY <1>4, <1>5

LEMMA FlatIsTyped ==
    ASSUME NEW S, NEW seqs \in Seq(Seq(S)), NEW f, Flat(seqs, Len(seqs), f), Len(seqs) # 0
    PROVE  f[Len(seqs)] \in Seq(S)
<1> DEFINE n == Len(seqs)
           Bad == {k \in 1..n : f[k] \notin Seq(S)}
<1>1. SUFFICES ASSUME Bad # {} PROVE FALSE
  OBVIOUS
<1>2. PICK k \in Bad : \A j \in Bad : k <= j
  <2>1. Bad \in SUBSET Nat
    OBVIOUS
  <2> HIDE DEF Bad
  <2> QED
    BY <1>1, <2>1, LeastElement
<1>3. k \in 1..n /\ seqs[k] \in Seq(S)
  OBVIOUS
<1>4. f[k] = IF k = 1 THEN seqs[k] ELSE f[k - 1] \o seqs[k]
  BY <1>3 DEF Flat
<1>5. k # 1 => k - 1 \in 1..n /\ k - 1 \notin Bad
  <2>1. SUFFICES ASSUME k # 1 PROVE k - 1 \in 1..n /\ k - 1 \notin Bad
    OBVIOUS
  <2>2. k - 1 \in 1..n /\ ~(k <= k - 1)
    BY <1>3, <2>1
  <2> QED
    BY <1>2, <2>2
<1>6. f[k] \in Seq(S)
  <2>1. CASE k = 1
    BY <1>3, <1>4, <2>1
  <2>2. CASE k # 1
    <3>1. f[k - 1] \in Seq(S) /\ f[k] = f[k - 1] \o seqs[k]
      BY <1>4, <1>5, <2>2
    <3> HIDE DEF Bad
    <3> QED
      BY <1>3, <3>1
  <2> QED
    BY <2>1, <2>2
<1> QED
  BY <1>6

LEMMA FlattenedType ==
    ASSUME NEW S, NEW seqs \in Seq(Seq(S))
    PROVE  FlattenSeq(seqs) \in Seq(S)
<1>1. CASE Len(seqs) = 0
  <2>1. FlattenSeq(seqs) = seqs /\ seqs = <<>>
    BY <1>1 DEF FlattenSeq
  <2> QED
    BY <2>1
<1>2. CASE Len(seqs) # 0
  <2> DEFINE f == CHOOSE g : Flat(seqs, Len(seqs), g)
  <2>1. FlattenSeq(seqs) = f[Len(seqs)]
    BY <1>2 DEF FlattenSeq, Flat
  <2>2. Len(seqs) \in 1..Len(seqs)
    BY <1>2
  <2>3. \E g : Flat(seqs, Len(seqs), g)
    BY <2>2, FlatExists
  <2>4. Flat(seqs, Len(seqs), f)
    BY <2>3
  <2> HIDE DEF f
  <2> QED
    BY <1>2, <2>1, <2>4, FlatIsTyped
<1> QED
  BY <1>1, <1>2

-----------------------------------------------------------------------------
(* The invariant *)

Step == {"idle", "insert_log", "insert_write", "delete_row", "delete_log", "delete_write",
         "update_row", "update_write", "update_log", "confirm", "undo", "killed"}

Task == [do : Step, rows : Seq(Row), set : Assignment \cup {NoAssignment}, where : Condition,
         todo : Seq(Change), steps : Nat]

\* A statement in progress: there is a row, or a change to be undone, to go on with.
TaskOK(t, changed) ==
    /\ t \in Task
    /\ t.do \in {"delete_row", "delete_log", "update_row", "update_write", "update_log"} => t.rows # <<>>
    /\ t.do = "undo" => t.todo # <<>>
    /\ t.do \in {"update_row", "update_write", "update_log"} =>
         t.set \in Assignment /\ (t.set.col = "id" => changed)

Types ==
    /\ disk \in PageState
    /\ \A c \in Client : cache[c] = {} \/ \E page \in PageState : cache[c] = {page}
    /\ cache \in [Client -> SUBSET PageState]
    /\ task \in [Client -> Task] /\ \A c \in Client : TaskOK(task[c], keyChanged)
    /\ wal \in Seq(Seq(Change))
    /\ walData \in [before : Position, after : Position]
    /\ acked \in Nat /\ snapshots \in Seq(Seq(Row)) /\ keyChanged \in BOOLEAN

In(page, i) == [kind |-> "in", slot |-> i, row |-> page[i].row]
Out(page, i) == [kind |-> "out", slot |-> i, row |-> page[i].row]

\* A record that an INSERT has put into the page and failed to index.
LeftOver(s) == s.from = "failed" /\ IndexThrows(s.row)

\* A client's page has the slots of the file, with the records they have
\* there.  Behind them are what failed INSERTs have left since the page was
\* last written and, last, one record more from the step that adds a record to
\* the one that writes the page.
Ahead(c) == task[c].do \in {"insert_log", "insert_write", "update_write"}
SameSlots(page, other) ==
    \A i \in 1..Len(other) : page[i].row = other[i].row /\ page[i].from = other[i].from
PageFits(c) ==
    LET page == PageOf(c)
    IN  /\ Len(disk) + (IF Ahead(c) THEN 1 ELSE 0) <= Len(page)
        /\ SameSlots(page, disk)
        /\ \A i \in 1..Len(page) : Len(disk) < i => LeftOver(page[i]) \/ (Ahead(c) /\ i = Len(page))
        /\ task[c].do \in {"insert_log", "insert_write"} => page[Len(page)].from = "insert"
        /\ task[c].do = "insert_log" => walData.after = [slot |-> Len(page), row |-> page[Len(page)].row]

\* What a page shows is in the log, but for the change that is to be logged next.
PageLogged(c) ==
    LET page == PageOf(c)
    IN  \A i \in 1..Len(page) :
          /\ page[i].from = "insert" =>
               In(page, i) \in LoggedChanges \/ (task[c].do = "insert_log" /\ i = Len(page))
          /\ page[i].status = "deleted" =>
               Out(page, i) \in LoggedChanges \/ (task[c].do = "delete_log" /\ i = walData.before.slot)

\* Whether a slot of the file has this record; of records the indexes throw at
\* nothing is said, for they may have been left over and never been written.
IsThere(slot, row) == IndexThrows(row) \/ (slot \in 1..Len(disk) /\ disk[slot].row = row)

\* The position that BeforeChange logs is that of a record in the file.
BeforeIsThere == IsThere(walData.before.slot, walData.before.row)

\* It need not be when an UPDATE has begun and found no record yet; but the
\* first row it reads is still in its place, unless the key has been changed.
BeforeKnown(c) ==
    /\ task[c].do = "delete_log" => BeforeIsThere /\ PageOf(c)[walData.before.slot].row = walData.before.row
    /\ task[c].do \in {"update_write", "update_log"} => keyChanged \/ BeforeIsThere
    /\ task[c].do = "update_row" =>
         \/ keyChanged \/ BeforeIsThere
         \/ Head(task[c].rows).id = NoValue
         \/ TargetSlot(PageOf(c), Head(task[c].rows).id) # 0

DeletionsAreThere ==
    keyChanged \/ \A ch \in LoggedChanges : ch.kind = "out" => IsThere(ch.slot, ch.row)

PageSound(c) == PageFits(c) /\ PageLogged(c) /\ BeforeKnown(c)
FileSound == InsertsAndDeletesAreLoggedAhead /\ DeletionsAreThere /\ AckedInsertsAreOnDisk

IInv == Types /\ (\A c \in Client : PageSound(c)) /\ FileSound

-----------------------------------------------------------------------------
(* Pages *)

LEMMA RowTypes ==
    /\ EmptyRow \in Row /\ EmptyRow.id = NoValue /\ Idle \in Task
    /\ \A s \in SlotState : s.row \in Row /\ s.status \in {"live", "deleted", "replaced", "undone"}
                             /\ s.from \in {"insert", "failed", "update"}
<1>1. EmptyRow \in Row /\ EmptyRow.id = NoValue
  BY DEF EmptyRow, Row
<1>2. Everywhere \in Condition /\ <<>> \in Seq(Row) /\ <<>> \in Seq(Change)
  BY DEF Condition
<1>3. Idle \in Task
  BY <1>2 DEF Idle, Task, Step
<1> QED
  BY <1>1, <1>3 DEF SlotState

LEMMA PageType ==
    ASSUME Types, NEW c \in Client
    PROVE  PageOf(c) \in PageState /\ (cache[c] = {} \/ cache[c] = {PageOf(c)})
BY DEF Types, PageOf

LEMMA NewPage ==
    ASSUME Types, NEW c \in Client, NEW page \in PageState, Cache(c, page)
    PROVE  /\ PageOf(c)' = page
           /\ cache' \in [Client -> SUBSET PageState]
           /\ \A d \in Client : cache'[d] = {} \/ \E p \in PageState : cache'[d] = {p}
<1>1. cache'[c] = {page} /\ \A d \in Client \ {c} : cache'[d] = cache[d]
  BY DEF Types, Cache
<1>2. cache' \in [Client -> SUBSET PageState]
  BY DEF Types, Cache
<1>3. PageOf(c)' = page
  BY <1>1 DEF PageOf
<1>4. \A d \in Client : cache'[d] = {} \/ \E p \in PageState : cache'[d] = {p}
  BY <1>1 DEF Types
<1> QED
  BY <1>2, <1>3, <1>4

LEMMA OldPage ==
    ASSUME Types, NEW c \in Client, UNCHANGED cache, disk' = disk \/ disk' = PageOf(c)
    PROVE  PageOf(c)' = PageOf(c)
BY DEF Types, PageOf

\* What a scan and a filter return.
LEMMA SelectedType ==
    ASSUME NEW page \in PageState, NEW where
    PROVE  /\ Rows(page) \in Seq(Row)
           /\ Selected(page, where) \in Seq(Row)
           /\ \A k \in 1..Len(Selected(page, where)) :
                \E i \in 1..Len(page) :
                   Selected(page, where)[k] = IF IsLive(page[i]) THEN page[i].row ELSE EmptyRow
<1>1. page \in Seq(SlotState) /\ DOMAIN page = 1..Len(page) /\ Len(page) \in Nat
      /\ \A i \in 1..Len(page) : page[i] \in SlotState
  BY DEF PageState
<1>2. Rows(page) \in Seq(Row)
  <2> DEFINE P == Live(page)
             live == Kept(page, P)
  <2>1. P \in SUBSET (1..Len(page))
    BY <1>1 DEF Live
  <2>2. live \in Seq(SlotState)
    <3> HIDE DEF P
    <3> QED
      BY <1>1, <2>1, KeptProperties
  <2>3. Rows(page) = [i \in DOMAIN live |-> live[i].row]
    BY DEF Rows, RowsAt
  <2> HIDE DEF live
  <2>4. DOMAIN live = 1..Len(live) /\ Len(live) \in Nat /\ \A i \in 1..Len(live) : live[i].row \in Row
    BY <2>2, RowTypes
  <2> QED
    BY <2>3, <2>4
<1> DEFINE rows == Scanned(page)
           P == {i \in DOMAIN rows : rows[i] # EmptyRow /\ rows[i][where.col] = where.is}
<1>3. /\ rows \in Seq(Row) /\ Len(rows) = Len(page) /\ DOMAIN rows = 1..Len(page)
      /\ \A i \in 1..Len(page) : rows[i] = IF IsLive(page[i]) THEN page[i].row ELSE EmptyRow
  BY <1>1, RowTypes DEF Scanned
<1>4. Selected(page, where) = IF where.col = "none" THEN rows ELSE Kept(rows, P)
  BY DEF Selected
<1>5. P \in SUBSET (1..Len(rows))
  BY <1>3
<1> HIDE DEF rows, P
<1>6. CASE where.col = "none"
  BY <1>2, <1>3, <1>4, <1>6
<1>7. CASE where.col # "none"
  <2>0. rows \in Seq(Row)
    BY <1>3
  <2>1. Kept(rows, P) \in Seq(Row) /\ Len(Kept(rows, P)) = Cardinality(P)
    BY <2>0, <1>5, KeptProperties
  <2>2. PICK at \in [1..Cardinality(P) -> P] :
          /\ \A k \in 1..Cardinality(P) : Kept(rows, P)[k] = rows[at[k]]
          /\ \A k, l \in 1..Cardinality(P) : k < l => at[k] < at[l]
          /\ \A i \in P : \E k \in 1..Cardinality(P) : at[k] = i
    BY <2>0, <1>5, KeptProperties
  <2>3. \A k \in 1..Cardinality(P) : at[k] \in 1..Len(page)
    <3>1. \A k \in 1..Cardinality(P) : at[k] \in P
      BY <2>2
    <3> QED
      BY <3>1, <1>3, <1>5
  <2> QED
    <3>1. Selected(page, where) = Kept(rows, P)
      BY <1>4, <1>7
    <3>2. \A k \in 1..Cardinality(P) :
            at[k] \in 1..Len(page)
            /\ Kept(rows, P)[k] = IF IsLive(page[at[k]]) THEN page[at[k]].row ELSE EmptyRow
      BY <1>3, <2>2, <2>3
    <3> QED
      BY <1>2, <2>1, <3>1, <3>2
<1> QED
  BY <1>6, <1>7

\* The search for an id finds a slot of the page, or none.
LEMMA TargetProperties ==
    ASSUME NEW page \in PageState, NEW x
    PROVE  /\ TargetSlot(page, x) \in 0..Len(page)
           /\ \A i \in 1..Len(page) : Finds(page[i], x) => TargetSlot(page, x) # 0
<1> DEFINE found == {i \in 1..Len(page) : Finds(page[i], x)}
<1>1. Len(page) \in Nat
  BY DEF PageState
<1>2. found # {} => \E i \in found : \A j \in found : i <= j
  <2>1. found \in SUBSET Nat
    OBVIOUS
  <2> HIDE DEF found
  <2> QED
    BY <2>1, LeastElement
<1>3. TargetSlot(page, x) = IF found = {} THEN 0 ELSE CHOOSE i \in found : \A j \in found : i <= j
  BY DEF TargetSlot
<1>4. found # {} => TargetSlot(page, x) \in found
  <2> HIDE DEF found
  <2> QED
    BY <1>2, <1>3
<1>5. found = {} => TargetSlot(page, x) = 0
  BY <1>3
<1> QED
  BY <1>1, <1>4, <1>5

\* Of the rows a scan returns the first, if it is not empty, is found by its id.
LEMMA FirstIsFound ==
    ASSUME NEW page \in PageState, NEW where, Selected(page, where) # <<>>
    PROVE  LET row == Head(Selected(page, where))
           IN  row.id = NoValue \/ TargetSlot(page, row.id) # 0
<1> DEFINE rows == Selected(page, where)
<1>1. rows \in Seq(Row)
  BY SelectedType
<1>2. 1 \in 1..Len(rows) /\ Head(rows) = rows[1]
  <2> HIDE DEF rows
  <2>1. rows # <<>>
    BY DEF rows
  <2> QED
    BY <1>1, <2>1
<1>3. PICK i \in 1..Len(page) : rows[1] = IF IsLive(page[i]) THEN page[i].row ELSE EmptyRow
  BY <1>2, SelectedType
<1> HIDE DEF rows
<1>4. CASE IsLive(page[i])
  <2>1. Finds(page[i], rows[1].id)
    BY <1>3, <1>4 DEF Finds
  <2> QED
    BY <1>2, <2>1, TargetProperties DEF rows
<1>5. CASE ~IsLive(page[i])
  BY <1>2, <1>3, <1>5, RowTypes DEF rows
<1> QED
  BY <1>4, <1>5

\* A page with one slot more, and one with another status in a slot.
LEMMA SlotAdded ==
    ASSUME NEW page \in PageState, NEW s \in SlotState
    PROVE  /\ Append(page, s) \in PageState /\ Len(Append(page, s)) = Len(page) + 1
           /\ \A i \in 1..Len(page) : Append(page, s)[i] = page[i]
           /\ Append(page, s)[Len(page) + 1] = s
<1>1. page \in Seq(SlotState) /\ Len(page) \in Nat
  BY DEF PageState
<1> QED
  BY <1>1 DEF PageState

WithStatus(page, k, status) == [page EXCEPT ![k].status = status]

LEMMA StatusChange ==
    ASSUME NEW page \in PageState, NEW k, NEW status \in {"live", "deleted", "replaced", "undone"},
           NEW q, q = WithStatus(page, k, status)
    PROVE  /\ q \in PageState /\ Len(q) = Len(page)
           /\ \A i \in 1..Len(page) :
                /\ q[i].row = page[i].row /\ q[i].from = page[i].from
                /\ q[i].status = IF i = k THEN status ELSE page[i].status
<1>1. page \in Seq(SlotState) /\ Len(page) \in Nat
  BY DEF PageState
<1>2. \A s \in SlotState : /\ [s EXCEPT !.status = status] \in SlotState
                            /\ [s EXCEPT !.status = status].row = s.row
                            /\ [s EXCEPT !.status = status].from = s.from
                            /\ [s EXCEPT !.status = status].status = status
  BY DEF SlotState
<1>3. \A i \in 1..Len(page) : page[i] \in SlotState
                              /\ q[i] = IF i = k THEN [page[i] EXCEPT !.status = status] ELSE page[i]
  BY <1>1 DEF WithStatus
<1>4. q \in Seq(SlotState) /\ Len(q) = Len(page)
  <2> DEFINE p == [page EXCEPT ![k].status = status]
  <2>1. q = p
    BY DEF WithStatus
  <2>4. DOMAIN page = 1..Len(page)
    BY <1>1
  <2>5. DOMAIN p = DOMAIN page /\ p = [i \in DOMAIN page |-> p[i]]
    BY Zenon
  <2> HIDE DEF p
  <2>2. \A i \in 1..Len(page) : p[i] \in SlotState
    BY <1>2, <1>3, <2>1
  <2>3. p \in Seq(SlotState) /\ Len(p) = Len(page)
    BY <1>1, <2>2, <2>4, <2>5
  <2> QED
    BY <2>1, <2>3
<1>5. \A i \in 1..Len(page) :
        /\ q[i].row = page[i].row /\ q[i].from = page[i].from
        /\ q[i].status = IF i = k THEN status ELSE page[i].status
  BY <1>2, <1>3
<1> QED
  BY <1>4, <1>5 DEF PageState

-----------------------------------------------------------------------------
(* The log *)

LEMMA LogGrows ==
    ASSUME wal \in Seq(Seq(Change)), NEW c, NEW changes \in Seq(Change), Log(c, changes)
    PROVE  wal' \in Seq(Seq(Change)) /\ LoggedChanges' = LoggedChanges \cup {changes[i] : i \in 1..Len(changes)}
<1>1. wal' = Append(wal, changes) /\ Len(wal) \in Nat
  BY DEF Log
<1>2. wal' \in Seq(Seq(Change)) /\ DOMAIN wal' = 1..(Len(wal) + 1) /\ DOMAIN wal = 1..Len(wal)
      /\ wal'[Len(wal) + 1] = changes /\ \A k \in 1..Len(wal) : wal'[k] = wal[k]
  BY <1>1
<1>3. ToSet(changes) = {changes[i] : i \in 1..Len(changes)}
  BY DEF ToSet
<1>4. (UNION {ToSet(wal'[k]) : k \in DOMAIN wal'}) = (UNION {ToSet(wal[k]) : k \in DOMAIN wal}) \cup ToSet(changes)
  <2> DEFINE n == Len(wal)
             new == wal'
  <2>1. DOMAIN new = 1..(n + 1) /\ DOMAIN wal = 1..n /\ n \in Nat /\ new[n + 1] = changes
        /\ \A k \in 1..n : new[k] = wal[k]
    BY <1>1, <1>2
  <2> HIDE DEF n, new
  <2>2. \A k \in DOMAIN new : k \in 1..n \/ k = n + 1
    BY <2>1
  <2>3. 1..n \subseteq DOMAIN new /\ n + 1 \in DOMAIN new
    BY <2>1
  <2>4. (UNION {ToSet(new[k]) : k \in DOMAIN new}) = (UNION {ToSet(wal[k]) : k \in DOMAIN wal}) \cup ToSet(changes)
    BY <2>1, <2>2, <2>3
  <2> QED
    BY <2>4 DEF new
<1> QED
  BY <1>2, <1>3, <1>4 DEF LoggedChanges

LEMMA LogStays ==
    ASSUME UNCHANGED wal
    PROVE  LoggedChanges' = LoggedChanges
BY DEF LoggedChanges

LEMMA OneOrTwo ==
    ASSUME NEW S, NEW a \in S, NEW b \in S
    PROVE  /\ <<a>> \in Seq(S) /\ {<<a>>[i] : i \in 1..Len(<<a>>)} = {a}
           /\ LET s == <<a>> \o <<b>>
              IN  s \in Seq(S) /\ {s[i] : i \in 1..Len(s)} = {a, b}
<1> DEFINE s == <<a>> \o <<b>>
<1>1. s \in Seq(S) /\ Len(s) = 2 /\ s[1] = a /\ s[2] = b
  OBVIOUS
<1> HIDE DEF s
<1>2. \A i : i \in 1..2 <=> i = 1 \/ i = 2
  OBVIOUS
<1>3. {s[i] : i \in 1..Len(s)} = {a, b}
  BY <1>1, <1>2
<1> DEFINE t == <<a>>
<1>4. t \in Seq(S) /\ Len(t) = 1 /\ t[1] = a
  OBVIOUS
<1> HIDE DEF t
<1>5. {t[i] : i \in 1..Len(t)} = {a}
  <2>1. \A i : i \in 1..1 <=> i = 1
    OBVIOUS
  <2> QED
    BY <1>4, <2>1
<1> QED
  BY <1>1, <1>3, <1>4, <1>5 DEF s, t

LEMMA ChangesToLog ==
    ASSUME Types
    PROVE  /\ AfterChange \in Seq(Change) /\ BeforeChange \in Seq(Change) /\ BeforeChange \o AfterChange \in Seq(Change)
           /\ LET after == [kind |-> "in", slot |-> walData.after.slot, row |-> walData.after.row]
                  gone == [kind |-> "out", slot |-> walData.before.slot, row |-> walData.before.row]
              IN  /\ {AfterChange[i] : i \in 1..Len(AfterChange)} = {after}
                  /\ {BeforeChange[i] : i \in 1..Len(BeforeChange)} = {gone}
                  /\ {(BeforeChange \o AfterChange)[i] : i \in 1..Len(BeforeChange \o AfterChange)} = {after, gone}
<1> DEFINE after == [kind |-> "in", slot |-> walData.after.slot, row |-> walData.after.row]
           gone == [kind |-> "out", slot |-> walData.before.slot, row |-> walData.before.row]
<1>1. after \in Change /\ gone \in Change
  BY DEF Types, Position, Change
<1>2. AfterChange = <<after>> /\ BeforeChange = <<gone>>
  BY DEF AfterChange, BeforeChange
<1> HIDE DEF after, gone
<1> QED
  BY <1>1, <1>2, OneOrTwo DEF after, gone

\* What rollback has to undo.
LEMMA UndoType ==
    ASSUME Types, NEW n \in Nat
    PROVE  ToUndo(n) \in Seq(Change)
<1> DEFINE count == IF n < Len(wal) THEN n ELSE Len(wal)
           records == [k \in 1..count |-> Reverse(wal[Len(wal) - k + 1])]
<1>1. ToUndo(n) = FlattenSeq(records)
  BY DEF ToUndo
<1>2. wal \in Seq(Seq(Change)) /\ Len(wal) \in Nat /\ count \in 0..Len(wal)
  BY DEF Types
<1>3. \A s \in Seq(Change) : Reverse(s) \in Seq(Change)
  BY DEF Reverse
<1>4. \A k \in 1..count : Len(wal) - k + 1 \in 1..Len(wal)
  BY <1>2
<1>5. \A k \in 1..count : Reverse(wal[Len(wal) - k + 1]) \in Seq(Change)
  <2> HIDE DEF count
  <2> QED
    BY <1>2, <1>3, <1>4
<1>6. records \in Seq(Seq(Change))
  <2> HIDE DEF count
  <2> QED
    BY <1>2, <1>5
<1> HIDE DEF records
<1> QED
  BY <1>1, <1>6, FlattenedType

-----------------------------------------------------------------------------
(* Types *)

TasksOK == task \in [Client -> Task] /\ \A c \in Client : TaskOK(task[c], keyChanged)

LEMMA TaskStep ==
    ASSUME Types, NEW c \in Client, NEW t, task' = [task EXCEPT ![c] = t],
           TaskOK(t, keyChanged'), keyChanged => keyChanged'
    PROVE  TasksOK' /\ task'[c] = t
<1>1. task \in [Client -> Task] /\ \A d \in Client : TaskOK(task[d], keyChanged)
  BY DEF Types
<1>2. t \in Task
  BY DEF TaskOK
<1>3. task' \in [Client -> Task] /\ \A d \in Client : task'[d] = IF d = c THEN t ELSE task[d]
  BY <1>1, <1>2
<1>4. \A d \in Client : TaskOK(task'[d], keyChanged')
  BY <1>1, <1>3 DEF TaskOK
<1> QED
  BY <1>3, <1>4 DEF TasksOK

LEMMA FinishTypes ==
    ASSUME Types, NEW c \in Client, Finish(c), keyChanged' = keyChanged
    PROVE  TasksOK' /\ task'[c] = Idle
<1>1. TaskOK(Idle, keyChanged')
  BY RowTypes DEF TaskOK, Idle
<1> QED
  BY <1>1, TaskStep DEF Finish

LEMMA DoTypes ==
    ASSUME Types, NEW c \in Client, NEW step \in Step \ {"delete_row", "update_row"}, Do(c, step), keyChanged' = keyChanged,
           step \in {"delete_log", "update_write", "update_log"} => task[c].rows # <<>>,
           step = "undo" => task[c].todo # <<>>,
           step \in {"update_write", "update_log"} => task[c].do \in {"update_row", "update_write"}
    PROVE  TasksOK' /\ task'[c] = [task[c] EXCEPT !.do = step]
<1> DEFINE t == [task[c] EXCEPT !.do = step]
<1>1. task[c] \in Task /\ TaskOK(task[c], keyChanged)
  BY DEF Types
<1>2. t \in Task /\ t.do = step /\ t.rows = task[c].rows /\ t.todo = task[c].todo /\ t.set = task[c].set
  BY <1>1 DEF Task
<1>3. task' = [task EXCEPT ![c] = t]
  BY DEF Do
<1> HIDE DEF t
<1>4. TaskOK(t, keyChanged')
  BY <1>1, <1>2 DEF TaskOK
<1> QED
  BY <1>3, <1>4, TaskStep DEF t

LEMMA TailType ==
    ASSUME NEW S, NEW s \in Seq(S), s # <<>>
    PROVE  Tail(s) \in Seq(S) /\ (Len(s) # 1 => Tail(s) # <<>>) /\ Head(s) \in S /\ Head(s) = s[1] /\ 1 \in 1..Len(s)
<1>1. /\ Tail(s) \in Seq(S) /\ Len(Tail(s)) = Len(s) - 1 /\ Len(s) \in Nat
      /\ Head(s) \in S /\ Head(s) = s[1] /\ 1 \in 1..Len(s)
  OBVIOUS
<1>2. \A t \in Seq(S) : t = <<>> => Len(t) = 0
  OBVIOUS
<1> QED
  BY <1>1, <1>2

LEMMA NextRowTypes ==
    ASSUME Types, NEW c \in Client, NEW step \in {"delete_row", "update_row"}, NEW whenDone \in {"delete_write", "idle"},
           NextRow(c, step, whenDone), keyChanged' = keyChanged,
           task[c].do \in {"delete_row", "delete_log", "update_log"},
           step = "update_row" => task[c].do = "update_log"
    PROVE  /\ TasksOK'
           /\ task'[c] = [task[c] EXCEPT !.rows = Tail(task[c].rows),
                                         !.do = IF Len(task[c].rows) = 1 THEN whenDone ELSE step]
<1> DEFINE next == IF Len(task[c].rows) = 1 THEN whenDone ELSE step
           t == [task[c] EXCEPT !.rows = Tail(task[c].rows), !.do = next]
<1>1. task[c] \in Task /\ TaskOK(task[c], keyChanged)
  BY DEF Types
<1>2. next \in Step /\ next \in {step, whenDone}
  BY DEF Step
<1>3. task[c].rows # <<>> /\ task[c].rows \in Seq(Row)
  BY <1>1 DEF TaskOK, Task
<1>4. Tail(task[c].rows) \in Seq(Row) /\ (Len(task[c].rows) # 1 => Tail(task[c].rows) # <<>>)
  BY <1>3, TailType
<1>5. t \in Task /\ t.do = next /\ t.rows = Tail(task[c].rows) /\ t.todo = task[c].todo /\ t.set = task[c].set
  <2> HIDE DEF next
  <2> QED
    BY <1>1, <1>2, <1>4 DEF Task
<1>6. task' = [task EXCEPT ![c] = t]
  BY DEF NextRow
<1>7. next = step => Len(task[c].rows) # 1
  OBVIOUS
<1> HIDE DEF t, next
<1>8. TaskOK(t, keyChanged')
  BY <1>1, <1>2, <1>4, <1>5, <1>7 DEF TaskOK
<1> QED
  BY <1>6, <1>8, TaskStep DEF t, next

\* What a step leaves alone, and what it may do to the rest.
LEMMA TypesKept ==
    ASSUME Types, TasksOK', disk' \in PageState, cache' \in [Client -> SUBSET PageState],
           \A d \in Client : cache'[d] = {} \/ \E p \in PageState : cache'[d] = {p},
           wal' \in Seq(Seq(Change)), walData' \in [before : Position, after : Position],
           acked' \in Nat, snapshots' \in Seq(Seq(Row)), keyChanged' \in BOOLEAN
    PROVE  Types'
BY DEF Types, TasksOK

LEMMA OnlyLogTypes ==
    ASSUME Types, TasksOK', wal' \in Seq(Seq(Change)), UNCHANGED <<disk, cache, walData, acked, keyChanged, snapshots>>
    PROVE  Types'
<1>1. /\ disk \in PageState /\ cache \in [Client -> SUBSET PageState]
      /\ \A d \in Client : cache[d] = {} \/ \E p \in PageState : cache[d] = {p}
      /\ walData \in [before : Position, after : Position]
      /\ acked \in Nat /\ snapshots \in Seq(Seq(Row)) /\ keyChanged \in BOOLEAN
  BY DEF Types
<1>2. disk' = disk /\ cache' = cache /\ walData' = walData /\ acked' = acked /\ keyChanged' = keyChanged
      /\ snapshots' = snapshots
  OBVIOUS
<1> QED
  BY <1>1, <1>2, TypesKept

LEMMA OnlyDiskTypes ==
    ASSUME Types, TasksOK', disk' \in PageState, acked' = acked \/ acked' = acked + 1,
           UNCHANGED <<cache, wal, walData, keyChanged, snapshots>>
    PROVE  Types'
<1>1. /\ cache \in [Client -> SUBSET PageState]
      /\ \A d \in Client : cache[d] = {} \/ \E p \in PageState : cache[d] = {p}
      /\ wal \in Seq(Seq(Change)) /\ walData \in [before : Position, after : Position]
      /\ acked \in Nat /\ snapshots \in Seq(Seq(Row)) /\ keyChanged \in BOOLEAN
  BY DEF Types
<1>2. cache' = cache /\ wal' = wal /\ walData' = walData /\ keyChanged' = keyChanged /\ snapshots' = snapshots
  OBVIOUS
<1>3. acked' \in Nat
  BY <1>1
<1> QED
  BY <1>1, <1>2, <1>3, TypesKept

LEMMA SnapshotType ==
    ASSUME Types, NEW c \in Client, Snapshot(c) \/ ForgetSnapshots \/ UNCHANGED snapshots
    PROVE  snapshots' \in Seq(Seq(Row))
<1>1. Rows(PageOf(c)) \in Seq(Row)
  BY PageType, SelectedType
<1>2. snapshots \in Seq(Seq(Row))
  BY DEF Types
<1>3. CASE Snapshot(c)
  <2> DEFINE rows == Rows(PageOf(c))
  <2>1. snapshots' = Append(snapshots, rows) /\ rows \in Seq(Row)
    BY <1>1, <1>3 DEF Snapshot
  <2> HIDE DEF rows
  <2> QED
    BY <1>2, <2>1
<1>4. <<>> \in Seq(Seq(Row))
  OBVIOUS
<1> QED
  BY <1>2, <1>3, <1>4 DEF ForgetSnapshots

\* An INSERT: what the three cases are.
LEMMA InsertRowCases ==
    ASSUME Types, NEW c \in Client, NEW row \in Row, InsertRow(c, row)
    PROVE  LET page == PageOf(c)
           IN  /\ task[c].do = "idle" /\ UNCHANGED <<disk, wal, acked, keyChanged>>
               /\ \/ Finish(c) /\ Cache(c, page) /\ UNCHANGED <<walData, snapshots>>
                  \/ /\ IndexThrows(row)
                     /\ Finish(c)
                     /\ Cache(c, Append(page, NewRecord(row, "failed")))
                     /\ ForgetSnapshots
                     /\ UNCHANGED walData
                  \/ /\ task' = [task EXCEPT ![c] = [Idle EXCEPT !.do = "insert_log"]]
                     /\ Cache(c, Append(page, NewRecord(row, "insert")))
                     /\ walData' = [walData EXCEPT !.after = [slot |-> Len(page) + 1, row |-> row]]
                     /\ Snapshot(c)
<1>1. UNCHANGED <<disk, wal, acked, keyChanged>>
  BY Zenon DEF InsertRow
<1>2. CASE ~HasRoom(PageOf(c))
  BY <1>1, <1>2 DEF InsertRow, Begin, Finish
<1>3. CASE HasRoom(PageOf(c)) /\ IndexThrows(row)
  BY <1>1, <1>3 DEF InsertRow, Begin, Finish
<1>4. CASE HasRoom(PageOf(c)) /\ ~IndexThrows(row)
  BY <1>1, <1>4 DEF InsertRow, Begin, Finish
<1> QED
  BY <1>2, <1>3, <1>4

LEMMA InsertRowTypes ==
    ASSUME Types, NEW c \in Client, NEW row \in Row, InsertRow(c, row)
    PROVE  Types'
<1> DEFINE page == PageOf(c)
           new(origin) == NewRecord(row, origin)
           after == [slot |-> Len(page) + 1, row |-> row]
<1>1. page \in PageState /\ Len(page) \in Nat
  BY PageType DEF PageState
<1>2. \A origin \in {"insert", "failed"} : new(origin) \in SlotState
  BY DEF NewRecord, SlotState
<1>3. after \in Position
  BY <1>1 DEF Position
<1>4. /\ UNCHANGED <<disk, wal, acked, keyChanged>>
      /\ \/ Finish(c) /\ Cache(c, page) /\ UNCHANGED <<walData, snapshots>>
         \/ Finish(c) /\ Cache(c, Append(page, new("failed"))) /\ ForgetSnapshots /\ UNCHANGED walData
         \/ /\ task' = [task EXCEPT ![c] = [Idle EXCEPT !.do = "insert_log"]]
            /\ Cache(c, Append(page, new("insert")))
            /\ walData' = [walData EXCEPT !.after = after]
            /\ Snapshot(c)
  BY InsertRowCases
<1> HIDE DEF page, new, after
<1>5. \A origin \in {"insert", "failed"} : Append(page, new(origin)) \in PageState
  BY <1>1, <1>2, SlotAdded
<1>6. walData' \in [before : Position, after : Position]
  BY <1>3, <1>4 DEF Types
<1>7. TasksOK'
  <2>1. CASE Finish(c)
    BY <1>4, <2>1, FinishTypes
  <2>2. CASE task' = [task EXCEPT ![c] = [Idle EXCEPT !.do = "insert_log"]]
    <3>1. [Idle EXCEPT !.do = "insert_log"] \in Task
      BY RowTypes DEF Task, Step
    <3>2. TaskOK([Idle EXCEPT !.do = "insert_log"], keyChanged')
      BY <3>1, RowTypes DEF TaskOK, Idle
    <3> QED
      BY <1>4, <2>2, <3>2, TaskStep
  <2> QED
    BY <1>4, <2>1, <2>2
<1>8. PICK q \in PageState : Cache(c, q)
  BY <1>1, <1>4, <1>5
<1>9. /\ cache' \in [Client -> SUBSET PageState]
      /\ \A d \in Client : cache'[d] = {} \/ \E p \in PageState : cache'[d] = {p}
  BY <1>8, NewPage
<1>10. snapshots' \in Seq(Seq(Row))
  BY <1>4, SnapshotType
<1> QED
  BY <1>4, <1>6, <1>7, <1>9, <1>10, TypesKept DEF Types

LEMMA InsertStepTypes ==
    ASSUME Types, NEW c \in Client, InsertLog(c) \/ InsertWrite(c)
    PROVE  Types'
<1>1. CASE InsertLog(c)
  <2>1. wal' \in Seq(Seq(Change))
    BY <1>1, ChangesToLog, LogGrows DEF InsertLog, Types
  <2>2. TasksOK'
    BY <1>1, DoTypes DEF InsertLog, Step
  <2>3. UNCHANGED <<disk, cache, walData, acked, keyChanged, snapshots>>
    BY <1>1 DEF InsertLog
  <2> QED
    BY <2>1, <2>2, <2>3, OnlyLogTypes
<1>2. CASE InsertWrite(c)
  <2>1. TasksOK'
    BY <1>2, FinishTypes DEF InsertWrite
  <2>2. disk' \in PageState
    BY <1>2, PageType DEF InsertWrite, WritePage
  <2>3. UNCHANGED <<cache, wal, walData, keyChanged, snapshots>> /\ acked' = acked + 1
    BY <1>2 DEF InsertWrite
  <2> QED
    BY <2>1, <2>2, <2>3, OnlyDiskTypes
<1> QED
  BY <1>1, <1>2

\* DELETE and UPDATE begin alike.
LEMMA BeginType ==
    ASSUME Types, NEW c \in Client, NEW where \in Condition, NEW set \in Assignment \cup {NoAssignment},
           NEW step \in {"delete_row", "update_row"},
           step = "update_row" => set \in Assignment /\ (set.col = "id" => keyChanged'),
           NEW begun \in Task, begun.do = step, begun.rows = Selected(PageOf(c), where), begun.set = set,
           Begin(c, IF Selected(PageOf(c), where) = <<>> \/ FilterThrows(PageOf(c), where) THEN Idle ELSE begun),
           Cache(c, PageOf(c)), UNCHANGED <<disk, wal, walData, acked, snapshots>>,
           keyChanged' \in BOOLEAN, keyChanged => keyChanged'
    PROVE  /\ Types'
           /\ LET rows == Selected(PageOf(c), where)
              IN  \/ task'[c] = Idle
                  \/ rows # <<>> /\ task'[c].do = step /\ task'[c].rows = rows
<1> DEFINE rows == Selected(PageOf(c), where)
           t == IF rows = <<>> \/ FilterThrows(PageOf(c), where) THEN Idle ELSE begun
<1>1. PageOf(c) \in PageState
  BY PageType
<1>2. rows \in Seq(Row)
  BY <1>1, SelectedType
<1>3. task' = [task EXCEPT ![c] = t]
  BY DEF Begin
<1> HIDE DEF rows
<1>4. begun \in Task /\ begun.do = step /\ begun.rows = rows /\ begun.set = set
  BY DEF rows
<1>5. TaskOK(Idle, keyChanged')
  BY RowTypes DEF TaskOK, Idle
<1>6. rows # <<>> => TaskOK(begun, keyChanged')
  BY <1>4 DEF TaskOK
<1>7. TaskOK(t, keyChanged') /\ (t = Idle \/ (t = begun /\ rows # <<>>))
  BY <1>5, <1>6 DEF rows
<1> HIDE DEF t
<1>8. TasksOK' /\ task'[c] = t
  BY <1>3, <1>7, TaskStep
<1>9. Types'
  BY <1>1, <1>8, NewPage, TypesKept DEF Types
<1> QED
  BY <1>4, <1>7, <1>8, <1>9 DEF rows

LEMMA BeginsTypes ==
    ASSUME Types, NEW c \in Client, NEW where \in Condition,
           DeleteBegin(c, where) \/ \E set \in Assignment : UpdateBegin(c, set, where)
    PROVE  /\ Types'
           /\ LET rows == Selected(PageOf(c), where)
              IN  \/ task'[c] = Idle
                  \/ rows # <<>> /\ task'[c].do \in {"delete_row", "update_row"} /\ task'[c].rows = rows
<1>1. CASE DeleteBegin(c, where)
  <2> DEFINE rows == Selected(PageOf(c), where)
             begun == [Idle EXCEPT !.do = "delete_row", !.rows = rows, !.where = where]
  <2>1. begun \in Task /\ begun.do = "delete_row" /\ begun.rows = rows /\ begun.set = NoAssignment
    <3>1. rows \in Seq(Row)
      BY PageType, SelectedType
    <3> HIDE DEF rows
    <3> QED
      BY <3>1, RowTypes DEF Task, Step, Idle
  <2>2. Begin(c, IF rows = <<>> \/ FilterThrows(PageOf(c), where) THEN Idle ELSE begun)
    BY <1>1 DEF DeleteBegin
  <2>3. UNCHANGED <<disk, wal, walData, acked, snapshots, keyChanged>> /\ Cache(c, PageOf(c))
    BY <1>1 DEF DeleteBegin
  <2>4. keyChanged \in BOOLEAN
    BY DEF Types
  <2> HIDE DEF begun
  <2> QED
    BY <2>1, <2>2, <2>3, <2>4, BeginType
<1>2. ASSUME NEW set \in Assignment, UpdateBegin(c, set, where)
      PROVE  /\ Types'
             /\ LET rows == Selected(PageOf(c), where)
                IN  \/ task'[c] = Idle
                    \/ rows # <<>> /\ task'[c].do = "update_row" /\ task'[c].rows = rows
  <2> DEFINE rows == Selected(PageOf(c), where)
             begun == [Idle EXCEPT !.do = "update_row", !.rows = rows, !.set = set, !.where = where]
  <2>1. Begin(c, IF rows = <<>> \/ FilterThrows(PageOf(c), where) THEN Idle ELSE begun)
    BY <1>2 DEF UpdateBegin
  <2>4. begun \in Task /\ begun.do = "update_row" /\ begun.rows = rows /\ begun.set = set
    <3>1. rows \in Seq(Row)
      BY PageType, SelectedType
    <3> HIDE DEF rows
    <3> QED
      BY <3>1, RowTypes DEF Task, Step, Idle
  <2>2. UNCHANGED <<disk, wal, walData, acked, snapshots>> /\ Cache(c, PageOf(c))
        /\ keyChanged' = (keyChanged \/ set.col = "id")
    BY <1>2 DEF UpdateBegin
  <2>3. keyChanged' \in BOOLEAN /\ (keyChanged => keyChanged') /\ (set.col = "id" => keyChanged')
    BY <2>2 DEF Types
  <2> HIDE DEF begun
  <2> QED
    BY <2>1, <2>2, <2>3, <2>4, BeginType
<1> QED
  BY <1>1, <1>2

\* A row of a DELETE: what the three cases are.
LEMMA DeleteRowCases ==
    ASSUME Types, NEW c \in Client, DeleteRow(c)
    PROVE  LET page == PageOf(c)
               row == Head(task[c].rows)
               target == TargetSlot(page, row.id)
               q == [page EXCEPT ![target].status = "deleted"]
           IN  /\ task[c].do = "delete_row" /\ task[c].rows # <<>>
               /\ UNCHANGED <<disk, wal, acked, keyChanged>>
               /\ \/ Finish(c) /\ UNCHANGED <<cache, walData, snapshots>>
                  \/ NextRow(c, "delete_row", "delete_write") /\ UNCHANGED <<cache, walData, snapshots>>
                  \/ /\ target \in 1..Len(page)
                     /\ q \in PageState
                     /\ Cache(c, q)
                     /\ walData' = [walData EXCEPT !.before = [slot |-> target, row |-> page[target].row]]
                     /\ Snapshot(c)
                     /\ Do(c, "delete_log")
<1> DEFINE page == PageOf(c)
           row == Head(task[c].rows)
           target == TargetSlot(page, row.id)
           q == [page EXCEPT ![target].status = "deleted"]
<1>1. page \in PageState /\ target \in 0..Len(page) /\ Len(page) \in Nat
  BY PageType, TargetProperties DEF PageState
<1>2. q \in PageState
  <2>1. q = WithStatus(page, target, "deleted")
    BY DEF WithStatus
  <2> HIDE DEF page, target, q
  <2> QED
    BY <1>1, <2>1, StatusChange
<1>3. task[c].do = "delete_row" /\ UNCHANGED <<disk, wal, acked, keyChanged>>
  BY Zenon DEF DeleteRow
<1>4. task[c].rows # <<>>
  BY <1>3 DEF Types, TaskOK
<1>5. \/ Finish(c) /\ UNCHANGED <<cache, walData, snapshots>>
      \/ NextRow(c, "delete_row", "delete_write") /\ UNCHANGED <<cache, walData, snapshots>>
      \/ /\ target # 0
         /\ Cache(c, q)
         /\ walData' = [walData EXCEPT !.before = [slot |-> target, row |-> page[target].row]]
         /\ Snapshot(c)
         /\ Do(c, "delete_log")
  BY DEF DeleteRow
<1> HIDE DEF page, row, target, q
<1>6. target # 0 => target \in 1..Len(page)
  BY <1>1
<1> QED
  BY <1>2, <1>3, <1>4, <1>5, <1>6 DEF page, row, target, q

LEMMA DeleteTypes ==
    ASSUME Types, NEW c \in Client, DeleteRow(c) \/ DeleteLog(c) \/ DeleteWrite(c)
    PROVE  Types'
<1>1. CASE DeleteRow(c)
  <2> DEFINE page == PageOf(c)
             row == Head(task[c].rows)
             target == TargetSlot(page, row.id)
             q == [page EXCEPT ![target].status = "deleted"]
  <2>1. task[c].do = "delete_row" /\ task[c].rows # <<>> /\ UNCHANGED <<disk, wal, acked, keyChanged>>
    BY <1>1, DeleteRowCases
  <2>2. CASE Finish(c) /\ UNCHANGED <<cache, walData, snapshots>>
    BY <2>1, <2>2, FinishTypes, TypesKept DEF Types
  <2>3. CASE NextRow(c, "delete_row", "delete_write") /\ UNCHANGED <<cache, walData, snapshots>>
    BY <2>1, <2>3, NextRowTypes, TypesKept DEF Types
  <2>4. CASE /\ target \in 1..Len(page) /\ q \in PageState /\ Cache(c, q)
             /\ walData' = [walData EXCEPT !.before = [slot |-> target, row |-> page[target].row]]
             /\ Snapshot(c) /\ Do(c, "delete_log")
    <3>1. TasksOK'
      BY <2>1, <2>4, DoTypes DEF Step
    <3>2. walData' \in [before : Position, after : Position]
      <4> DEFINE old == [slot |-> target, row |-> page[target].row]
      <4>1. page[target] \in SlotState /\ target \in Nat
        <5>1. page \in PageState
          BY PageType
        <5>2. target \in 1..Len(page)
          BY <2>4
        <5> HIDE DEF page, target
        <5> QED
          BY <5>1, <5>2 DEF PageState
      <4>2. old \in Position
        <5>1. page[target].row \in Row
          BY <4>1, RowTypes
        <5> HIDE DEF page, target
        <5> QED
          BY <5>1, <4>1 DEF Position
      <4> HIDE DEF old
      <4> QED
        BY <2>4, <4>2 DEF Types, old
    <3> HIDE DEF q, target, page
    <3>3. /\ cache' \in [Client -> SUBSET PageState]
          /\ \A d \in Client : cache'[d] = {} \/ \E p \in PageState : cache'[d] = {p}
      BY <2>4, NewPage
    <3> QED
      BY <2>1, <2>4, <3>1, <3>2, <3>3, SnapshotType, TypesKept DEF Types
  <2> QED
    BY <1>1, <2>2, <2>3, <2>4, DeleteRowCases
<1>2. CASE DeleteLog(c)
  <2>1. UNCHANGED <<disk, cache, walData, acked, keyChanged, snapshots>>
    BY <1>2 DEF DeleteLog
  <2>2. wal' \in Seq(Seq(Change))
    BY <1>2, ChangesToLog, LogGrows DEF DeleteLog, Types
  <2>3. TasksOK'
    BY <1>2, <2>1, NextRowTypes DEF DeleteLog
  <2> QED
    BY <2>1, <2>2, <2>3, OnlyLogTypes
<1>3. CASE DeleteWrite(c)
  <2>1. UNCHANGED <<cache, wal, walData, acked, keyChanged, snapshots>>
    BY <1>3 DEF DeleteWrite
  <2>2. disk' \in PageState
    BY <1>3, PageType DEF DeleteWrite, WritePage
  <2>3. TasksOK'
    BY <1>3, <2>1, FinishTypes DEF DeleteWrite
  <2> QED
    BY <2>1, <2>2, <2>3, TypesKept DEF Types
<1> QED
  BY <1>1, <1>2, <1>3

\* A row of an UPDATE: what the three cases are.
UpdatedRow(c) == [Head(task[c].rows) EXCEPT ![task[c].set.col] = task[c].set.to]
UpdateTarget(c) == TargetSlot(PageOf(c), UpdatedRow(c).id)
UpdateRest(c) ==
    IF UpdateTarget(c) = 0 THEN PageOf(c) ELSE [PageOf(c) EXCEPT ![UpdateTarget(c)].status = "replaced"]
UpdateOld(c) ==
    IF UpdateTarget(c) = 0 THEN walData.before
    ELSE [slot |-> UpdateTarget(c), row |-> PageOf(c)[UpdateTarget(c)].row]

LEMMA UpdateRowCases ==
    ASSUME Types, NEW c \in Client, UpdateRow(c)
    PROVE  /\ task[c].do = "update_row" /\ task[c].rows # <<>>
           /\ UNCHANGED <<disk, wal, acked, keyChanged>>
           /\ \/ Finish(c) /\ UNCHANGED <<cache, walData, snapshots>>
              \/ /\ UpdatedRow(c).id # NoValue
                 /\ Cache(c, UpdateRest(c))
                 /\ walData' = [walData EXCEPT !.before = UpdateOld(c)]
                 /\ ForgetSnapshots
                 /\ Finish(c)
              \/ /\ UpdatedRow(c).id # NoValue
                 /\ Cache(c, Append(UpdateRest(c), NewRecord(UpdatedRow(c), "update")))
                 /\ walData' = [before |-> UpdateOld(c),
                                after |-> [slot |-> Len(PageOf(c)) + 1, row |-> UpdatedRow(c)]]
                 /\ Snapshot(c)
                 /\ Do(c, "update_write")
<1>1. task[c].do = "update_row" /\ UNCHANGED <<disk, wal, acked, keyChanged>>
  BY Zenon DEF UpdateRow
<1>2. task[c].rows # <<>>
  BY <1>1 DEF Types, TaskOK
<1>3. \/ Finish(c) /\ UNCHANGED <<cache, walData, snapshots>>
      \/ /\ UpdatedRow(c).id # NoValue
         /\ Cache(c, UpdateRest(c))
         /\ walData' = [walData EXCEPT !.before = UpdateOld(c)]
         /\ ForgetSnapshots
         /\ Finish(c)
      \/ /\ UpdatedRow(c).id # NoValue
         /\ Cache(c, Append(UpdateRest(c), NewRecord(UpdatedRow(c), "update")))
         /\ walData' = [before |-> UpdateOld(c),
                        after |-> [slot |-> Len(PageOf(c)) + 1, row |-> UpdatedRow(c)]]
         /\ Snapshot(c)
         /\ Do(c, "update_write")
  BY Zenon DEF UpdateRow, UpdatedRow, UpdateTarget, UpdateRest, UpdateOld
<1> QED
  BY <1>1, <1>2, <1>3

LEMMA UpdatePieces ==
    ASSUME Types, NEW c \in Client, task[c].do = "update_row"
    PROVE  /\ UpdatedRow(c) \in Row
           /\ task[c].set.col \in {"id", "val"}
           /\ task[c].set.col = "val" => UpdatedRow(c).id = Head(task[c].rows).id
           /\ task[c].set.col = "id" => keyChanged
           /\ UpdateTarget(c) \in 0..Len(PageOf(c))
           /\ UpdateRest(c) \in PageState /\ Len(UpdateRest(c)) = Len(PageOf(c))
           /\ \A i \in 1..Len(PageOf(c)) :
                /\ UpdateRest(c)[i].row = PageOf(c)[i].row /\ UpdateRest(c)[i].from = PageOf(c)[i].from
                /\ UpdateRest(c)[i].status \in {PageOf(c)[i].status, "replaced"}
           /\ UpdateOld(c) \in Position
           /\ NewRecord(UpdatedRow(c), "update") \in SlotState
           /\ [slot |-> Len(PageOf(c)) + 1, row |-> UpdatedRow(c)] \in Position
<1> DEFINE page == PageOf(c)
           set == task[c].set
           first == Head(task[c].rows)
           target == UpdateTarget(c)
<1>1. page \in PageState /\ Len(page) \in Nat /\ \A i \in 1..Len(page) : page[i] \in SlotState
  BY PageType DEF PageState
<1>2. task[c] \in Task /\ TaskOK(task[c], keyChanged)
  BY DEF Types
<1>3. set \in Assignment /\ (set.col = "id" => keyChanged) /\ task[c].rows \in Seq(Row) /\ task[c].rows # <<>>
  BY <1>2 DEF TaskOK, Task
<1>4. first \in Row
  <2> DEFINE s == task[c].rows
  <2>1. s \in Seq(Row) /\ s # <<>>
    BY <1>3
  <2> HIDE DEF s
  <2>2. Head(s) \in Row
    BY <2>1, TailType
  <2> QED
    BY <2>2 DEF s
<1>5. (set.col = "id" /\ set.to \in Id) \/ (set.col = "val" /\ set.to \in Val)
  BY <1>3 DEF Assignment
<1>6. UpdatedRow(c) = [first EXCEPT ![set.col] = set.to]
  BY DEF UpdatedRow
<1> HIDE DEF first, set
<1>7. UpdatedRow(c) \in Row /\ (set.col = "val" => UpdatedRow(c).id = first.id)
  <2>1. CASE set.col = "id" /\ set.to \in Id
    BY <1>4, <1>6, <2>1 DEF Row
  <2>2. CASE set.col = "val" /\ set.to \in Val
    BY <1>4, <1>6, <2>2 DEF Row
  <2> QED
    BY <1>5, <2>1, <2>2
<1>8. target \in 0..Len(page)
  BY <1>1, TargetProperties DEF UpdateTarget
<1>9. UpdateRest(c) = IF target = 0 THEN page ELSE [page EXCEPT ![target].status = "replaced"]
  BY DEF UpdateRest
<1>10. UpdateOld(c) = IF target = 0 THEN walData.before ELSE [slot |-> target, row |-> page[target].row]
  BY DEF UpdateOld
<1> HIDE DEF target, page
<1>11. /\ UpdateRest(c) \in PageState /\ Len(UpdateRest(c)) = Len(page)
       /\ \A i \in 1..Len(page) :
            /\ UpdateRest(c)[i].row = page[i].row /\ UpdateRest(c)[i].from = page[i].from
            /\ UpdateRest(c)[i].status \in {page[i].status, "replaced"}
  <2>1. CASE target = 0
    BY <1>1, <1>9, <2>1
  <2>2. CASE target # 0
    <3> DEFINE q == WithStatus(page, target, "replaced")
    <3>1. /\ q \in PageState /\ Len(q) = Len(page)
          /\ \A i \in 1..Len(page) :
               /\ q[i].row = page[i].row /\ q[i].from = page[i].from
               /\ q[i].status = IF i = target THEN "replaced" ELSE page[i].status
      BY <1>1, StatusChange
    <3>2. UpdateRest(c) = q
      BY <1>9, <2>2 DEF WithStatus
    <3> HIDE DEF q
    <3> QED
      BY <3>1, <3>2
  <2> QED
    BY <2>1, <2>2
<1>12. UpdateOld(c) \in Position
  <2>1. walData.before \in Position
    BY DEF Types
  <2>2. target # 0 => target \in Nat /\ page[target].row \in Row
    BY <1>1, <1>8, RowTypes
  <2> QED
    BY <1>10, <2>1, <2>2 DEF Position
<1>13. NewRecord(UpdatedRow(c), "update") \in SlotState
  BY <1>7 DEF NewRecord, SlotState
<1>14. [slot |-> Len(page) + 1, row |-> UpdatedRow(c)] \in Position
  BY <1>1, <1>7 DEF Position
<1> QED
  BY <1>3, <1>5, <1>7, <1>8, <1>11, <1>12, <1>13, <1>14 DEF page, target, first, set

LEMMA UpdateTypes ==
    ASSUME Types, NEW c \in Client, UpdateRow(c) \/ UpdateWrite(c) \/ UpdateLog(c)
    PROVE  Types'
<1>1. CASE UpdateRow(c)
  <2> DEFINE rest == UpdateRest(c)
             new == NewRecord(UpdatedRow(c), "update")
             after == [slot |-> Len(PageOf(c)) + 1, row |-> UpdatedRow(c)]
  <2>1. task[c].do = "update_row" /\ task[c].rows # <<>> /\ UNCHANGED <<disk, wal, acked, keyChanged>>
    BY <1>1, UpdateRowCases
  <2>2. rest \in PageState /\ UpdateOld(c) \in Position /\ new \in SlotState /\ after \in Position
    BY <2>1, UpdatePieces
  <2>3. \/ Finish(c) /\ UNCHANGED <<cache, walData, snapshots>>
        \/ /\ Cache(c, rest) /\ walData' = [walData EXCEPT !.before = UpdateOld(c)]
           /\ ForgetSnapshots /\ Finish(c)
        \/ /\ Cache(c, Append(rest, new)) /\ walData' = [before |-> UpdateOld(c), after |-> after]
           /\ Snapshot(c) /\ Do(c, "update_write")
    BY <1>1, UpdateRowCases
  <2> HIDE DEF rest, new, after
  <2>4. CASE Finish(c) /\ UNCHANGED <<cache, walData, snapshots>>
    BY <2>1, <2>4, FinishTypes, TypesKept DEF Types
  <2>5. CASE /\ Cache(c, rest) /\ walData' = [walData EXCEPT !.before = UpdateOld(c)]
             /\ ForgetSnapshots /\ Finish(c)
    <3>1. walData' \in [before : Position, after : Position]
      BY <2>2, <2>5 DEF Types
    <3> QED
      BY <2>1, <2>2, <2>5, <3>1, FinishTypes, NewPage, SnapshotType, TypesKept DEF Types
  <2>6. CASE /\ Cache(c, Append(rest, new)) /\ walData' = [before |-> UpdateOld(c), after |-> after]
             /\ Snapshot(c) /\ Do(c, "update_write")
    <3>1. walData' \in [before : Position, after : Position]
      BY <2>2, <2>6
    <3>2. Append(rest, new) \in PageState
      BY <2>2, SlotAdded
    <3>3. TasksOK'
      BY <2>1, <2>6, DoTypes DEF Step
    <3> QED
      BY <2>1, <2>6, <3>1, <3>2, <3>3, NewPage, SnapshotType, TypesKept DEF Types
  <2> QED
    BY <2>3, <2>4, <2>5, <2>6
<1>2. CASE UpdateWrite(c)
  <2>1. UNCHANGED <<cache, wal, walData, acked, keyChanged, snapshots>>
    BY <1>2 DEF UpdateWrite
  <2>2. disk' \in PageState
    BY <1>2, PageType DEF UpdateWrite, WritePage
  <2>3. task[c].do = "update_write" /\ Do(c, "update_log") /\ task[c].rows # <<>>
    BY <1>2 DEF UpdateWrite, Types, TaskOK
  <2>4. TasksOK'
    BY <2>1, <2>3, DoTypes DEF Step
  <2> QED
    BY <2>1, <2>2, <2>4, OnlyDiskTypes
<1>3. CASE UpdateLog(c)
  <2>1. UNCHANGED <<disk, cache, walData, acked, keyChanged, snapshots>> /\ task[c].do = "update_log"
    BY <1>3 DEF UpdateLog
  <2>2. wal' \in Seq(Seq(Change))
    BY <1>3, ChangesToLog, LogGrows DEF UpdateLog, Types
  <2>3. Finish(c) \/ NextRow(c, "update_row", "idle")
    BY <1>3 DEF UpdateLog
  <2>4. TasksOK'
    BY <2>1, <2>3, FinishTypes, NextRowTypes
  <2> QED
    BY <2>1, <2>2, <2>4, OnlyLogTypes
<1> QED
  BY <1>1, <1>2, <1>3

\* One change undone: a status in a slot.
LEMMA UndoneProperties ==
    ASSUME NEW page \in PageState, NEW ch
    PROVE  /\ Undone(page, ch) \in PageState /\ Len(Undone(page, ch)) = Len(page)
           /\ \A i \in 1..Len(page) :
                /\ Undone(page, ch)[i].row = page[i].row /\ Undone(page, ch)[i].from = page[i].from
                /\ Undone(page, ch)[i].status \in {page[i].status, "live", "undone"}
<1> DEFINE q == Undone(page, ch)
           status == IF ch.kind = "out" /\ ch.row # EmptyRow THEN "live" ELSE "undone"
<1>2. status \in {"live", "undone"} /\ status \in {"live", "deleted", "replaced", "undone"}
  OBVIOUS
<1> DEFINE k == ch.slot
<1>1. q = WithStatus(page, k, status)
  BY DEF Undone, WithStatus
<1> HIDE DEF q, status, k
<1>3. /\ q \in PageState /\ Len(q) = Len(page)
      /\ \A i \in 1..Len(page) :
           /\ q[i].row = page[i].row /\ q[i].from = page[i].from
           /\ q[i].status = IF i = k THEN status ELSE page[i].status
  BY <1>1, <1>2, StatusChange
<1> QED
  BY <1>2, <1>3 DEF q

LEMMA UndoOneParts ==
    ASSUME Types, NEW c \in Client, UndoOne(c)
    PROVE  LET page == Undone(PageOf(c), Head(task[c].todo))
           IN  /\ task[c].do = "undo" /\ Head(task[c].todo).slot <= Len(PageOf(c))
               /\ Cache(c, page) /\ disk' = page
               /\ \/ Finish(c) /\ ForgetSnapshots
                  \/ /\ Len(task[c].todo) # 1 /\ task' = [task EXCEPT ![c].todo = Tail(@)]
                     /\ UNCHANGED snapshots
               /\ UNCHANGED <<wal, walData, acked, keyChanged>>
BY DEF UndoOne

LEMMA RollbackTypes ==
    ASSUME Types, NEW c \in Client,
           \/ \E n \in 1..MaxUndo : RollbackAsk(c, n)
           \/ RollbackConfirm(c) \/ UndoOne(c) \/ UndoThrows(c)
    PROVE  Types'
<1>1. ASSUME NEW n \in 1..MaxUndo, RollbackAsk(c, n)
      PROVE  Types'
  <2> DEFINE t == [Idle EXCEPT !.do = "confirm", !.todo = ToUndo(n), !.steps = n]
  <2>1. n \in Nat /\ ToUndo(n) \in Seq(Change)
    BY UndoType
  <2>2. t \in Task /\ t.do = "confirm"
    BY <2>1, RowTypes DEF Task, Step, Idle
  <2>3. task' = [task EXCEPT ![c] = t] /\ UNCHANGED <<disk, cache, wal, walData, acked, keyChanged, snapshots>>
    BY <1>1 DEF RollbackAsk, Begin
  <2> HIDE DEF t
  <2>4. TaskOK(t, keyChanged')
    BY <2>2 DEF TaskOK
  <2>5. TasksOK'
    BY <2>3, <2>4, TaskStep
  <2>6. wal' \in Seq(Seq(Change))
    BY <2>3 DEF Types
  <2> QED
    BY <2>3, <2>5, <2>6, OnlyLogTypes
<1>2. CASE RollbackConfirm(c)
  <2>1. UNCHANGED <<disk, cache, wal, walData, acked, keyChanged, snapshots>>
        /\ (Finish(c) \/ (Do(c, "undo") /\ task[c].todo # <<>>))
    BY <1>2 DEF RollbackConfirm
  <2>2. TasksOK'
    BY <2>1, FinishTypes, DoTypes DEF Step
  <2>3. wal' \in Seq(Seq(Change))
    BY <2>1 DEF Types
  <2> QED
    BY <2>1, <2>2, <2>3, OnlyLogTypes
<1>3. CASE UndoOne(c)
  <2> DEFINE page == Undone(PageOf(c), Head(task[c].todo))
  <2>1. page \in PageState
    BY PageType, UndoneProperties
  <2>2. Cache(c, page) /\ disk' = page /\ UNCHANGED <<wal, walData, acked, keyChanged>> /\ task[c].do = "undo"
    BY <1>3, UndoOneParts
  <2>3. TasksOK'
    <3>1. CASE Finish(c)
      BY <2>2, <3>1, FinishTypes
    <3>2. CASE Len(task[c].todo) # 1 /\ task' = [task EXCEPT ![c].todo = Tail(@)]
      <4> DEFINE todo == Tail(task[c].todo)
                 t == [task[c] EXCEPT !.todo = todo]
      <4>1. task[c] \in Task /\ TaskOK(task[c], keyChanged)
        BY DEF Types
      <4>2. task[c].todo \in Seq(Change) /\ task[c].todo # <<>>
        BY <2>2, <4>1 DEF TaskOK, Task
      <4>3. todo \in Seq(Change) /\ todo # <<>>
        BY <3>2, <4>2, TailType
      <4>4. task' = [task EXCEPT ![c] = t]
        BY <3>2
      <4> HIDE DEF todo
      <4>5. t \in Task /\ t.do = task[c].do /\ t.todo = todo
        BY <4>1, <4>3 DEF Task
      <4> HIDE DEF t
      <4>6. TaskOK(t, keyChanged')
        BY <2>2, <4>3, <4>5 DEF TaskOK
      <4> QED
        BY <2>2, <4>4, <4>6, TaskStep
    <3> QED
      BY <1>3, <3>1, <3>2, UndoOneParts
  <2>4. ForgetSnapshots \/ UNCHANGED snapshots
    BY <1>3, UndoOneParts
  <2> HIDE DEF page
  <2> QED
    BY <2>1, <2>2, <2>3, <2>4, NewPage, SnapshotType, TypesKept DEF Types
<1>4. CASE UndoThrows(c)
  <2>1. UNCHANGED <<disk, cache, wal, walData, acked, keyChanged, snapshots>>
        /\ task' = [d \in Client |-> [Idle EXCEPT !.do = "killed"]]
    BY <1>4 DEF UndoThrows
  <2>2. TaskOK([Idle EXCEPT !.do = "killed"], keyChanged') /\ [Idle EXCEPT !.do = "killed"] \in Task
    <3>1. [Idle EXCEPT !.do = "killed"] \in Task
      BY RowTypes DEF Task, Step
    <3> QED
      BY <3>1, RowTypes DEF TaskOK, Idle
  <2> DEFINE killed == [Idle EXCEPT !.do = "killed"]
  <2>5. TaskOK(killed, keyChanged') /\ killed \in Task /\ task' = [d \in Client |-> killed]
    BY <2>1, <2>2
  <2> HIDE DEF killed
  <2>3. TasksOK'
    BY <2>5 DEF TasksOK
  <2>4. wal' \in Seq(Seq(Change))
    BY <2>1 DEF Types
  <2> QED
    BY <2>1, <2>3, <2>4, OnlyLogTypes
<1> QED
  BY <1>1, <1>2, <1>3, <1>4

LEMMA LeaveTypes ==
    ASSUME Types, CrashAndRestart \/ \E c \in Client : Reconnect(c)
    PROVE  Types' /\ UNCHANGED <<disk, wal, acked, keyChanged>>
<1>1. <<>> \in Seq(Seq(Row))
  OBVIOUS
<1>2. NothingLogged \in [before : Position, after : Position]
  BY RowTypes DEF NothingLogged, NoPosition, Position
<1>3. CASE CrashAndRestart
  <2>1. /\ cache' = [c \in Client |-> {}] /\ task' = [c \in Client |-> Idle] /\ walData' = NothingLogged
        /\ snapshots' = <<>> /\ UNCHANGED <<disk, wal, acked, keyChanged>>
    BY <1>3 DEF CrashAndRestart, ForgetSnapshots
  <2>2. TaskOK(Idle, keyChanged')
    BY RowTypes DEF TaskOK, Idle
  <2>3. TasksOK'
    BY <2>1, <2>2, RowTypes DEF TasksOK
  <2> QED
    BY <1>1, <1>2, <2>1, <2>3, TypesKept DEF Types
<1>4. ASSUME NEW c \in Client, Reconnect(c)
      PROVE  Types' /\ UNCHANGED <<disk, wal, acked, keyChanged>>
  <2>1. /\ cache' = [cache EXCEPT ![c] = {}] /\ snapshots' = <<>>
        /\ UNCHANGED <<disk, wal, walData, task, acked, keyChanged>>
    BY <1>4 DEF Reconnect, ForgetSnapshots
  <2>2. TasksOK'
    BY <2>1 DEF TasksOK, Types
  <2>3. /\ cache' \in [Client -> SUBSET PageState]
        /\ \A d \in Client : cache'[d] = {} \/ \E p \in PageState : cache'[d] = {p}
    BY <2>1 DEF Types
  <2> QED
    BY <1>1, <2>1, <2>2, <2>3, TypesKept DEF Types
<1> QED
  BY <1>3, <1>4

-----------------------------------------------------------------------------
(* Steps that leave the data file and the log alone *)

LEMMA FileKept ==
    ASSUME FileSound, UNCHANGED <<disk, wal, acked>>, keyChanged => keyChanged'
    PROVE  FileSound' /\ LoggedChanges' = LoggedChanges
<1>1. LoggedChanges' = LoggedChanges
  BY LogStays
<1> QED
  BY <1>1 DEF FileSound, InsertsAndDeletesAreLoggedAhead, DeletionsAreThere, IsThere, AckedInsertsAreOnDisk

\* The page does not change, and nothing waits to be logged or written.
Waiting == {"insert_log", "insert_write", "delete_log", "update_write", "update_log"}

LEMMA Quiet ==
    ASSUME IInv, NEW c \in Client, UNCHANGED <<disk, wal, walData, acked>>, keyChanged => keyChanged',
           PageOf(c)' = PageOf(c), task[c].do \notin Waiting, task'[c].do \notin Waiting,
           task'[c].do = "update_row" =>
              Head(task'[c].rows).id = NoValue \/ TargetSlot(PageOf(c), Head(task'[c].rows).id) # 0
    PROVE  PageSound(c)' /\ FileSound'
<1>1. FileSound' /\ LoggedChanges' = LoggedChanges
  BY FileKept DEF IInv
<1>2. PageFits(c)'
  BY DEF IInv, PageSound, PageFits, SameSlots, Ahead, Waiting
<1>3. PageLogged(c)'
  BY <1>1 DEF IInv, PageSound, PageLogged, In, Out, Waiting
<1>4. BeforeKnown(c)'
  BY DEF BeforeKnown, Waiting
<1> QED
  BY <1>1, <1>2, <1>3, <1>4 DEF PageSound

LEMMA SameLength ==
    ASSUME IInv, NEW c \in Client
    PROVE  /\ Types /\ PageOf(c) \in PageState /\ Len(PageOf(c)) \in Nat /\ Len(disk) \in Nat
           /\ Len(disk) <= Len(PageOf(c))
           /\ Ahead(c) => Len(disk) < Len(PageOf(c))
           /\ \A i \in 1..Len(disk) : PageOf(c)[i].row = disk[i].row /\ PageOf(c)[i].from = disk[i].from
           /\ \A i \in 1..Len(PageOf(c)) :
                Len(disk) < i => LeftOver(PageOf(c)[i]) \/ (Ahead(c) /\ i = Len(PageOf(c)))
<1>1. Types /\ PageFits(c)
  BY DEF IInv, PageSound
<1>2. PageOf(c) \in PageState /\ disk \in PageState
  BY <1>1, PageType DEF Types
<1>3. Len(PageOf(c)) \in Nat /\ Len(disk) \in Nat
  BY <1>2 DEF PageState
<1>4. /\ Len(disk) + (IF Ahead(c) THEN 1 ELSE 0) <= Len(PageOf(c))
      /\ \A i \in 1..Len(disk) : PageOf(c)[i].row = disk[i].row /\ PageOf(c)[i].from = disk[i].from
      /\ \A i \in 1..Len(PageOf(c)) :
           Len(disk) < i => LeftOver(PageOf(c)[i]) \/ (Ahead(c) /\ i = Len(PageOf(c)))
  BY <1>1 DEF PageFits, SameSlots
<1>5. Len(disk) <= Len(PageOf(c)) /\ (Ahead(c) => Len(disk) < Len(PageOf(c)))
  BY <1>3, <1>4
<1> QED
  BY <1>1, <1>2, <1>3, <1>4, <1>5

\* Every record of a client's page is in the file, if no new one waits to be
\* written there, or is left over.
LEMMA PageIsThere ==
    ASSUME IInv, NEW c \in Client, ~Ahead(c), NEW i \in 1..Len(PageOf(c))
    PROVE  IsThere(i, PageOf(c)[i].row)
<1>1. Len(PageOf(c)) \in Nat /\ Len(disk) \in Nat
  BY SameLength
<1>2. CASE Len(disk) < i
  BY <1>2, SameLength DEF IsThere, LeftOver
<1>3. CASE ~(Len(disk) < i)
  <2>1. i \in 1..Len(disk)
    BY <1>1, <1>3
  <2> QED
    BY <2>1, SameLength DEF IsThere
<1> QED
  BY <1>2, <1>3

\* The client's page takes a new form, with at most one record more; what is
\* new in it is logged next, or left over.
LEMMA PageStep ==
    ASSUME IInv, NEW c \in Client, UNCHANGED <<disk, wal, acked, keyChanged>>,
           task[c].do \notin Waiting, task'[c].do \in Waiting \cup {"idle"},
           NEW page \in PageState, PageOf(c)' = page,
           Len(page) = Len(PageOf(c)) + 1 \/ (Len(page) = Len(PageOf(c)) /\ ~Ahead(c)'),
           \A i \in 1..Len(PageOf(c)) :
              /\ page[i].row = PageOf(c)[i].row /\ page[i].from = PageOf(c)[i].from
              /\ page[i].status = "deleted" =>
                    \/ PageOf(c)[i].status = "deleted"
                    \/ task'[c].do = "delete_log" /\ i = walData'.before.slot,
           Len(page) = Len(PageOf(c)) + 1 =>
              /\ page[Len(page)].status # "deleted"
              /\ page[Len(page)].from = "insert" <=> task'[c].do = "insert_log"
              /\ Ahead(c)' \/ LeftOver(page[Len(page)]),
           task'[c].do = "insert_log" => walData'.after = [slot |-> Len(page), row |-> page[Len(page)].row],
           task'[c].do # "insert_write",
           BeforeKnown(c)'
    PROVE  PageSound(c)' /\ FileSound'
<1> DEFINE old == PageOf(c)
<1>1. FileSound' /\ LoggedChanges' = LoggedChanges
  BY FileKept DEF IInv
<1>2. Len(page) \in Nat
  BY DEF PageState
<1>3. /\ Len(old) \in Nat /\ Len(disk) \in Nat /\ Len(disk) <= Len(old)
      /\ \A i \in 1..Len(disk) : old[i].row = disk[i].row /\ old[i].from = disk[i].from
      /\ \A i \in 1..Len(old) : Len(disk) < i => LeftOver(old[i])
  <2>1. ~Ahead(c)
    BY DEF Ahead, Waiting
  <2> QED
    BY <2>1, SameLength
<1>4. \A i \in 1..Len(old) :
        /\ old[i].from = "insert" => In(old, i) \in LoggedChanges
        /\ old[i].status = "deleted" => Out(old, i) \in LoggedChanges
  BY DEF IInv, PageSound, PageLogged, Waiting
<1>5. /\ Len(page) = Len(old) + 1 \/ (Len(page) = Len(old) /\ ~Ahead(c)')
      /\ \A i \in 1..Len(old) :
           /\ page[i].row = old[i].row /\ page[i].from = old[i].from
           /\ page[i].status = "deleted" =>
                 old[i].status = "deleted" \/ (task'[c].do = "delete_log" /\ i = walData'.before.slot)
      /\ Len(page) = Len(old) + 1 =>
           /\ page[Len(page)].status # "deleted"
           /\ page[Len(page)].from = "insert" <=> task'[c].do = "insert_log"
           /\ Ahead(c)' \/ LeftOver(page[Len(page)])
  OBVIOUS
<1> HIDE DEF old
<1>6. \A i \in 1..Len(page) : i \in 1..Len(old) \/ (Len(page) = Len(old) + 1 /\ i = Len(page))
  BY <1>2, <1>3, <1>5
<1>7. PageFits(c)'
  <2>1. Len(disk) + (IF Ahead(c)' THEN 1 ELSE 0) <= Len(page)
    BY <1>2, <1>3, <1>5
  <2>2. SameSlots(page, disk)
    <3>1. \A i \in 1..Len(disk) : i \in 1..Len(old)
      BY <1>3
    <3> QED
      BY <1>3, <1>5, <3>1 DEF SameSlots
  <2>3. ASSUME NEW i \in 1..Len(page), Len(disk) < i
        PROVE  LeftOver(page[i]) \/ (Ahead(c)' /\ i = Len(page))
    BY <1>3, <1>5, <1>6, <2>3 DEF LeftOver
  <2>4. task'[c].do = "insert_log" => page[Len(page)].from = "insert"
    BY <1>5 DEF Ahead
  <2> QED
    BY <2>1, <2>2, <2>3, <2>4 DEF PageFits, SameSlots
<1>8. ASSUME NEW i \in 1..Len(page)
      PROVE  /\ page[i].from = "insert" =>
                   In(page, i) \in LoggedChanges \/ (task'[c].do = "insert_log" /\ i = Len(page))
             /\ page[i].status = "deleted" =>
                   Out(page, i) \in LoggedChanges \/ (task'[c].do = "delete_log" /\ i = walData'.before.slot)
  <2>1. CASE i \in 1..Len(old)
    BY <1>4, <1>5, <2>1 DEF In, Out
  <2>2. CASE Len(page) = Len(old) + 1 /\ i = Len(page)
    BY <1>5, <2>2
  <2> QED
    BY <1>6, <2>1, <2>2
<1>9. PageLogged(c)'
  BY <1>1, <1>8 DEF PageLogged, In, Out
<1> QED
  BY <1>1, <1>7, <1>9 DEF PageSound

LEMMA QuietSteps ==
    ASSUME IInv, NEW c \in Client,
           \/ \E where \in Condition : DeleteBegin(c, where) \/ \E set \in Assignment : UpdateBegin(c, set, where)
           \/ \E n \in 1..MaxUndo : RollbackAsk(c, n)
           \/ RollbackConfirm(c) \/ UndoThrows(c)
    PROVE  PageSound(c)' /\ FileSound'
<1>1. Types /\ PageOf(c) \in PageState
  BY SameLength
<1>2. ASSUME NEW where \in Condition,
             DeleteBegin(c, where) \/ \E set \in Assignment : UpdateBegin(c, set, where)
      PROVE  PageSound(c)' /\ FileSound'
  <2>1. UNCHANGED <<disk, wal, walData, acked>> /\ Cache(c, PageOf(c)) /\ task[c].do = "idle"
        /\ (keyChanged => keyChanged')
    <3>1. CASE DeleteBegin(c, where)
      BY <3>1 DEF DeleteBegin, Begin
    <3>2. ASSUME NEW set \in Assignment, UpdateBegin(c, set, where)
          PROVE  UNCHANGED <<disk, wal, walData, acked>> /\ Cache(c, PageOf(c)) /\ task[c].do = "idle"
                 /\ keyChanged' = (keyChanged \/ set.col = "id")
      BY <3>2 DEF UpdateBegin, Begin
    <3> QED
      BY <1>2, <3>1, <3>2
  <2>2. PageOf(c)' = PageOf(c)
    BY <1>1, <2>1, NewPage
  <2>3. \/ task'[c] = Idle
        \/ /\ Selected(PageOf(c), where) # <<>> /\ task'[c].do \in {"delete_row", "update_row"}
           /\ task'[c].rows = Selected(PageOf(c), where)
    BY <1>1, <1>2, BeginsTypes
  <2>4. task'[c].do \notin Waiting
    BY <2>3 DEF Waiting, Idle
  <2>5. task'[c].do = "update_row" =>
          Head(task'[c].rows).id = NoValue \/ TargetSlot(PageOf(c), Head(task'[c].rows).id) # 0
    BY <1>1, <2>3, FirstIsFound DEF Idle
  <2> QED
    BY <2>1, <2>2, <2>4, <2>5, Quiet DEF Waiting
<1>3. ASSUME NEW n \in 1..MaxUndo, RollbackAsk(c, n)
      PROVE  PageSound(c)' /\ FileSound'
  <2>1. UNCHANGED <<disk, cache, wal, walData, acked, keyChanged>> /\ task[c].do = "idle"
        /\ task' = [task EXCEPT ![c] = [Idle EXCEPT !.do = "confirm", !.todo = ToUndo(n), !.steps = n]]
    BY <1>3 DEF RollbackAsk, Begin
  <2>2. task'[c].do = "confirm"
    BY <1>1, <2>1 DEF Types, Idle
  <2> QED
    BY <1>1, <2>1, <2>2, OldPage, Quiet DEF Waiting
<1>4. CASE RollbackConfirm(c)
  <2>1. UNCHANGED <<disk, cache, wal, walData, acked, keyChanged>> /\ task[c].do = "confirm"
        /\ (Finish(c) \/ Do(c, "undo"))
    BY <1>4 DEF RollbackConfirm
  <2>2. task'[c].do \in {"idle", "undo"}
    BY <1>1, <2>1 DEF Finish, Do, Types, Idle, Task
  <2> QED
    BY <1>1, <2>1, <2>2, OldPage, Quiet DEF Waiting
<1>5. CASE UndoThrows(c)
  <2>1. UNCHANGED <<disk, cache, wal, walData, acked, keyChanged>> /\ task[c].do = "undo"
        /\ task' = [d \in Client |-> [Idle EXCEPT !.do = "killed"]]
    BY <1>5 DEF UndoThrows
  <2>2. task'[c].do = "killed"
    BY <2>1 DEF Idle
  <2> QED
    BY <1>1, <2>1, <2>2, OldPage, Quiet DEF Waiting
<1> QED
  BY <1>2, <1>3, <1>4, <1>5

LEMMA InsertRowSound ==
    ASSUME IInv, NEW c \in Client, NEW row \in Row, InsertRow(c, row)
    PROVE  PageSound(c)' /\ FileSound'
<1> DEFINE old == PageOf(c)
           new(origin) == NewRecord(row, origin)
           page(origin) == Append(old, new(origin))
<1>1. Types /\ old \in PageState /\ Len(old) \in Nat
  BY SameLength
<1>2. \A origin \in {"insert", "failed"} :
        new(origin) \in SlotState /\ new(origin).row = row /\ new(origin).status = "live" /\ new(origin).from = origin
  BY DEF NewRecord, SlotState
<1>3. /\ task[c].do = "idle" /\ UNCHANGED <<disk, wal, acked, keyChanged>>
      /\ \/ Finish(c) /\ Cache(c, old) /\ UNCHANGED walData
         \/ IndexThrows(row) /\ Finish(c) /\ Cache(c, page("failed")) /\ UNCHANGED walData
         \/ /\ task' = [task EXCEPT ![c] = [Idle EXCEPT !.do = "insert_log"]]
            /\ Cache(c, page("insert"))
            /\ walData' = [walData EXCEPT !.after = [slot |-> Len(old) + 1, row |-> row]]
  BY <1>1, InsertRowCases
<1>4. Finish(c) => task'[c].do = "idle"
  BY <1>1 DEF Finish, Types, Idle
<1> HIDE DEF old, new
<1>5. \A origin \in {"insert", "failed"} :
        /\ page(origin) \in PageState /\ Len(page(origin)) = Len(old) + 1
        /\ \A i \in 1..Len(old) : page(origin)[i] = old[i]
        /\ page(origin)[Len(old) + 1] = new(origin)
  BY <1>1, <1>2, SlotAdded
<1>6. BeforeKnown(c)'
  <2>1. task'[c].do \in {"idle", "insert_log"}
    BY <1>1, <1>3, <1>4 DEF Types, Idle
  <2> QED
    BY <2>1 DEF BeforeKnown
<1> HIDE DEF page
<1>7. CASE Finish(c) /\ Cache(c, old) /\ UNCHANGED walData
  <2>1. PageOf(c)' = old
    BY <1>1, <1>7, NewPage
  <2> QED
    BY <1>3, <1>4, <1>7, <2>1, Quiet DEF Waiting, old
<1>8. CASE IndexThrows(row) /\ Finish(c) /\ Cache(c, page("failed")) /\ UNCHANGED walData
  <2> DEFINE more == page("failed")
  <2>1. /\ more \in PageState /\ Len(more) = Len(old) + 1
        /\ \A i \in 1..Len(old) : more[i] = old[i]
        /\ more[Len(more)].status = "live" /\ more[Len(more)].from = "failed" /\ LeftOver(more[Len(more)])
    BY <1>2, <1>5, <1>8 DEF LeftOver
  <2>2. PageOf(c)' = more
    BY <1>1, <1>8, <2>1, NewPage
  <2> HIDE DEF more
  <2>3. task[c].do \notin Waiting /\ task'[c].do = "idle"
    BY <1>3, <1>4, <1>8 DEF Waiting
  <2> QED
    BY <1>3, <1>6, <2>1, <2>2, <2>3, PageStep DEF old
<1>9. CASE /\ task' = [task EXCEPT ![c] = [Idle EXCEPT !.do = "insert_log"]]
           /\ Cache(c, page("insert"))
           /\ walData' = [walData EXCEPT !.after = [slot |-> Len(old) + 1, row |-> row]]
  <2> DEFINE more == page("insert")
  <2>1. /\ more \in PageState /\ Len(more) = Len(old) + 1
        /\ \A i \in 1..Len(old) : more[i] = old[i]
        /\ more[Len(more)].row = row /\ more[Len(more)].status = "live" /\ more[Len(more)].from = "insert"
    BY <1>2, <1>5
  <2>2. PageOf(c)' = more
    BY <1>1, <1>9, <2>1, NewPage
  <2>3. task'[c].do = "insert_log" /\ walData'.after = [slot |-> Len(old) + 1, row |-> row]
    BY <1>1, <1>9 DEF Types, Idle
  <2> HIDE DEF more
  <2>4. task[c].do \notin Waiting /\ task'[c].do \in Waiting /\ Ahead(c)'
    BY <1>3, <2>3 DEF Waiting, Ahead
  <2> QED
    BY <1>3, <1>6, <2>1, <2>2, <2>3, <2>4, PageStep DEF old
<1> QED
  BY <1>3, <1>7, <1>8, <1>9

LEMMA DeleteRowSound ==
    ASSUME IInv, NEW c \in Client, DeleteRow(c)
    PROVE  PageSound(c)' /\ FileSound'
<1> DEFINE old == PageOf(c)
           target == TargetSlot(old, Head(task[c].rows).id)
           page == [old EXCEPT ![target].status = "deleted"]
           there == [slot |-> target, row |-> old[target].row]
<1>1. /\ Types /\ old \in PageState /\ Len(old) \in Nat
      /\ task[c].do = "delete_row" => \A i \in 1..Len(old) : IsThere(i, old[i].row)
  BY SameLength, PageIsThere DEF Ahead
<1>2. /\ task[c].do = "delete_row" /\ UNCHANGED <<disk, wal, acked, keyChanged>>
      /\ \/ Finish(c) /\ UNCHANGED <<cache, walData, snapshots>>
         \/ NextRow(c, "delete_row", "delete_write") /\ UNCHANGED <<cache, walData, snapshots>>
         \/ /\ target \in 1..Len(old) /\ page \in PageState /\ Cache(c, page)
            /\ walData' = [walData EXCEPT !.before = there]
            /\ Do(c, "delete_log")
  BY <1>1, DeleteRowCases
<1>3. page = WithStatus(old, target, "deleted")
  BY DEF WithStatus
<1> HIDE DEF page, target, old
<1>4. CASE Finish(c) /\ UNCHANGED <<cache, walData, snapshots>>
  <2>1. task'[c].do = "idle"
    BY <1>1, <1>4 DEF Finish, Types, Idle
  <2> QED
    BY <1>1, <1>2, <1>4, <2>1, OldPage, Quiet DEF Waiting
<1>5. CASE NextRow(c, "delete_row", "delete_write") /\ UNCHANGED <<cache, walData, snapshots>>
  <2>1. task'[c].do \in {"delete_row", "delete_write"}
    BY <1>1, <1>5 DEF NextRow, Types, Task
  <2> QED
    BY <1>1, <1>2, <1>5, <2>1, OldPage, Quiet DEF Waiting
<1>6. CASE /\ target \in 1..Len(old) /\ page \in PageState /\ Cache(c, page)
           /\ walData' = [walData EXCEPT !.before = there]
           /\ Do(c, "delete_log")
  <2>1. task'[c].do = "delete_log"
    BY <1>1, <1>6 DEF Do, Types, Task
  <2>2. walData'.before = there
    BY <1>1, <1>6 DEF Types
  <2>3. /\ Len(page) = Len(old)
        /\ \A i \in 1..Len(old) :
             /\ page[i].row = old[i].row /\ page[i].from = old[i].from
             /\ page[i].status = IF i = target THEN "deleted" ELSE old[i].status
    BY <1>1, <1>3, StatusChange
  <2>4. PageOf(c)' = page
    BY <1>1, <1>6, NewPage
  <2>5. BeforeKnown(c)'
    <3>1. walData'.before.slot = target /\ walData'.before.row = old[target].row /\ disk' = disk
      BY <1>2, <2>2
    <3>2. BeforeIsThere'
      BY <1>1, <1>2, <1>6, <3>1 DEF BeforeIsThere, IsThere
    <3>3. page[target].row = old[target].row
      BY <1>6, <2>3
    <3> QED
      BY <2>1, <2>4, <3>1, <3>2, <3>3 DEF BeforeKnown
  <2>6. \A i \in 1..Len(old) : page[i].status = "deleted" =>
          old[i].status = "deleted" \/ (task'[c].do = "delete_log" /\ i = walData'.before.slot)
    BY <2>1, <2>2, <2>3
  <2>7. ~Ahead(c)' /\ Len(page) = Len(old) /\ Len(page) # Len(old) + 1
    BY <1>1, <2>1, <2>3 DEF Ahead
  <2>8. task[c].do \notin Waiting /\ task'[c].do \in Waiting \cup {"idle"}
        /\ task'[c].do # "insert_log" /\ task'[c].do # "insert_write"
    BY <1>2, <2>1 DEF Waiting
  <2>9. page \in PageState /\ UNCHANGED <<disk, wal, acked, keyChanged>>
    BY <1>2, <1>6
  <2> QED
    BY <2>3, <2>4, <2>5, <2>6, <2>7, <2>8, <2>9, PageStep DEF old
<1> QED
  BY <1>2, <1>4, <1>5, <1>6

LEMMA UpdateRowSound ==
    ASSUME IInv, NEW c \in Client, UpdateRow(c)
    PROVE  PageSound(c)' /\ FileSound'
<1> DEFINE old == PageOf(c)
           target == UpdateTarget(c)
           rest == UpdateRest(c)
           row == UpdatedRow(c)
           first == Head(task[c].rows)
           new == NewRecord(row, "update")
           page == Append(rest, new)
<1>1. Types /\ old \in PageState /\ Len(old) \in Nat /\ TaskOK(task[c], keyChanged)
  BY SameLength DEF Types
<1>2. /\ task[c].do = "update_row" /\ UNCHANGED <<disk, wal, acked, keyChanged>>
      /\ \/ Finish(c) /\ UNCHANGED <<cache, walData>>
         \/ Cache(c, rest) /\ Finish(c)
         \/ /\ row.id # NoValue /\ Cache(c, page)
            /\ walData' = [before |-> UpdateOld(c), after |-> [slot |-> Len(old) + 1, row |-> row]]
            /\ Do(c, "update_write")
  BY <1>1, UpdateRowCases
<1>3. \A i \in 1..Len(old) : IsThere(i, old[i].row)
  BY <1>2, PageIsThere DEF Ahead
<1>4. /\ rest \in PageState /\ Len(rest) = Len(old) /\ new \in SlotState
      /\ \A i \in 1..Len(old) :
           /\ rest[i].row = old[i].row /\ rest[i].from = old[i].from
           /\ rest[i].status \in {old[i].status, "replaced"}
  BY <1>1, <1>2, UpdatePieces
<1>5. Finish(c) => task'[c].do = "idle"
  BY <1>1 DEF Finish, Types, Idle
<1>6. CASE Finish(c) /\ UNCHANGED <<cache, walData>>
  BY <1>1, <1>2, <1>5, <1>6, OldPage, Quiet DEF Waiting
<1>7. CASE Cache(c, rest) /\ Finish(c)
  <2>1. PageOf(c)' = rest
    BY <1>1, <1>4, <1>7, NewPage
  <2>2. BeforeKnown(c)' /\ ~Ahead(c)' /\ Len(rest) = Len(old) /\ Len(rest) # Len(old) + 1
    BY <1>1, <1>4, <1>5, <1>7 DEF BeforeKnown, Ahead
  <2>3. task[c].do \notin Waiting /\ task'[c].do \in Waiting \cup {"idle"}
        /\ task'[c].do # "insert_log" /\ task'[c].do # "insert_write"
    BY <1>2, <1>5, <1>7 DEF Waiting
  <2>4. \A i \in 1..Len(old) : rest[i].status = "deleted" => old[i].status = "deleted"
    BY <1>4
  <2>5. rest \in PageState /\ UNCHANGED <<disk, wal, acked, keyChanged>>
    BY <1>2, <1>4
  <2> HIDE DEF rest
  <2> QED
    BY <1>4, <2>1, <2>2, <2>3, <2>4, <2>5, PageStep
<1>8. CASE /\ row.id # NoValue /\ Cache(c, page)
           /\ walData' = [before |-> UpdateOld(c), after |-> [slot |-> Len(old) + 1, row |-> row]]
           /\ Do(c, "update_write")
  <2>1. task'[c].do = "update_write"
    BY <1>1, <1>8 DEF Do, Types, Task
  <2>2. keyChanged' \/ BeforeIsThere'
    <3>1. CASE target # 0
      <4>4. target \in 0..Len(old)
        BY <1>1, <1>2, UpdatePieces
      <4>1. target \in 1..Len(old)
        <5> HIDE DEF target, old
        <5> QED
          BY <1>1, <3>1, <4>4
      <4>2. walData'.before = [slot |-> target, row |-> old[target].row]
        BY <1>8, <3>1 DEF UpdateOld
      <4>3. walData'.before.slot = target /\ walData'.before.row = old[target].row
        BY <4>2
      <4> HIDE DEF target, old
      <4> QED
        BY <1>2, <1>3, <4>1, <4>3 DEF BeforeIsThere, IsThere
    <3>2. CASE target = 0 /\ ~keyChanged
      <4>1. walData'.before = walData.before
        BY <1>8, <3>2 DEF UpdateOld
      <4>2. task[c].set.col = "val" /\ row.id = first.id
        BY <1>1, <1>2, <3>2, UpdatePieces
      <4>3. first.id # NoValue /\ TargetSlot(old, first.id) = 0
        BY <1>8, <3>2, <4>2 DEF UpdateTarget
      <4>4. BeforeIsThere
        BY <1>2, <3>2, <4>3 DEF IInv, PageSound, BeforeKnown
      <4> QED
        BY <1>2, <4>1, <4>4 DEF BeforeIsThere, IsThere
    <3>3. keyChanged' = keyChanged
      BY <1>2
    <3> QED
      BY <3>1, <3>2, <3>3
  <2>3. BeforeKnown(c)' /\ Ahead(c)'
    BY <2>1, <2>2 DEF BeforeKnown, Ahead
  <2>4. new.status = "live" /\ new.from = "update"
    BY DEF NewRecord
  <2> HIDE DEF rest, new, old
  <2>5. /\ page \in PageState /\ Len(page) = Len(rest) + 1
        /\ \A i \in 1..Len(rest) : page[i] = rest[i]
        /\ page[Len(rest) + 1] = new
    BY <1>4, SlotAdded
  <2> HIDE DEF page
  <2>6. PageOf(c)' = page
    BY <1>1, <1>8, <2>5, NewPage
  <2>7. task[c].do \notin Waiting /\ task'[c].do \in Waiting \cup {"idle"}
        /\ task'[c].do # "insert_log" /\ task'[c].do # "insert_write"
    BY <1>2, <2>1 DEF Waiting
  <2>8. /\ Len(page) = Len(old) + 1
        /\ \A i \in 1..Len(old) :
             /\ page[i].row = old[i].row /\ page[i].from = old[i].from
             /\ page[i].status = "deleted" => old[i].status = "deleted"
        /\ page[Len(page)].status # "deleted" /\ page[Len(page)].from # "insert"
    BY <1>1, <1>4, <2>4, <2>5
  <2>9. page \in PageState /\ UNCHANGED <<disk, wal, acked, keyChanged>>
    BY <1>2, <2>5
  <2> QED
    BY <2>3, <2>6, <2>7, <2>8, <2>9, PageStep DEF old
<1> QED
  BY <1>2, <1>6, <1>7, <1>8

-----------------------------------------------------------------------------
(* Steps that write the page *)

Inserts(page) == {i \in 1..Len(page) : page[i].from = "insert"}

LEMMA MoreInserts ==
    ASSUME NEW p \in PageState, NEW q \in PageState, Len(p) <= Len(q),
           \A i \in 1..Len(p) : q[i].from = p[i].from
    PROVE  /\ Cardinality(Inserts(p)) \in Nat /\ Cardinality(Inserts(q)) \in Nat
           /\ Cardinality(Inserts(p)) <= Cardinality(Inserts(q))
           /\ Len(p) < Len(q) /\ q[Len(q)].from = "insert" =>
                Cardinality(Inserts(p)) + 1 <= Cardinality(Inserts(q))
<1>1. Len(p) \in Nat /\ Len(q) \in Nat
  BY DEF PageState
<1>2. IsFiniteSet(1..Len(p)) /\ IsFiniteSet(1..Len(q))
  BY <1>1, FS_Interval
<1>3. IsFiniteSet(Inserts(p)) /\ IsFiniteSet(Inserts(q)) /\ Inserts(p) \in SUBSET Inserts(q)
  <2>1. Inserts(p) \in SUBSET (1..Len(p)) /\ Inserts(q) \in SUBSET (1..Len(q))
    BY DEF Inserts
  <2>2. Inserts(p) \in SUBSET Inserts(q)
    BY <1>1 DEF Inserts
  <2> QED
    BY <1>2, <2>1, <2>2, FS_Subset
<1>4. Cardinality(Inserts(p)) \in Nat /\ Cardinality(Inserts(q)) \in Nat
      /\ Cardinality(Inserts(p)) <= Cardinality(Inserts(q))
  BY <1>3, FS_CardinalityType, FS_Subset
<1>5. ASSUME Len(p) < Len(q), q[Len(q)].from = "insert"
      PROVE  Cardinality(Inserts(p)) + 1 <= Cardinality(Inserts(q))
  <2> DEFINE more == Inserts(p) \cup {Len(q)}
  <2>1. Len(q) \notin Inserts(p) /\ Len(q) \in Inserts(q)
    BY <1>1, <1>5 DEF Inserts
  <2>2. Cardinality(more) = Cardinality(Inserts(p)) + 1
    BY <1>3, <2>1, FS_AddElement
  <2>3. more \in SUBSET Inserts(q)
    BY <1>3, <2>1
  <2>4. Cardinality(more) <= Cardinality(Inserts(q))
    BY <1>3, <2>3, FS_Subset
  <2> QED
    BY <2>2, <2>4
<1> QED
  BY <1>4, <1>5

LEMMA WriteSound ==
    ASSUME IInv, NEW c \in Client, InsertWrite(c) \/ DeleteWrite(c) \/ UpdateWrite(c)
    PROVE  PageSound(c)' /\ FileSound'
<1> DEFINE page == PageOf(c)
<1>1. /\ Types /\ page \in PageState /\ Len(page) \in Nat /\ Len(disk) \in Nat /\ Len(disk) <= Len(page)
      /\ Ahead(c) => Len(disk) < Len(page)
      /\ \A i \in 1..Len(disk) : page[i].row = disk[i].row /\ page[i].from = disk[i].from
  BY SameLength
<1>2. /\ disk' = page /\ UNCHANGED <<cache, wal, walData, keyChanged>>
      /\ task[c].do \in {"insert_write", "delete_write", "update_write"}
      /\ Finish(c) \/ (task[c].do = "update_write" /\ Do(c, "update_log"))
      /\ acked' = acked \/ (acked' = acked + 1 /\ task[c].do = "insert_write")
  BY DEF InsertWrite, DeleteWrite, UpdateWrite, WritePage
<1>3. task'[c].do = "idle" \/ (task[c].do = "update_write" /\ task'[c].do = "update_log")
  BY <1>1, <1>2 DEF Finish, Do, Types, Task, Idle
<1>4. PageOf(c)' = page
  BY <1>1, <1>2, OldPage
<1>5. LoggedChanges' = LoggedChanges
  BY <1>2, LogStays
<1>6. PageFits(c) /\ PageLogged(c) /\ BeforeKnown(c) /\ FileSound
  BY DEF IInv, PageSound
<1>7. \A i \in 1..Len(page) : /\ page[i].from = "insert" => In(page, i) \in LoggedChanges
                              /\ page[i].status = "deleted" => Out(page, i) \in LoggedChanges
  BY <1>2, <1>6 DEF PageLogged
<1>8. task[c].do = "insert_write" => page[Len(page)].from = "insert" /\ Len(disk) < Len(page)
  BY <1>1, <1>6 DEF PageFits, Ahead
<1> HIDE DEF page
<1>9. PageFits(c)'
  BY <1>1, <1>2, <1>3, <1>4 DEF PageFits, SameSlots, Ahead
<1>10. PageLogged(c)'
  BY <1>4, <1>5, <1>7 DEF PageLogged, In, Out
<1>11. /\ BeforeIsThere => BeforeIsThere'
       /\ \A slot, row : IsThere(slot, row) => IsThere(slot, row)'
  BY <1>1, <1>2 DEF BeforeIsThere, IsThere
<1>12. BeforeKnown(c)'
  BY <1>2, <1>3, <1>6, <1>11 DEF BeforeKnown
<1>13. InsertsAndDeletesAreLoggedAhead'
  BY <1>2, <1>5, <1>7 DEF InsertsAndDeletesAreLoggedAhead, In, Out
<1>14. DeletionsAreThere'
  BY <1>2, <1>5, <1>6, <1>11 DEF FileSound, DeletionsAreThere
<1>15. AckedInsertsAreOnDisk'
  <2>1. disk \in PageState /\ acked \in Nat
    BY <1>1 DEF Types
  <2>2. acked <= Cardinality(Inserts(disk))
    BY <1>6 DEF FileSound, AckedInsertsAreOnDisk, Inserts
  <2>3. /\ Cardinality(Inserts(disk)) \in Nat /\ Cardinality(Inserts(page)) \in Nat
        /\ Cardinality(Inserts(disk)) <= Cardinality(Inserts(page))
        /\ Len(disk) < Len(page) /\ page[Len(page)].from = "insert" =>
             Cardinality(Inserts(disk)) + 1 <= Cardinality(Inserts(page))
    BY <1>1, <2>1, MoreInserts
  <2>4. acked' <= Cardinality(Inserts(page))
    BY <1>2, <1>8, <2>1, <2>2, <2>3
  <2> QED
    BY <1>2, <2>4 DEF AckedInsertsAreOnDisk, Inserts
<1> QED
  BY <1>9, <1>10, <1>12, <1>13, <1>14, <1>15 DEF PageSound, FileSound

-----------------------------------------------------------------------------
(* Steps that write the log *)

LogAfter == [kind |-> "in", slot |-> walData.after.slot, row |-> walData.after.row]
LogBefore == [kind |-> "out", slot |-> walData.before.slot, row |-> walData.before.row]

LEMMA LogSteps ==
    ASSUME IInv, NEW c \in Client, InsertLog(c) \/ DeleteLog(c) \/ UpdateLog(c)
    PROVE  /\ UNCHANGED <<disk, cache, walData, acked, keyChanged>>
           /\ \/ /\ task[c].do = "insert_log" /\ task'[c].do = "insert_write"
                 /\ LoggedChanges' = LoggedChanges \cup {LogAfter}
              \/ /\ task[c].do = "delete_log" /\ task'[c].do \in {"delete_row", "delete_write"}
                 /\ LoggedChanges' = LoggedChanges \cup {LogBefore}
              \/ /\ task[c].do = "update_log" /\ task'[c].do \in {"update_row", "idle"}
                 /\ LoggedChanges' = LoggedChanges \cup {LogAfter, LogBefore}
<1>1. Types /\ wal \in Seq(Seq(Change)) /\ task \in [Client -> Task]
  BY DEF IInv, Types
<1>2. /\ AfterChange \in Seq(Change) /\ BeforeChange \in Seq(Change) /\ BeforeChange \o AfterChange \in Seq(Change)
      /\ {AfterChange[i] : i \in 1..Len(AfterChange)} = {LogAfter}
      /\ {BeforeChange[i] : i \in 1..Len(BeforeChange)} = {LogBefore}
      /\ {(BeforeChange \o AfterChange)[i] : i \in 1..Len(BeforeChange \o AfterChange)} = {LogAfter, LogBefore}
  BY <1>1, ChangesToLog DEF LogAfter, LogBefore
<1>3. CASE InsertLog(c)
  <2>1. /\ task[c].do = "insert_log" /\ Log(c, AfterChange) /\ Do(c, "insert_write")
        /\ UNCHANGED <<disk, cache, walData, acked, keyChanged>>
    BY <1>3 DEF InsertLog
  <2>2. LoggedChanges' = LoggedChanges \cup {LogAfter}
    BY <1>1, <1>2, <2>1, LogGrows
  <2>3. task'[c].do = "insert_write"
    BY <1>1, <2>1 DEF Do, Task
  <2> QED
    BY <2>1, <2>2, <2>3
<1>4. CASE DeleteLog(c)
  <2>1. /\ task[c].do = "delete_log" /\ Log(c, BeforeChange) /\ NextRow(c, "delete_row", "delete_write")
        /\ UNCHANGED <<disk, cache, walData, acked, keyChanged>>
    BY <1>4 DEF DeleteLog
  <2>2. LoggedChanges' = LoggedChanges \cup {LogBefore}
    BY <1>1, <1>2, <2>1, LogGrows
  <2>3. task'[c].do \in {"delete_row", "delete_write"}
    BY <1>1, <2>1 DEF NextRow, Task
  <2> QED
    BY <2>1, <2>2, <2>3
<1>5. CASE UpdateLog(c)
  <2>1. /\ task[c].do = "update_log" /\ Log(c, BeforeChange \o AfterChange)
        /\ Finish(c) \/ NextRow(c, "update_row", "idle")
        /\ UNCHANGED <<disk, cache, walData, acked, keyChanged>>
    BY <1>5 DEF UpdateLog
  <2>2. LoggedChanges' = LoggedChanges \cup {LogAfter, LogBefore}
    BY <1>1, <1>2, <2>1, LogGrows
  <2>3. task'[c].do \in {"update_row", "idle"}
    BY <1>1, <2>1 DEF Finish, NextRow, Task, Idle
  <2> QED
    BY <2>1, <2>2, <2>3
<1> QED
  BY <1>3, <1>4, <1>5

LEMMA LogSound ==
    ASSUME IInv, NEW c \in Client, InsertLog(c) \/ DeleteLog(c) \/ UpdateLog(c)
    PROVE  PageSound(c)' /\ FileSound'
<1> DEFINE page == PageOf(c)
           slot == walData.before.slot
<1>1. UNCHANGED <<disk, cache, walData, acked, keyChanged>>
  BY LogSteps
<1>2. Types /\ page \in PageState /\ Len(page) \in Nat /\ Len(disk) \in Nat /\ Len(disk) <= Len(page)
  BY SameLength
<1>3. PageFits(c) /\ PageLogged(c) /\ BeforeKnown(c) /\ FileSound
  BY DEF IInv, PageSound
<1>4. PageOf(c)' = page
  BY <1>1, <1>2, OldPage
<1>5. LoggedChanges \subseteq LoggedChanges'
  BY LogSteps
<1>6. \A ch \in LoggedChanges' : ch \in LoggedChanges \/ ch.kind = "in" \/ (ch = LogBefore /\ task[c].do \in {"delete_log", "update_log"})
  <2>1. LogAfter.kind = "in"
    BY DEF LogAfter
  <2> QED
    BY <2>1, LogSteps
<1>7. Ahead(c)' = Ahead(c)
  BY LogSteps DEF Ahead
<1>8. PageFits(c)'
  <2>1. /\ Len(disk) + (IF Ahead(c) THEN 1 ELSE 0) <= Len(page) /\ SameSlots(page, disk)
        /\ \A i \in 1..Len(page) : Len(disk) < i => LeftOver(page[i]) \/ (Ahead(c) /\ i = Len(page))
        /\ task[c].do = "insert_log" => page[Len(page)].from = "insert"
    BY <1>3 DEF PageFits
  <2>2. task'[c].do \in {"insert_log", "insert_write"} => task[c].do = "insert_log" /\ task'[c].do = "insert_write"
    BY LogSteps
  <2>3. SameSlots(page, disk')
    BY <1>1, <2>1
  <2> HIDE DEF page
  <2>4. /\ Len(disk') + (IF Ahead(c)' THEN 1 ELSE 0) <= Len(page)
        /\ \A i \in 1..Len(page) : Len(disk') < i => LeftOver(page[i]) \/ (Ahead(c)' /\ i = Len(page))
    BY <1>1, <1>7, <2>1
  <2> QED
    BY <1>4, <2>1, <2>2, <2>3, <2>4 DEF PageFits, SameSlots
<1>9. PageLogged(c)'
  <2>1. ASSUME NEW i \in 1..Len(page)
        PROVE  /\ page[i].from = "insert" => In(page, i) \in LoggedChanges'
               /\ page[i].status = "deleted" => Out(page, i) \in LoggedChanges'
    <3>1. page[i].from = "insert" => In(page, i) \in LoggedChanges \/ (task[c].do = "insert_log" /\ i = Len(page))
      BY <1>3 DEF PageLogged
    <3>2. page[i].status = "deleted" => Out(page, i) \in LoggedChanges \/ (task[c].do = "delete_log" /\ i = slot)
      BY <1>3 DEF PageLogged
    <3>3. task[c].do = "insert_log" /\ i = Len(page) => In(page, i) \in LoggedChanges'
      <4>1. task[c].do = "insert_log" => walData.after = [slot |-> Len(page), row |-> page[Len(page)].row]
        BY <1>3 DEF PageFits
      <4>2. task[c].do = "insert_log" => LogAfter \in LoggedChanges'
        BY LogSteps
      <4> HIDE DEF page
      <4> QED
        BY <4>1, <4>2 DEF LogAfter, In
    <3>4. task[c].do = "delete_log" /\ i = slot => Out(page, i) \in LoggedChanges'
      <4>1. task[c].do = "delete_log" => LogBefore \in LoggedChanges' /\ page[slot].row = walData.before.row
        BY <1>3, LogSteps DEF BeforeKnown
      <4> HIDE DEF page
      <4> QED
        BY <4>1 DEF LogBefore, Out
    <3> QED
      BY <1>5, <3>1, <3>2, <3>3, <3>4
  <2> HIDE DEF page
  <2> QED
    BY <1>4, <2>1 DEF PageLogged, In, Out
<1>10. BeforeKnown(c)'
  <2>1. BeforeIsThere' <=> BeforeIsThere
    BY <1>1 DEF BeforeIsThere, IsThere
  <2>2. task'[c].do = "update_row" => keyChanged \/ BeforeIsThere
    BY <1>3, LogSteps DEF BeforeKnown
  <2>3. task'[c].do \notin {"delete_log", "update_write", "update_log"}
    BY LogSteps
  <2> QED
    BY <1>1, <2>1, <2>2, <2>3 DEF BeforeKnown
<1>11. InsertsAndDeletesAreLoggedAhead'
  BY <1>1, <1>3, <1>5 DEF FileSound, InsertsAndDeletesAreLoggedAhead
<1>12. DeletionsAreThere'
  <2>1. SUFFICES ASSUME ~keyChanged, NEW ch \in LoggedChanges', ch.kind = "out"
                 PROVE  IsThere(ch.slot, ch.row)
    BY <1>1 DEF DeletionsAreThere, IsThere
  <2>2. CASE ch \in LoggedChanges
    BY <1>3, <2>1, <2>2 DEF FileSound, DeletionsAreThere
  <2>3. CASE ch = LogBefore /\ task[c].do \in {"delete_log", "update_log"}
    <3>1. BeforeIsThere
      BY <1>3, <2>1, <2>3 DEF BeforeKnown
    <3> QED
      BY <2>3, <3>1 DEF LogBefore, BeforeIsThere
  <2> QED
    BY <1>6, <2>1, <2>2, <2>3
<1>13. AckedInsertsAreOnDisk'
  BY <1>1, <1>3 DEF FileSound, AckedInsertsAreOnDisk
<1> QED
  BY <1>8, <1>9, <1>10, <1>11, <1>12, <1>13 DEF PageSound, FileSound

-----------------------------------------------------------------------------
(* Rollback, and a pool that is dropped *)

LEMMA UndoSound ==
    ASSUME IInv, NEW c \in Client, UndoOne(c)
    PROVE  PageSound(c)' /\ FileSound'
<1> DEFINE old == PageOf(c)
           page == Undone(old, Head(task[c].todo))
<1>1. /\ task[c].do = "undo" /\ Cache(c, page) /\ disk' = page /\ UNCHANGED <<wal, walData, acked, keyChanged>>
      /\ Finish(c) \/ task' = [task EXCEPT ![c].todo = Tail(@)]
  BY UndoOneParts DEF IInv
<1>2. /\ Types /\ old \in PageState /\ Len(old) \in Nat /\ Len(disk) \in Nat /\ Len(disk) <= Len(old)
      /\ \A i \in 1..Len(disk) : old[i].row = disk[i].row /\ old[i].from = disk[i].from
  BY SameLength
<1>3. /\ page \in PageState /\ Len(page) = Len(old)
      /\ \A i \in 1..Len(old) :
           /\ page[i].row = old[i].row /\ page[i].from = old[i].from
           /\ page[i].status \in {old[i].status, "live", "undone"}
  BY <1>2, UndoneProperties
<1>4. task'[c].do \in {"idle", "undo"}
  BY <1>1, <1>2 DEF Finish, Types, Task, Idle
<1>5. LoggedChanges' = LoggedChanges
  BY <1>1, LogStays
<1>6. PageLogged(c) /\ FileSound
  BY DEF IInv, PageSound
<1>7. \A i \in 1..Len(old) : /\ old[i].from = "insert" => In(old, i) \in LoggedChanges
                             /\ old[i].status = "deleted" => Out(old, i) \in LoggedChanges
  BY <1>1, <1>6 DEF PageLogged
<1> HIDE DEF old, page
<1>8. PageOf(c)' = page
  BY <1>1, <1>2, <1>3, NewPage
<1>9. \A i \in 1..Len(page) : /\ page[i].from = "insert" => In(page, i) \in LoggedChanges
                              /\ page[i].status = "deleted" => Out(page, i) \in LoggedChanges
  BY <1>3, <1>7 DEF In, Out
<1>10. PageFits(c)'
  BY <1>1, <1>3, <1>2, <1>4, <1>8 DEF PageFits, SameSlots, Ahead
<1>11. PageLogged(c)'
  BY <1>5, <1>8, <1>9 DEF PageLogged, In, Out
<1>12. BeforeKnown(c)'
  BY <1>4 DEF BeforeKnown
<1>13. InsertsAndDeletesAreLoggedAhead'
  BY <1>1, <1>5, <1>9 DEF InsertsAndDeletesAreLoggedAhead, In, Out
<1>14. DeletionsAreThere'
  <2>1. \A i \in 1..Len(disk) : i \in 1..Len(page) /\ page[i].row = disk[i].row /\ page[i].from = disk[i].from
    BY <1>2, <1>3
  <2>2. \A slot, row : IsThere(slot, row) => IsThere(slot, row)'
    BY <1>1, <2>1 DEF IsThere
  <2> QED
    BY <1>1, <1>5, <1>6, <2>2 DEF FileSound, DeletionsAreThere
<1>15. AckedInsertsAreOnDisk'
  <2>1. disk \in PageState /\ acked \in Nat /\ acked <= Cardinality(Inserts(disk))
    BY <1>2, <1>6 DEF Types, FileSound, AckedInsertsAreOnDisk, Inserts
  <2>2. Cardinality(Inserts(disk)) \in Nat /\ Cardinality(Inserts(page)) \in Nat
        /\ Cardinality(Inserts(disk)) <= Cardinality(Inserts(page))
    BY <1>2, <1>3, <2>1, MoreInserts
  <2> QED
    BY <1>1, <2>1, <2>2 DEF AckedInsertsAreOnDisk, Inserts
<1> QED
  BY <1>10, <1>11, <1>12, <1>13, <1>14, <1>15 DEF PageSound, FileSound

\* A pool that is empty shows the file.
LEMMA EmptyPoolSound ==
    ASSUME FileSound', NEW c \in Client, cache'[c] = {}, task'[c].do = "idle", disk' \in PageState
    PROVE  PageSound(c)'
<1>1. PageOf(c)' = disk' /\ Len(disk') \in Nat
  BY DEF PageOf, PageState
<1>2. PageFits(c)'
  BY <1>1 DEF PageFits, SameSlots, Ahead
<1>3. PageLogged(c)'
  BY <1>1 DEF PageLogged, FileSound, InsertsAndDeletesAreLoggedAhead, In, Out
<1>4. BeforeKnown(c)'
  BY DEF BeforeKnown
<1> QED
  BY <1>2, <1>3, <1>4 DEF PageSound

LEMMA LeaveSound ==
    ASSUME OneClient, IInv, CrashAndRestart \/ \E c \in Client : Reconnect(c)
    PROVE  (\A c \in Client : PageSound(c)') /\ FileSound'
<1>1. Types /\ FileSound
  BY DEF IInv
<1>2. Types' /\ UNCHANGED <<disk, wal, acked, keyChanged>>
  BY <1>1, LeaveTypes
<1>3. FileSound'
  BY <1>1, <1>2, FileKept
<1>4. disk' \in PageState
  BY <1>2 DEF Types
<1>5. ASSUME NEW c \in Client
      PROVE  cache'[c] = {} /\ task'[c].do = "idle"
  <2>1. CASE CrashAndRestart
    BY <2>1 DEF CrashAndRestart, Idle
  <2>2. ASSUME NEW d \in Client, Reconnect(d)
        PROVE  cache'[c] = {} /\ task'[c].do = "idle"
    <3>1. c = d
      BY DEF OneClient
    <3>2. cache' = [cache EXCEPT ![d] = {}] /\ task' = task /\ task[d].do = "idle"
      BY <2>2 DEF Reconnect
    <3> QED
      BY <1>1, <3>1, <3>2 DEF Types
  <2> QED
    BY <2>1, <2>2
<1> QED
  BY <1>3, <1>4, <1>5, EmptyPoolSound

-----------------------------------------------------------------------------
(* What a DELETE or an UPDATE selects *)

RowsOf(page) == [i \in 1..Len(page) |-> page[i].row]

LEMMA PageParts ==
    ASSUME NEW page \in PageState
    PROVE  /\ Len(page) \in Nat /\ DOMAIN page = 1..Len(page)
           /\ \A i \in 1..Len(page) : page[i] \in SlotState /\ page[i].row \in Row
           /\ RowsOf(page) \in Seq(Row) /\ Len(RowsOf(page)) = Len(page)
           /\ Scanned(page) \in Seq(Row) /\ Len(Scanned(page)) = Len(page)
<1>1. page \in Seq(SlotState) /\ DOMAIN page = 1..Len(page) /\ Len(page) \in Nat
      /\ \A i \in 1..Len(page) : page[i] \in SlotState
  BY DEF PageState
<1>2. \A i \in 1..Len(page) : page[i].row \in Row
  BY <1>1, RowTypes
<1>3. RowsOf(page) \in Seq(Row) /\ Len(RowsOf(page)) = Len(page)
  BY <1>1, <1>2 DEF RowsOf
<1>4. Scanned(page) \in Seq(Row) /\ Len(Scanned(page)) = Len(page)
  BY <1>1, <1>2, RowTypes DEF Scanned
<1> QED
  BY <1>1, <1>2, <1>3, <1>4

LEMMA SlotsFinite ==
    ASSUME NEW page \in PageState, NEW P \in SUBSET (1..Len(page))
    PROVE  P \in SUBSET Nat /\ IsFiniteSet(P) /\ (P # {} => Cardinality(P) # 0)
<1>1. Len(page) \in Nat
  BY PageParts
<1>2. IsFiniteSet(1..Len(page))
  BY <1>1, FS_Interval
<1>3. IsFiniteSet(P)
  BY <1>2, FS_Subset
<1> QED
  BY <1>3, FS_EmptySet

\* The rows in some slots, as a part of all rows.
LEMMA RowsAtKept ==
    ASSUME NEW page \in PageState, NEW P \in SUBSET (1..Len(page))
    PROVE  RowsAt(page, P) = Kept(RowsOf(page), P)
<1>1. P \in SUBSET Nat /\ IsFiniteSet(P)
  BY SlotsFinite
<1>2. \A k \in 1..Cardinality(P) : \E i \in P : Rank(P, i) = k
  BY <1>1, RankProperties
<1>3. ASSUME NEW k \in 1..Cardinality(P)
      PROVE  RowsOf(page)[CHOOSE i \in P : Rank(P, i) = k] = page[CHOOSE i \in P : Rank(P, i) = k].row
  <2>1. (CHOOSE i \in P : Rank(P, i) = k) \in P
    BY <1>2
  <2> QED
    BY <2>1 DEF RowsOf
<1>4. Kept(page, P) = [k \in 1..Cardinality(P) |-> page[CHOOSE i \in P : Rank(P, i) = k]]
  BY Zenon DEF Kept
<1>5. RowsAt(page, P) = [k \in 1..Cardinality(P) |-> page[CHOOSE i \in P : Rank(P, i) = k].row]
  BY <1>4 DEF RowsAt
<1>6. Kept(RowsOf(page), P) = [k \in 1..Cardinality(P) |-> RowsOf(page)[CHOOSE i \in P : Rank(P, i) = k]]
  BY Zenon DEF Kept
<1> QED
  BY <1>3, <1>5, <1>6, Zenon

\* The places a filter lets pass, every place without one.
Places(page, where) ==
    IF where.col = "none" THEN 1..Len(page)
    ELSE {i \in 1..Len(page) : Scanned(page)[i] # EmptyRow /\ Scanned(page)[i][where.col] = where.is}

LEMMA SelectedIsKept ==
    ASSUME NEW page \in PageState, NEW where
    PROVE  /\ Selected(page, where) = Kept(Scanned(page), Places(page, where))
           /\ Places(page, where) \in SUBSET (1..Len(page))
<1> DEFINE rows == Scanned(page)
<1>1. rows \in Seq(Row) /\ Len(rows) = Len(page) /\ DOMAIN rows = 1..Len(page)
  BY PageParts DEF Scanned
<1>2. Selected(page, where) =
        IF where.col = "none" THEN rows
        ELSE Kept(rows, {i \in DOMAIN rows : rows[i] # EmptyRow /\ rows[i][where.col] = where.is})
  BY DEF Selected
<1> HIDE DEF rows
<1>3. Kept(rows, 1..Len(rows)) = rows
  BY <1>1, KeptAll
<1>4. CASE where.col = "none"
  BY <1>1, <1>2, <1>3, <1>4 DEF Places, rows
<1>5. CASE where.col # "none"
  BY <1>1, <1>2, <1>5 DEF Places, rows
<1> QED
  BY <1>4, <1>5

\* Where the rows of a statement come from, one after the other.
Enumerates(at, page, where) ==
    LET rows == Selected(page, where)
    IN  /\ at \in [1..Len(rows) -> Places(page, where)]
        /\ \A k \in 1..Len(rows) : rows[k] = Scanned(page)[at[k]]
        /\ \A k, l \in 1..Len(rows) : k < l => at[k] < at[l]
        /\ \A i \in Places(page, where) : \E k \in 1..Len(rows) : at[k] = i

LEMMA SelectedEnumerated ==
    ASSUME NEW page \in PageState, NEW where
    PROVE  \E at : Enumerates(at, page, where)
<1> DEFINE rows == Scanned(page)
           P == Places(page, where)
<1>1. rows \in Seq(Row) /\ Len(rows) = Len(page) /\ P \in SUBSET (1..Len(page))
      /\ Selected(page, where) = Kept(rows, P)
  BY PageParts, SelectedIsKept
<1> HIDE DEF rows, P
<1>0. rows \in Seq(Row) /\ P \in SUBSET (1..Len(rows))
  BY <1>1
<1>2. Len(Kept(rows, P)) = Cardinality(P)
  BY <1>0, KeptProperties
<1>3. PICK at \in [1..Cardinality(P) -> P] :
          /\ \A k \in 1..Cardinality(P) : Kept(rows, P)[k] = rows[at[k]]
          /\ \A k, l \in 1..Cardinality(P) : k < l => at[k] < at[l]
          /\ \A i \in P : \E k \in 1..Cardinality(P) : at[k] = i
  BY <1>0, KeptProperties
<1>4. Enumerates(at, page, where)
  BY <1>1, <1>2, <1>3, Zenon DEF Enumerates, rows, P
<1> QED
  BY <1>4

LEMMA EnumeratedParts ==
    ASSUME NEW page \in PageState, NEW where, NEW at, Enumerates(at, page, where),
           NEW rows, rows = Selected(page, where)
    PROVE  /\ rows \in Seq(Row) /\ Len(rows) \in Nat
           /\ \A k \in 1..Len(rows) :
                /\ at[k] \in 1..Len(page) /\ at[k] \in Nat /\ rows[k] \in Row
                /\ rows[k].id # NoValue => IsLive(page[at[k]]) /\ rows[k] = page[at[k]].row
<1>1. rows \in Seq(Row) /\ Len(rows) \in Nat
  <2>1. rows \in Seq(Row)
    BY SelectedType
  <2> QED
    BY <2>1
<1>2. ASSUME NEW k \in 1..Len(rows)
      PROVE  /\ at[k] \in 1..Len(page) /\ at[k] \in Nat /\ rows[k] \in Row
             /\ rows[k].id # NoValue => IsLive(page[at[k]]) /\ rows[k] = page[at[k]].row
  <2>1. at[k] \in 1..Len(page) /\ rows[k] = Scanned(page)[at[k]]
    BY SelectedIsKept DEF Enumerates
  <2>2. at[k] \in Nat
    BY <2>1
  <2>3. rows[k] = IF IsLive(page[at[k]]) THEN page[at[k]].row ELSE EmptyRow
    BY <2>1 DEF Scanned
  <2>4. rows[k] \in Row
    BY <1>1
  <2> QED
    BY <2>1, <2>2, <2>3, <2>4, RowTypes
<1> QED
  BY <1>1, <1>2

\* Half-way: the records of the first k rows are gone, the others as they were.
Halfway(found, page, at, k) ==
    \A i \in 1..Len(found) :
        /\ page[i].row = found[i].row
        /\ IsLive(page[i]) <=> IsLive(found[i]) /\ \A j \in 1..k : at[j] # i

\* SET on one row, and on several.
Put(row, set) == [row EXCEPT ![set.col] = set.to]
PutAll(rows, set) == [i \in 1..Len(rows) |-> Put(rows[i], set)]

\* A DELETE adds nothing, an UPDATE a record for each row it is done with.
Added(found, page, rows, k, set) ==
    /\ Len(page) = Len(found) + k
    /\ \A j \in 1..k : /\ IsLive(page[Len(found) + j])
                       /\ page[Len(found) + j].row = Put(rows[j], set)

\* If the ids are unambiguous, the search by id finds the next row's own place.
LEMMA NextPlace ==
    ASSUME NEW found \in PageState, NEW page \in PageState, NEW where, NEW at, Enumerates(at, found, where),
           NEW rows, rows = Selected(found, where), NEW k \in 0..(Len(rows) - 1),
           Unambiguous(found), Halfway(found, page, at, k), \A j \in 1..k : rows[j].id # NoValue,
           Len(page) >= Len(found),
           \A i \in (Len(found) + 1)..Len(page) : \E j \in 1..k : page[i].row.id = rows[j].id,
           NEW p, p = at[k + 1], rows[k + 1].id # NoValue
    PROVE  /\ TargetSlot(page, rows[k + 1].id) = p
           /\ p \in 1..Len(found) /\ p \in 1..Len(page) /\ p # 0
<1> DEFINE x == rows[k + 1].id
<1>0. Len(rows) \in Nat /\ Len(page) \in Nat /\ Len(found) \in Nat
  BY PageParts, EnumeratedParts
<1>1. k + 1 \in 1..Len(rows) /\ k \in Nat /\ (\A j \in 1..k : j \in 1..Len(rows) /\ j < k + 1)
  BY <1>0
<1>2. p \in 1..Len(found) /\ IsLive(found[p]) /\ found[p].row.id = x
  BY <1>1, EnumeratedParts
<1>3. \A j \in 1..k : at[j] # p
  <2>1. TAKE j \in 1..k
  <2>2. at[j] < at[k + 1]
    BY <1>1, Zenon DEF Enumerates
  <2>3. at[j] \in Nat
    BY <1>1, EnumeratedParts
  <2> QED
    BY <2>2, <2>3
<1>4. ASSUME NEW i \in 1..Len(found), i # p PROVE ~Finds(found[i], x)
  BY <1>2, <1>4 DEF Unambiguous
<1> HIDE DEF x
<1>5. ASSUME NEW i \in 1..Len(found), i # p PROVE ~Finds(page[i], x)
  BY <1>4, <1>5 DEF Finds, Halfway
<1>6. ASSUME NEW i \in (Len(found) + 1)..Len(page) PROVE ~Finds(page[i], x)
  <2>1. PICK j \in 1..k : page[i].row.id = rows[j].id
    OBVIOUS
  <2>2. IsLive(found[at[j]]) /\ rows[j] = found[at[j]].row /\ at[j] \in 1..Len(found)
    <3>1. j \in 1..Len(rows) /\ rows[j].id # NoValue
      BY <1>1
    <3> QED
      BY <3>1, EnumeratedParts
  <2>3. ~Finds(found[at[j]], x)
    BY <1>3, <1>4, <2>2
  <2> QED
    BY <2>1, <2>2, <2>3 DEF Finds
<1>7. Finds(page[p], x)
  BY <1>2, <1>3 DEF Finds, Halfway
<1>8. p \in 1..Len(page) /\ \A i \in 1..Len(page) : i \in 1..Len(found) \/ i \in (Len(found) + 1)..Len(page)
  BY <1>0, <1>2
<1>9. {i \in 1..Len(page) : Finds(page[i], x)} = {p}
  BY <1>5, <1>6, <1>7, <1>8
<1>10. TargetSlot(page, x) = p
  <2>1. (CHOOSE i \in {p} : \A j \in {p} : i <= j) = p
    BY <1>8
  <2> QED
    BY <1>9, <2>1 DEF TargetSlot
<1> QED
  BY <1>2, <1>8, <1>10 DEF x

\* When all rows are done, what is left is what was not selected, and after it
\* what an UPDATE has added.
LEMMA ChosenPlaces ==
    ASSUME NEW found \in PageState, NEW where \in Condition, NEW at, Enumerates(at, found, where),
           NEW rows, rows = Selected(found, where), \A j \in 1..Len(rows) : rows[j].id # NoValue,
           NEW chosen, chosen = {i \in Live(found) : Matches(found[i].row, where)}
    PROVE  /\ chosen = Places(found, where)
           /\ chosen \in SUBSET (1..Len(found))
           /\ RowsAt(found, chosen) = rows
<1>1. /\ rows = Kept(Scanned(found), Places(found, where))
      /\ Places(found, where) \in SUBSET (1..Len(found))
      /\ DOMAIN found = 1..Len(found)
  BY SelectedIsKept, PageParts
<1>2. ASSUME NEW i \in Places(found, where)
      PROVE  IsLive(found[i]) /\ Scanned(found)[i] = found[i].row
  <2>1. PICK j \in 1..Len(rows) : at[j] = i
    BY DEF Enumerates
  <2>2. rows[j].id # NoValue
    OBVIOUS
  <2>3. IsLive(found[i])
    BY <2>1, <2>2, EnumeratedParts
  <2> QED
    BY <1>1, <2>3 DEF Scanned
<1>3. chosen = Places(found, where)
  <2>1. CASE where.col = "none"
    <3>1. Places(found, where) = 1..Len(found)
      BY <2>1 DEF Places
    <3>2. Live(found) = 1..Len(found)
      BY <1>1, <1>2, <3>1 DEF Live
    <3> QED
      BY <2>1, <3>1, <3>2 DEF Matches
  <2>2. CASE where.col # "none"
    <3>1. where.is # NoValue /\ where.col \in {"id", "val"}
      BY <2>2, ParameterAssumption DEF Condition, Everywhere
    <3>2. EmptyRow[where.col] = NoValue
      BY <3>1 DEF EmptyRow
    <3>3. \A i \in Live(found) : i \in 1..Len(found) /\ Scanned(found)[i] = found[i].row
      BY <1>1 DEF Live, Scanned
    <3>4. ASSUME NEW i \in chosen PROVE i \in Places(found, where)
      <4>1. i \in Live(found) /\ found[i].row[where.col] = where.is
        BY <2>2 DEF Matches
      <4>2. Scanned(found)[i] # EmptyRow /\ Scanned(found)[i][where.col] = where.is
        BY <3>1, <3>2, <3>3, <4>1
      <4> QED
        BY <2>2, <3>3, <4>1, <4>2 DEF Places
    <3>5. ASSUME NEW i \in Places(found, where) PROVE i \in chosen
      <4>1. i \in Live(found)
        BY <1>1, <1>2 DEF Live
      <4>2. Scanned(found)[i][where.col] = where.is
        BY <2>2 DEF Places
      <4> QED
        BY <1>2, <4>1, <4>2 DEF Matches
    <3> QED
      BY <3>4, <3>5
  <2> QED
    BY <2>1, <2>2
<1>4. RowsAt(found, chosen) = Kept(RowsOf(found), chosen)
  BY <1>1, <1>3, RowsAtKept
<1>5. Kept(RowsOf(found), chosen) = Kept(Scanned(found), chosen)
  <2>1. chosen \in SUBSET Nat /\ IsFiniteSet(chosen)
    BY <1>1, <1>3, SlotsFinite
  <2>2. \A i \in chosen : RowsOf(found)[i] = Scanned(found)[i]
    BY <1>1, <1>2, <1>3 DEF RowsOf
  <2> QED
    BY <2>1, <2>2, KeptSame
<1> QED
  BY <1>1, <1>3, <1>4, <1>5

LEMMA RowsLeft ==
    ASSUME NEW found \in PageState, NEW page \in PageState, NEW where \in Condition, NEW at,
           Enumerates(at, found, where), NEW rows, rows = Selected(found, where),
           \A j \in 1..Len(rows) : rows[j].id # NoValue, Halfway(found, page, at, Len(rows)),
           NEW chosen, chosen = {i \in Live(found) : Matches(found[i].row, where)},
           Len(page) >= Len(found), \A i \in (Len(found) + 1)..Len(page) : IsLive(page[i])
    PROVE  Rows(page) = RowsAt(found, Live(found) \ chosen)
                        \o SubSeq(RowsOf(page), Len(found) + 1, Len(page))
<1> DEFINE n == Len(found)
           kept == Live(found) \ chosen
           end == (n + 1)..Len(page)
<1>1. /\ n \in Nat /\ Len(page) \in Nat /\ DOMAIN found = 1..n /\ DOMAIN page = 1..Len(page)
      /\ RowsOf(page) \in Seq(Row) /\ Len(RowsOf(page)) = Len(page)
  BY PageParts
<1>2. chosen = Places(found, where)
  BY ChosenPlaces
<1>3. \A i \in 1..n : IsLive(page[i]) <=> i \in kept
  <2>1. TAKE i \in 1..n
  <2>2. (\A j \in 1..Len(rows) : at[j] # i) <=> i \notin Places(found, where)
    <3>1. \A j \in 1..Len(rows) : at[j] \in Places(found, where)
      BY DEF Enumerates
    <3>2. i \in Places(found, where) => \E j \in 1..Len(rows) : at[j] = i
      BY Zenon DEF Enumerates
    <3> QED
      BY <3>1, <3>2
  <2> QED
    BY <1>1, <1>2, <2>2 DEF Halfway, Live
<1>4. kept \in SUBSET (1..n)
  BY <1>1 DEF Live
<1>5. Live(page) = kept \cup end
  <2>1. \A i : i \in 1..Len(page) <=> i \in 1..n \/ i \in end
    BY <1>1
  <2> HIDE DEF kept, end
  <2> QED
    BY <1>1, <1>3, <1>4, <2>1 DEF Live, end
<1>6. Live(page) \in SUBSET (1..Len(page))
  BY <1>1 DEF Live
<1>7. Rows(page) = Kept(RowsOf(page), kept \cup end)
  BY <1>5, <1>6, RowsAtKept DEF Rows
<1>8. Kept(RowsOf(page), kept \cup end) = Kept(RowsOf(page), kept) \o SubSeq(RowsOf(page), n + 1, Len(page))
  <2> DEFINE s == RowsOf(page)
  <2>1. s \in Seq(Row) /\ n \in 0..Len(s) /\ Len(s) = Len(page)
    BY <1>1
  <2> HIDE DEF s, n, kept
  <2>2. Kept(s, kept \cup ((n + 1)..Len(s))) = Kept(s, kept) \o SubSeq(s, n + 1, Len(s))
    BY <1>4, <2>1, KeptEnd
  <2> QED
    BY <2>1, <2>2 DEF s
<1>9. Kept(RowsOf(page), kept) = Kept(RowsOf(found), kept)
  <2>1. kept \in SUBSET Nat /\ IsFiniteSet(kept)
    <3> HIDE DEF kept
    <3> QED
      BY <1>4, SlotsFinite
  <2>2. \A i \in kept : RowsOf(page)[i] = RowsOf(found)[i]
    <3>1. \A i \in 1..n : i \in 1..Len(page)
      BY <1>1
    <3> QED
      BY <1>4, <3>1 DEF RowsOf, Halfway
  <2> HIDE DEF kept
  <2> QED
    BY <2>1, <2>2, KeptSame
<1>10. RowsAt(found, kept) = Kept(RowsOf(found), kept)
  <2> HIDE DEF kept
  <2> QED
    BY <1>4, RowsAtKept
<1> QED
  BY <1>7, <1>8, <1>9, <1>10

Deleting == {"delete_row", "delete_log", "delete_write"}
Updating == {"update_row", "update_write", "update_log"}

\* A DELETE or UPDATE that has found the page "found" and made "page" of it: k
\* rows are done, the row being logged among them.
Midway(t, found, page, at, k) ==
    LET rows == Selected(found, t.where)
        gone == IF t.do \in {"delete_row", "delete_write", "update_row"} THEN k ELSE k - 1
    IN  /\ Enumerates(at, found, t.where)
        /\ k \in 0..Len(rows) /\ gone \in Nat
        /\ Len(t.rows) = Len(rows) - gone
        /\ \A j \in 1..Len(t.rows) : t.rows[j] = rows[gone + j]
        /\ t.do = "delete_write" => k = Len(rows)
        /\ \A j \in 1..k : rows[j].id # NoValue
        /\ Halfway(found, page, at, k)
        /\ t.do \in Deleting => Len(page) = Len(found)
        /\ t.do \in Updating => Added(found, page, rows, k, t.set)

\* While ids are unambiguous, and the key is not what is SET, every DELETE and
\* UPDATE is midway.
Selects(t, found, pool) ==
    t.do \in Deleting \cup Updating /\ Unambiguous(found) /\ (t.do \in Updating => t.set.col = "val")
    => \E page \in PageState : \E at, k : pool = {page} /\ Midway(t, found, page, at, k)

SelectInv == /\ before \in [Client -> PageState]
             /\ \A c \in Client : Selects(task[c], before[c], cache[c])

LEMMA BeginsMidway ==
    ASSUME NEW found \in PageState, NEW t \in Task, t.do \in {"delete_row", "update_row"},
           t.rows = Selected(found, t.where)
    PROVE  Selects(t, found, {found})
<1> DEFINE rows == Selected(found, t.where)
<1>1. PICK at : Enumerates(at, found, t.where)
  BY SelectedEnumerated
<1>2. Len(rows) \in Nat /\ Len(found) \in Nat
  BY <1>1, EnumeratedParts, PageParts
<1> HIDE DEF rows
<1>3. Halfway(found, found, at, 0) /\ Added(found, found, rows, 0, t.set)
  BY <1>2 DEF Halfway, Added
<1>4. 0 \in 0..Len(rows) /\ \A j \in 1..Len(rows) : 0 + j = j
  BY <1>2
<1>5. t.rows = rows /\ t.do # "delete_write"
  BY DEF rows
<1>6. Len(t.rows) = Len(rows) - 0 /\ \A j \in 1..Len(t.rows) : t.rows[j] = rows[0 + j]
  BY <1>2, <1>4, <1>5
<1>7. Midway(t, found, found, at, 0)
  BY <1>1, <1>2, <1>3, <1>4, <1>5, <1>6 DEF Midway, rows
<1> QED
  BY <1>7 DEF Selects

\* The row at the head of those left is the next of all rows.
LEMMA NextOfAll ==
    ASSUME NEW t, t.rows \in Seq(Row), t.rows # <<>>, NEW found, NEW page, NEW at, NEW k, Midway(t, found, page, at, k),
           t.do \in {"delete_row", "update_row"}, NEW rows, rows = Selected(found, t.where), Len(rows) \in Nat
    PROVE  /\ k \in 0..(Len(rows) - 1) /\ k \in Nat /\ Head(t.rows) = rows[k + 1]
           /\ Len(t.rows) = Len(rows) - k /\ \A j \in 1..Len(t.rows) : t.rows[j] = rows[k + j]
<1>1. /\ k \in 0..Len(rows) /\ Len(t.rows) = Len(rows) - k /\ t.do # "delete_write"
      /\ \A j \in 1..Len(t.rows) : t.rows[j] = rows[k + j]
  BY Zenon DEF Midway
<1>2. 1 \in 1..Len(t.rows) /\ Head(t.rows) = t.rows[1] /\ Len(t.rows) \in Nat
  OBVIOUS
<1>3. t.rows[1] = rows[k + 1]
  BY <1>1, <1>2
<1> QED
  BY <1>1, <1>2, <1>3

\* One record more is gone.
LEMMA HalfwayOn ==
    ASSUME NEW found \in PageState, NEW page \in PageState, NEW at, NEW k \in Nat, Halfway(found, page, at, k),
           NEW n \in Nat, k + 1 <= n, \A j \in 1..n : at[j] \in Nat,
           NEW q, Len(found) <= Len(page),
           \A i \in 1..Len(page) : /\ q[i].row = page[i].row
                                   /\ IsLive(q[i]) <=> IsLive(page[i]) /\ i # at[k + 1]
    PROVE  Halfway(found, q, at, k + 1)
<1>1. SUFFICES ASSUME NEW i \in 1..Len(found)
               PROVE  /\ q[i].row = found[i].row
                      /\ IsLive(q[i]) <=> IsLive(found[i]) /\ \A j \in 1..(k + 1) : at[j] # i
  BY DEF Halfway
<1>2. i \in 1..Len(page)
  BY PageParts
<1>3. \A j : j \in 1..(k + 1) <=> j \in 1..k \/ j = k + 1
  OBVIOUS
<1>4. page[i].row = found[i].row /\ (IsLive(page[i]) <=> IsLive(found[i]) /\ \A j \in 1..k : at[j] # i)
  BY DEF Halfway
<1> QED
  BY <1>2, <1>3, <1>4

LEMMA DeletesMidway ==
    ASSUME NEW found \in PageState, NEW page \in PageState, NEW t \in Task, NEW at, NEW k,
           Midway(t, found, page, at, k), t.do = "delete_row", t.rows # <<>>, Unambiguous(found),
           Head(t.rows).id # NoValue,
           NEW q, q = WithStatus(page, TargetSlot(page, Head(t.rows).id), "deleted"),
           NEW u, u = [t EXCEPT !.do = "delete_log"]
    PROVE  Midway(u, found, q, at, k + 1) /\ TargetSlot(page, Head(t.rows).id) # 0 /\ q \in PageState
<1> DEFINE rows == Selected(found, t.where)
           p == at[k + 1]
<1>1. Len(rows) \in Nat /\ Len(found) \in Nat /\ Len(page) \in Nat /\ t.rows \in Seq(Row)
  BY SelectedType, PageParts DEF Task
<1>2. /\ Enumerates(at, found, t.where) /\ Halfway(found, page, at, k) /\ Len(page) = Len(found)
      /\ \A j \in 1..k : rows[j].id # NoValue
  BY DEF Midway, Deleting
<1>3. /\ k \in 0..(Len(rows) - 1) /\ k \in Nat /\ Head(t.rows) = rows[k + 1]
      /\ Len(t.rows) = Len(rows) - k /\ \A j \in 1..Len(t.rows) : t.rows[j] = rows[k + j]
  BY <1>1, NextOfAll
<1>4. rows[k + 1].id # NoValue
  BY <1>3
<1> HIDE DEF rows
<1>5. ASSUME NEW i \in (Len(found) + 1)..Len(page) PROVE \E j \in 1..k : page[i].row.id = rows[j].id
  BY <1>1, <1>2
<1>6. Len(page) >= Len(found)
  BY <1>1, <1>2
<1>7. TargetSlot(page, rows[k + 1].id) = p /\ p \in 1..Len(found) /\ p \in 1..Len(page) /\ p # 0
  <2>1. /\ Enumerates(at, found, t.where) /\ Halfway(found, page, at, k)
        /\ \A j \in 1..k : rows[j].id # NoValue
    BY <1>2
  <2>2. k \in 0..(Len(rows) - 1)
    BY <1>3
  <2> QED
    BY <1>4, <1>5, <1>6, <2>1, <2>2, NextPlace DEF rows
<1> HIDE DEF p
<1>8. q = WithStatus(page, p, "deleted")
  BY <1>3, <1>7
<1>9. /\ q \in PageState /\ Len(q) = Len(page)
      /\ \A i \in 1..Len(page) : /\ q[i].row = page[i].row
                                 /\ q[i].status = IF i = p THEN "deleted" ELSE page[i].status
  BY <1>8, StatusChange
<1>10. Halfway(found, q, at, k + 1)
  <2>1. \A i \in 1..Len(page) : q[i].row = page[i].row /\ (IsLive(q[i]) <=> IsLive(page[i]) /\ i # at[k + 1])
    BY <1>9 DEF IsLive, p
  <2>2. k + 1 <= Len(rows) /\ \A j \in 1..Len(rows) : at[j] \in Nat
    BY <1>1, <1>2, <1>3, EnumeratedParts DEF rows
  <2> QED
    BY <1>1, <1>2, <1>3, <1>6, <2>1, <2>2, HalfwayOn
<1>11. u.do = "delete_log" /\ u.rows = t.rows /\ u.where = t.where /\ u.set = t.set
  BY DEF Task
<1>12. \A j \in 1..(k + 1) : rows[j].id # NoValue
  <2>1. \A j \in 1..(k + 1) : j \in 1..k \/ j = k + 1
    BY <1>3
  <2> QED
    BY <1>2, <1>4, <2>1
<1>13. k + 1 \in 0..Len(rows) /\ (k + 1) - 1 = k
  BY <1>1, <1>3
<1>14. Midway(u, found, q, at, k + 1)
  BY <1>2, <1>3, <1>9, <1>10, <1>11, <1>12, <1>13 DEF Midway, rows, Updating
<1> QED
  BY <1>3, <1>7, <1>9, <1>14

LEMMA UpdatesMidway ==
    ASSUME NEW found \in PageState, NEW page \in PageState, NEW t \in Task, NEW at, NEW k,
           Midway(t, found, page, at, k), t.do = "update_row", t.rows # <<>>, Unambiguous(found),
           t.set.col = "val", NEW row, row = Put(Head(t.rows), t.set), row.id # NoValue,
           row \in Row, NEW u, u = [t EXCEPT !.do = "update_write"]
    PROVE  LET q == Append(WithStatus(page, TargetSlot(page, row.id), "replaced"), NewRecord(row, "update"))
           IN  Midway(u, found, q, at, k + 1) /\ TargetSlot(page, row.id) # 0 /\ q \in PageState
<1> DEFINE rows == Selected(found, t.where)
           p == at[k + 1]
           rest == WithStatus(page, TargetSlot(page, row.id), "replaced")
           q == Append(rest, NewRecord(row, "update"))
<1>1. Len(rows) \in Nat /\ Len(found) \in Nat /\ Len(page) \in Nat /\ t.rows \in Seq(Row)
  BY SelectedType, PageParts DEF Task
<1>2. /\ Enumerates(at, found, t.where) /\ Halfway(found, page, at, k) /\ Added(found, page, rows, k, t.set)
      /\ \A j \in 1..k : rows[j].id # NoValue
  BY DEF Midway, Updating
<1>3. /\ k \in 0..(Len(rows) - 1) /\ k \in Nat /\ Head(t.rows) = rows[k + 1]
      /\ Len(t.rows) = Len(rows) - k /\ \A j \in 1..Len(t.rows) : t.rows[j] = rows[k + j]
  BY <1>1, NextOfAll
<1>3a. \A j \in 1..Len(rows) : at[j] \in Nat /\ rows[j] \in Row
  BY <1>2, EnumeratedParts
<1>3b. k + 1 \in 1..Len(rows) /\ k + 1 <= Len(rows) /\ \A j \in 1..k : j \in 1..Len(rows)
  BY <1>1, <1>3
<1> HIDE DEF rows, rest, q
<1>4. row.id = rows[k + 1].id /\ rows[k + 1].id # NoValue
  <2>1. rows[k + 1] \in Row
    BY <1>3a, <1>3b
  <2> QED
    BY <1>3, <2>1 DEF Row, Put
<1>5. Len(page) = Len(found) + k
  BY <1>2 DEF Added
<1>6. ASSUME NEW i \in (Len(found) + 1)..Len(page) PROVE \E j \in 1..k : page[i].row.id = rows[j].id
  <2> DEFINE j == i - Len(found)
  <2>1. j \in 1..k /\ Len(found) + j = i
    BY <1>1, <1>3, <1>5
  <2>2. page[i].row = Put(rows[j], t.set) /\ rows[j] \in Row
    BY <1>2, <1>3a, <1>3b, <2>1 DEF Added
  <2> HIDE DEF j
  <2>3. page[i].row.id = rows[j].id
    BY <2>2 DEF Row, Put
  <2> QED
    BY <2>1, <2>3
<1>7. TargetSlot(page, rows[k + 1].id) = p /\ p \in 1..Len(found) /\ p \in 1..Len(page) /\ p # 0
  <2>1. Len(page) >= Len(found)
    BY <1>1, <1>3, <1>5
  <2>2. /\ Enumerates(at, found, t.where) /\ Halfway(found, page, at, k)
        /\ \A j \in 1..k : rows[j].id # NoValue
    BY <1>2
  <2>3. k \in 0..(Len(rows) - 1)
    BY <1>3
  <2> QED
    BY <1>4, <1>6, <2>1, <2>2, <2>3, NextPlace DEF rows
<1> HIDE DEF p
<1>8. rest = WithStatus(page, p, "replaced")
  BY <1>4, <1>7 DEF rest
<1>9. /\ rest \in PageState /\ Len(rest) = Len(page)
      /\ \A i \in 1..Len(page) : /\ rest[i].row = page[i].row
                                 /\ rest[i].status = IF i = p THEN "replaced" ELSE page[i].status
  BY <1>8, StatusChange
<1> DEFINE new == NewRecord(row, "update")
<1>9a. new \in SlotState /\ IsLive(new) /\ new.row = row
  BY DEF NewRecord, SlotState, IsLive
<1> HIDE DEF new
<1>9b. /\ q \in PageState /\ Len(q) = Len(page) + 1 /\ q[Len(page) + 1] = new
       /\ \A i \in 1..Len(page) : q[i] = rest[i]
  BY <1>9, <1>9a, SlotAdded DEF new, q
<1>10. Halfway(found, q, at, k + 1)
  <2>1. \A i \in 1..Len(page) : q[i].row = page[i].row /\ (IsLive(q[i]) <=> IsLive(page[i]) /\ i # at[k + 1])
    BY <1>9, <1>9b DEF IsLive, p
  <2>2. Len(found) <= Len(page)
    BY <1>1, <1>3, <1>5
  <2> QED
    BY <1>1, <1>2, <1>3, <1>3a, <1>3b, <2>1, <2>2, HalfwayOn
<1>11. u.do = "update_write" /\ u.rows = t.rows /\ u.where = t.where /\ u.set = t.set
  BY DEF Task
<1>12. \A j \in 1..(k + 1) : j \in 1..k \/ j = k + 1
  BY <1>3
<1>13. \A j \in 1..(k + 1) : rows[j].id # NoValue
  BY <1>2, <1>4, <1>12
<1>14. Added(found, q, rows, k + 1, t.set)
  <2>1. Len(q) = Len(found) + (k + 1) /\ Len(page) + 1 = Len(found) + (k + 1)
    BY <1>1, <1>3, <1>5, <1>9b
  <2>2. ASSUME NEW j \in 1..(k + 1)
        PROVE  IsLive(q[Len(found) + j]) /\ q[Len(found) + j].row = Put(rows[j], t.set)
    <3>1. CASE j = k + 1
      BY <1>3, <1>9a, <1>9b, <2>1, <3>1
    <3>2. CASE j \in 1..k
      <4>1. Len(found) + j \in 1..Len(page)
        BY <1>1, <1>3, <1>5, <3>2
      <4>2. Len(found) + j # p
        BY <1>1, <1>7, <3>2
      <4>3. IsLive(page[Len(found) + j])
            /\ page[Len(found) + j].row = Put(rows[j], t.set)
        BY <1>2, <3>2 DEF Added
      <4> QED
        BY <1>9, <1>9b, <4>1, <4>2, <4>3 DEF IsLive
    <3> QED
      BY <1>12, <3>1, <3>2
  <2> QED
    BY <2>1, <2>2 DEF Added
<1>15. k + 1 \in 0..Len(rows) /\ (k + 1) - 1 = k
  BY <1>1, <1>3
<1>16. Midway(u, found, q, at, k + 1)
  BY <1>2, <1>3, <1>10, <1>11, <1>13, <1>14, <1>15 DEF Midway, rows, Deleting
<1> QED
  BY <1>4, <1>7, <1>9b, <1>16 DEF q, rest

LEMMA LastOne == \A n, k \in Nat : \A m : m = n - (k - 1) /\ m = 1 => k = n
  OBVIOUS

LEMMA LogsMidway ==
    ASSUME NEW found, NEW page, NEW t \in Task, NEW at, NEW k, Midway(t, found, page, at, k),
           t.do \in {"delete_log", "update_log"}, t.rows # <<>>,
           NEW next, next \in IF t.do = "delete_log" THEN {"delete_row", "delete_write"} ELSE {"update_row"},
           next = "delete_write" => Len(t.rows) = 1,
           Len(Selected(found, t.where)) \in Nat,
           NEW u, u = [t EXCEPT !.rows = Tail(t.rows), !.do = next]
    PROVE  Midway(u, found, page, at, k)
<1> DEFINE rows == Selected(found, t.where)
           s == t.rows
<1>1. /\ Enumerates(at, found, t.where) /\ k \in 0..Len(rows) /\ k - 1 \in Nat
      /\ Len(s) = Len(rows) - (k - 1) /\ \A j \in 1..Len(s) : s[j] = rows[(k - 1) + j]
      /\ \A j \in 1..k : rows[j].id # NoValue
      /\ Halfway(found, page, at, k)
      /\ t.do \in Deleting => Len(page) = Len(found)
      /\ t.do \in Updating => Added(found, page, rows, k, t.set)
  BY Zenon DEF Midway
<1>2. s \in Seq(Row) /\ s # <<>>
  BY DEF Task
<1>3. u.do = next /\ u.rows = Tail(s) /\ u.where = t.where /\ u.set = t.set
  BY DEF Task
<1>4. Len(rows) \in Nat
  OBVIOUS
<1> HIDE DEF s, rows
<1>5. Len(Tail(s)) = Len(s) - 1 /\ Len(s) \in Nat /\ Len(s) >= 1 /\ \A j \in 1..(Len(s) - 1) : Tail(s)[j] = s[j + 1]
  BY <1>2
<1>6. k \in Nat /\ k >= 1 /\ Len(Tail(s)) = Len(rows) - k
  BY <1>1, <1>4, <1>5
<1>7. ASSUME NEW j \in 1..Len(Tail(s)) PROVE Tail(s)[j] = rows[k + j]
  <2>1. j + 1 \in 1..Len(s) /\ j \in 1..(Len(s) - 1) /\ (k - 1) + (j + 1) = k + j
    BY <1>5, <1>6
  <2>2. s[j + 1] = rows[(k - 1) + (j + 1)]
    BY <1>1, <2>1
  <2> QED
    BY <1>5, <2>1, <2>2
<1>8. ASSUME next = "delete_write" PROVE k = Len(rows)
  <2>1. Len(s) = 1
    BY <1>8 DEF s
  <2>2. Len(s) = Len(rows) - (k - 1)
    BY <1>1
  <2> QED
    BY <1>4, <1>6, <2>1, <2>2, LastOne, Zenon
<1>9. /\ u.do \in {"delete_row", "delete_write", "update_row"}
      /\ u.do \in Deleting => t.do \in Deleting
      /\ u.do \in Updating => t.do \in Updating
  BY <1>3 DEF Deleting, Updating
<1> QED
  BY <1>1, <1>3, <1>6, <1>7, <1>8, <1>9 DEF Midway, rows

LEMMA WritesMidway ==
    ASSUME NEW found, NEW page, NEW t \in Task, NEW at, NEW k, Midway(t, found, page, at, k),
           t.do = "update_write", NEW u, u = [t EXCEPT !.do = "update_log"]
    PROVE  Midway(u, found, page, at, k)
<1>1. u.do = "update_log" /\ u.rows = t.rows /\ u.where = t.where /\ u.set = t.set
  BY DEF Task
<1> QED
  BY <1>1, Zenon DEF Midway, Deleting, Updating

\* A DELETE that comes to its end leaves what its condition does not choose.
LEMMA DeletedWhatItSelects ==
    ASSUME NEW found \in PageState, NEW page \in PageState, NEW t, t.where \in Condition, NEW at, NEW k,
           Midway(t, found, page, at, k), t.do = "delete_write",
           NEW chosen, chosen = {i \in Live(found) : Matches(found[i].row, t.where)}
    PROVE  Rows(page) = RowsAt(found, Live(found) \ chosen)
<1> DEFINE rows == Selected(found, t.where)
           kept == RowsAt(found, Live(found) \ chosen)
<1>1. /\ Enumerates(at, found, t.where) /\ k = Len(rows) /\ Len(page) = Len(found)
      /\ \A j \in 1..k : rows[j].id # NoValue
      /\ Halfway(found, page, at, k)
  BY DEF Midway, Deleting
<1>2. Len(page) \in Nat /\ Len(found) \in Nat /\ RowsOf(page) \in Seq(Row) /\ Len(RowsOf(page)) = Len(page)
  BY PageParts
<1> HIDE DEF rows
<1>3. /\ \A j \in 1..Len(rows) : rows[j].id # NoValue
      /\ Halfway(found, page, at, Len(rows)) /\ Len(page) >= Len(found)
      /\ \A i \in (Len(found) + 1)..Len(page) : IsLive(page[i])
  BY <1>1, <1>2
<1>4. Rows(page) = kept \o SubSeq(RowsOf(page), Len(found) + 1, Len(page))
  BY <1>1, <1>3, RowsLeft DEF rows
<1>5. kept \in Seq(Row)
  <2> DEFINE P == Live(found) \ chosen
  <2>1. P \in SUBSET (1..Len(found))
    BY PageParts DEF Live
  <2> HIDE DEF P
  <2>2. RowsAt(found, P) = Kept(RowsOf(found), P)
    BY <2>1, RowsAtKept
  <2>3. RowsOf(found) \in Seq(Row) /\ P \in SUBSET (1..Len(RowsOf(found)))
    BY <2>1, PageParts
  <2>4. Kept(RowsOf(found), P) \in Seq(Row)
    BY <2>3, KeptProperties
  <2> QED
    BY <2>2, <2>4 DEF P
<1> HIDE DEF kept
<1>6. SubSeq(RowsOf(page), Len(found) + 1, Len(page)) = <<>>
  BY <1>1, <1>2
<1>7. kept \o <<>> = kept
  BY <1>5
<1> QED
  BY <1>4, <1>6, <1>7 DEF kept

\* An UPDATE that comes to its end has put the rows it chose, changed, behind those.
LEMMA UpdatedWhatItSelects ==
    ASSUME NEW found \in PageState, NEW page \in PageState, NEW t \in Task, NEW at, NEW k,
           Midway(t, found, page, at, k), t.do = "update_log", Len(t.rows) = 1,
           NEW chosen, chosen = {i \in Live(found) : Matches(found[i].row, t.where)}
    PROVE  Rows(page) = RowsAt(found, Live(found) \ chosen) \o PutAll(RowsAt(found, chosen), t.set)
<1> DEFINE set == t.set
           old == RowsAt(found, chosen)
           rows == Selected(found, t.where)
           n == Len(found)
           new == PutAll(old, set)
<1>1. /\ Enumerates(at, found, t.where) /\ k \in 0..Len(rows) /\ k - 1 \in Nat
      /\ Len(t.rows) = Len(rows) - (k - 1)
      /\ \A j \in 1..k : rows[j].id # NoValue
      /\ Halfway(found, page, at, k) /\ Added(found, page, rows, k, set)
  BY DEF Midway, Updating
<1>2. /\ Len(page) \in Nat /\ n \in Nat /\ RowsOf(page) \in Seq(Row) /\ Len(RowsOf(page)) = Len(page)
      /\ Len(rows) \in Nat
  BY PageParts, <1>1, EnumeratedParts
<1>3. t.where \in Condition
  BY DEF Task
<1> HIDE DEF rows, n
<1>4. k = Len(rows)
  <2>1. Len(t.rows) = 1 /\ Len(t.rows) = Len(rows) - (k - 1) /\ Len(rows) \in Nat
    BY <1>1, <1>2, Zenon
  <2>2. k \in Nat
    BY <1>1, <1>2
  <2> QED
    BY <2>1, <2>2, LastOne, Zenon
<1>5. Len(page) = n + k /\ k \in Nat /\ \A j \in 1..k : /\ IsLive(page[n + j])
                                                        /\ page[n + j].row = Put(rows[j], set)
  BY <1>1, <1>2 DEF Added, n
<1>6. \A i \in (n + 1)..Len(page) : i - n \in 1..k /\ n + (i - n) = i
  BY <1>2, <1>5
<1>7. \A i \in (n + 1)..Len(page) : IsLive(page[i])
  BY <1>5, <1>6
<1>8. Len(page) >= n
  BY <1>2, <1>5
<1>9. Rows(page) = RowsAt(found, Live(found) \ chosen) \o SubSeq(RowsOf(page), n + 1, Len(page))
  BY <1>1, <1>3, <1>4, <1>7, <1>8, RowsLeft DEF rows, n
<1>10. old = rows
  BY <1>1, <1>3, <1>4, ChosenPlaces DEF rows
<1>11. SubSeq(RowsOf(page), n + 1, Len(page)) = new
  <2> DEFINE s == RowsOf(page)
             b == SubSeq(s, n + 1, Len(page))
  <2>1. \A i \in 1..Len(page) : s[i] = page[i].row
    BY DEF RowsOf
  <2>2. s \in Seq(Row) /\ Len(s) = n + k /\ Len(page) = n + k
    BY <1>2, <1>5
  <2> HIDE DEF s
  <2>3. b = [j \in 1..k |-> s[n + j]]
    BY <1>2, <1>5, <2>2
  <2>4. \A j \in 1..k : n + j \in 1..Len(page)
    BY <1>2, <1>5
  <2>5. new = [j \in 1..k |-> Put(rows[j], set)]
    BY <1>4, <1>10, Zenon DEF PutAll
  <2>6. \A j \in 1..k : s[n + j] = Put(rows[j], set)
    BY <1>5, <2>1, <2>4
  <2> QED
    BY <2>3, <2>5, <2>6 DEF s
<1> QED
  BY <1>9, <1>11 DEF n

\* What SelectInv says of a client whose ids identify rows.
LEMMA SelectsOn ==
    ASSUME Types, SelectInv, NEW c \in Client, task[c].do \in Deleting \cup Updating, Unambiguous(before[c]),
           task[c].do \in Updating => task[c].set.col = "val"
    PROVE  /\ PageOf(c) \in PageState /\ cache[c] = {PageOf(c)} /\ before[c] \in PageState
           /\ task[c] \in Task /\ task[c].rows \in Seq(Row) /\ Len(Selected(before[c], task[c].where)) \in Nat
           /\ \E at, k : Midway(task[c], before[c], PageOf(c), at, k)
<1>1. before[c] \in PageState /\ Selects(task[c], before[c], cache[c])
  BY DEF SelectInv
<1>2. PICK page \in PageState : \E at, k : cache[c] = {page} /\ Midway(task[c], before[c], page, at, k)
  BY <1>1, Zenon DEF Selects
<1>3. PageOf(c) = page
  BY <1>2 DEF PageOf
<1>4. task[c] \in Task
  BY DEF Types
<1>5. Selected(before[c], task[c].where) \in Seq(Row)
  BY <1>1, SelectedType
<1>6. task[c].rows \in Seq(Row) /\ Len(Selected(before[c], task[c].where)) \in Nat
  BY <1>4, <1>5 DEF Task
<1> QED
  BY <1>1, <1>2, <1>3, <1>4, <1>6

\* A step of one client.
LEMMA StepSelects ==
    ASSUME Types, SelectInv, NEW c \in Client, NEW t, task' = [task EXCEPT ![c] = t],
           UNCHANGED cache \/ \E page : Cache(c, page),
           UNCHANGED before \/ before' = [before EXCEPT ![c] = PageOf(c)],
           Selects(t, before'[c], cache'[c])
    PROVE  SelectInv'
<1>1. PageOf(c) \in PageState /\ before \in [Client -> PageState] /\ \A d \in Client : Selects(task[d], before[d], cache[d])
  BY PageType DEF SelectInv
<1>2. before' \in [Client -> PageState] /\ \A d \in Client \ {c} : before'[d] = before[d]
  BY <1>1
<1>3. \A d \in Client \ {c} : cache'[d] = cache[d]
  BY DEF Types, Cache
<1>4. task'[c] = t /\ \A d \in Client \ {c} : task'[d] = task[d]
  BY DEF Types
<1>5. \A d \in Client : Selects(task'[d], before'[d], cache'[d])
  <2>1. TAKE d \in Client
  <2>2. CASE d = c
    BY <1>4, <2>2
  <2>3. CASE d # c
    BY <1>1, <1>2, <1>3, <1>4, <2>3
  <2> QED
    BY <2>2, <2>3
<1> QED
  BY <1>2, <1>5 DEF SelectInv

LEMMA OtherSteps == \A t, found, pool : t.do \notin Deleting \cup Updating => Selects(t, found, pool)
  BY DEF Selects

LEMMA FinishSelects ==
    ASSUME Types, SelectInv, NEW c \in Client, Finish(c), UNCHANGED cache \/ \E page : Cache(c, page),
           UNCHANGED before \/ before' = [before EXCEPT ![c] = PageOf(c)]
    PROVE  SelectInv'
<1>1. Idle.do \notin Deleting \cup Updating
  BY DEF Idle, Deleting, Updating
<1>2. task' = [task EXCEPT ![c] = Idle]
  BY DEF Finish
<1> QED
  BY <1>1, <1>2, OtherSteps, StepSelects

LEMMA DoSelects ==
    ASSUME Types, SelectInv, NEW c \in Client, NEW step, Do(c, step), UNCHANGED cache \/ \E page : Cache(c, page),
           UNCHANGED before, step \notin Deleting \cup Updating
    PROVE  SelectInv'
<1> DEFINE t == [task[c] EXCEPT !.do = step]
<1>1. task' = [task EXCEPT ![c] = t]
  BY DEF Do
<1>2. t.do = step
  BY DEF Types, Task
<1> HIDE DEF t
<1> QED
  BY <1>1, <1>2, OtherSteps, StepSelects

\* INSERT and rollback.
LEMMA OthersSelect ==
    ASSUME Types, SelectInv, NEW c \in Client,
           \/ \E row \in Row : InsertRow(c, row)
           \/ InsertLog(c) \/ InsertWrite(c)
           \/ \E n \in 1..MaxUndo : RollbackAsk(c, n)
           \/ RollbackConfirm(c) \/ UndoOne(c)
    PROVE  SelectInv'
<1>1. ASSUME NEW row \in Row, InsertRow(c, row)
      PROVE  SelectInv'
  <2>0. (Finish(c) \/ task' = [task EXCEPT ![c] = [Idle EXCEPT !.do = "insert_log"]]) /\ \E page : Cache(c, page)
    BY <1>1, InsertRowCases
  <2>1. \E t \in {Idle, [Idle EXCEPT !.do = "insert_log"]} : task' = [task EXCEPT ![c] = t]
    BY <2>0 DEF Finish
  <2>2. \A t \in {Idle, [Idle EXCEPT !.do = "insert_log"]} : t.do \notin Deleting \cup Updating
    BY DEF Idle, Deleting, Updating
  <2>3. before' = [before EXCEPT ![c] = PageOf(c)]
    BY <1>1, Zenon DEF InsertRow
  <2> QED
    BY <2>0, <2>1, <2>2, <2>3, OtherSteps, StepSelects
<1>2. CASE InsertLog(c)
  <2>1. Do(c, "insert_write") /\ UNCHANGED <<cache, before>>
    BY <1>2, Zenon DEF InsertLog
  <2> QED
    BY <2>1, DoSelects DEF Deleting, Updating
<1>3. CASE InsertWrite(c)
  <2>1. Finish(c) /\ UNCHANGED <<cache, before>>
    BY <1>3, Zenon DEF InsertWrite
  <2> QED
    BY <2>1, FinishSelects
<1>4. ASSUME NEW n \in 1..MaxUndo, RollbackAsk(c, n)
      PROVE  SelectInv'
  <2> DEFINE t == [Idle EXCEPT !.do = "confirm", !.todo = ToUndo(n), !.steps = n]
  <2>1. task' = [task EXCEPT ![c] = t] /\ UNCHANGED <<cache, before>>
    BY <1>4 DEF RollbackAsk, Begin
  <2>2. t.do \notin Deleting \cup Updating
    BY DEF Idle, Deleting, Updating
  <2> HIDE DEF t
  <2> QED
    BY <2>1, <2>2, OtherSteps, StepSelects
<1>5. CASE RollbackConfirm(c)
  <2>1. (Finish(c) \/ Do(c, "undo")) /\ UNCHANGED <<cache, before>>
    BY <1>5 DEF RollbackConfirm
  <2> QED
    BY <2>1, FinishSelects, DoSelects DEF Deleting, Updating
<1>6. CASE UndoOne(c)
  <2>1. /\ task[c].do = "undo" /\ (\E page : Cache(c, page))
        /\ Finish(c) \/ task' = [task EXCEPT ![c].todo = Tail(@)]
    BY <1>6, UndoOneParts
  <2>2. UNCHANGED before
    BY <1>6, Zenon DEF UndoOne
  <2>3. CASE Finish(c)
    BY <2>1, <2>2, <2>3, FinishSelects
  <2>4. CASE task' = [task EXCEPT ![c].todo = Tail(@)]
    <3> DEFINE todo == Tail(task[c].todo)
               t == [task[c] EXCEPT !.todo = todo]
    <3>1. task' = [task EXCEPT ![c] = t]
      BY <2>4
    <3> HIDE DEF todo
    <3>2. t.do = "undo"
      BY <2>1 DEF Types, Task
    <3> HIDE DEF t
    <3>3. t.do \notin Deleting \cup Updating
      BY <3>2 DEF Deleting, Updating
    <3> QED
      BY <2>1, <2>2, <3>1, <3>3, OtherSteps, StepSelects
  <2> QED
    BY <2>1, <2>3, <2>4
<1> QED
  BY <1>1, <1>2, <1>3, <1>4, <1>5, <1>6

LEMMA LeaveSelects ==
    ASSUME Types, SelectInv,
           CrashAndRestart \/ (\E c \in Client : Reconnect(c)) \/ \E c \in Client : UndoThrows(c)
    PROVE  SelectInv'
<1>1. before' \in [Client -> PageState]
  <2>1. UNCHANGED before \/ before' = [c \in Client |-> <<>>]
    BY DEF CrashAndRestart, Reconnect, UndoThrows
  <2>2. <<>> \in PageState
    BY DEF PageState
  <2> QED
    BY <2>1, <2>2 DEF SelectInv
<1>2. ASSUME NEW d \in Client
      PROVE  Selects(task[d], before[d], cache[d])'
  <2>1. CASE CrashAndRestart
    <3>1. task'[d].do \notin Deleting \cup Updating
      BY <2>1 DEF CrashAndRestart, Idle, Deleting, Updating
    <3> QED
      BY <3>1, OtherSteps
  <2>2. ASSUME NEW c \in Client, UndoThrows(c)
        PROVE  Selects(task[d], before[d], cache[d])'
    <3>1. task'[d].do \notin Deleting \cup Updating
      BY <2>2 DEF UndoThrows, Idle, Deleting, Updating
    <3> QED
      BY <3>1, OtherSteps
  <2>3. ASSUME NEW c \in Client, Reconnect(c)
        PROVE  Selects(task[d], before[d], cache[d])'
    <3>1. task' = task /\ before' = before /\ task[c].do = "idle" /\ cache' = [cache EXCEPT ![c] = {}]
      BY <2>3, Zenon DEF Reconnect
    <3>2. CASE d = c
      <4>1. task'[d].do \notin Deleting \cup Updating
        BY <3>1, <3>2 DEF Deleting, Updating
      <4> QED
        BY <4>1, OtherSteps
    <3>3. CASE d # c
      <4>1. cache'[d] = cache[d]
        BY <3>1, <3>3 DEF Types
      <4> QED
        BY <3>1, <4>1 DEF SelectInv
    <3> QED
      BY <3>2, <3>3
  <2> QED
    BY <2>1, <2>2, <2>3
<1> QED
  BY <1>1, <1>2 DEF SelectInv

LEMMA BeginsSelects ==
    ASSUME Types, SelectInv, NEW c \in Client,
           \E where \in Condition : DeleteBegin(c, where) \/ \E set \in Assignment : UpdateBegin(c, set, where)
    PROVE  SelectInv'
<1> DEFINE page == PageOf(c)
<1>1. page \in PageState /\ before \in [Client -> PageState]
  BY PageType DEF SelectInv
<1>2. Cache(c, page) /\ before' = [before EXCEPT ![c] = page]
  BY DEF DeleteBegin, UpdateBegin
<1>3. cache'[c] = {page} /\ before'[c] = page
  BY <1>1, <1>2 DEF Types, Cache
<1>4. \E t : task' = [task EXCEPT ![c] = t] /\ Selects(t, page, {page})
  <2>1. Idle.do \notin Deleting \cup Updating /\ Selects(Idle, page, {page})
    BY OtherSteps DEF Idle, Deleting, Updating
  <2>2. ASSUME NEW where \in Condition, DeleteBegin(c, where)
        PROVE  \E t : task' = [task EXCEPT ![c] = t] /\ Selects(t, page, {page})
    <3> DEFINE rows == Selected(page, where)
               t == [Idle EXCEPT !.do = "delete_row", !.rows = rows, !.where = where]
    <3>1. task' = [task EXCEPT ![c] = Idle] \/ task' = [task EXCEPT ![c] = t]
      BY <2>2 DEF DeleteBegin, Begin
    <3>2. rows \in Seq(Row)
      BY <1>1, SelectedType
    <3>3. t.where = where /\ t.rows = rows /\ t.do = "delete_row"
      <4> HIDE DEF rows
      <4> QED
        BY DEF Idle
    <3>4. t \in Task
      <4> HIDE DEF rows
      <4> QED
        BY <3>2, RowTypes DEF Task, Step
    <3> HIDE DEF t, page
    <3>5. Selects(t, page, {page})
      BY <1>1, <3>3, <3>4, BeginsMidway
    <3> QED
      BY <2>1, <3>1, <3>5
  <2>3. ASSUME NEW where \in Condition, NEW set \in Assignment, UpdateBegin(c, set, where)
        PROVE  \E t : task' = [task EXCEPT ![c] = t] /\ Selects(t, page, {page})
    <3> DEFINE rows == Selected(page, where)
               t == [Idle EXCEPT !.do = "update_row", !.rows = rows, !.set = set, !.where = where]
    <3>1. task' = [task EXCEPT ![c] = Idle] \/ task' = [task EXCEPT ![c] = t]
      BY <2>3 DEF UpdateBegin, Begin
    <3>2. rows \in Seq(Row)
      BY <1>1, SelectedType
    <3>3. t.where = where /\ t.rows = rows /\ t.do = "update_row"
      <4> HIDE DEF rows
      <4> QED
        BY DEF Idle
    <3>4. t \in Task
      <4> HIDE DEF rows
      <4> QED
        BY <3>2, RowTypes DEF Task, Step
    <3> HIDE DEF t, page
    <3>5. Selects(t, page, {page})
      BY <1>1, <3>3, <3>4, BeginsMidway
    <3> QED
      BY <2>1, <3>1, <3>5
  <2> QED
    BY <2>2, <2>3
<1> HIDE DEF page
<1>5. PICK t : task' = [task EXCEPT ![c] = t] /\ Selects(t, page, {page})
  BY <1>4
<1>6. Selects(t, before'[c], cache'[c])
  BY <1>3, <1>5
<1>7. before' = [before EXCEPT ![c] = PageOf(c)] /\ \E p : Cache(c, p)
  BY <1>2 DEF page
<1> QED
  BY <1>5, <1>6, <1>7, StepSelects

LEMMA DeleteSelects ==
    ASSUME Types, SelectInv, NEW c \in Client, DeleteRow(c) \/ DeleteLog(c) \/ DeleteWrite(c)
    PROVE  SelectInv'
<1> DEFINE found == before[c]
           page == PageOf(c)
<1>1. CASE DeleteRow(c)
  <2> DEFINE x == Head(task[c].rows).id
             q == [page EXCEPT ![TargetSlot(page, x)].status = "deleted"]
  <2>1. task[c].do = "delete_row" /\ task[c].rows # <<>> /\ task[c].do \in Deleting \cup Updating
        /\ task[c].do \notin Updating /\ UNCHANGED before
    BY <1>1 DEF DeleteRow, Types, TaskOK, Deleting, Updating
  <2>2. \/ Finish(c) /\ UNCHANGED cache
        \/ /\ x # NoValue /\ TargetSlot(page, x) = 0
           /\ NextRow(c, "delete_row", "delete_write") /\ UNCHANGED cache
        \/ x # NoValue /\ Cache(c, q) /\ Do(c, "delete_log")
    BY <1>1 DEF DeleteRow
  <2> DEFINE u == [task[c] EXCEPT !.do = "delete_log"]
  <2>3. q = WithStatus(page, TargetSlot(page, x), "deleted")
    BY DEF WithStatus
  <2>4. ASSUME x # NoValue, Unambiguous(found)
        PROVE  TargetSlot(page, x) # 0 /\ Selects(u, found, {q})
    <3>1. /\ page \in PageState /\ found \in PageState /\ task[c] \in Task
          /\ \E at, k : Midway(task[c], found, page, at, k)
      BY <2>1, <2>4, SelectsOn
    <3>2. PICK at, k : Midway(task[c], found, page, at, k)
      BY <3>1
    <3> HIDE DEF found, page, q, u
    <3>3. Midway(u, found, q, at, k + 1) /\ TargetSlot(page, x) # 0 /\ q \in PageState
      BY <2>1, <2>3, <2>4, <3>1, <3>2, DeletesMidway DEF u
    <3> QED
      BY <3>3, Zenon DEF Selects
  <2> HIDE DEF x, q, page
  <2>5. CASE Finish(c) /\ UNCHANGED cache
    BY <2>1, <2>5, FinishSelects
  <2>6. CASE /\ x # NoValue /\ TargetSlot(page, x) = 0
             /\ NextRow(c, "delete_row", "delete_write") /\ UNCHANGED cache
    <3> DEFINE t == [task[c] EXCEPT !.rows = Tail(task[c].rows),
                                    !.do = IF Len(task[c].rows) = 1 THEN "delete_write" ELSE "delete_row"]
    <3>1. task' = [task EXCEPT ![c] = t]
      BY <2>6 DEF NextRow
    <3>2. t.do \notin Updating /\ before'[c] = found
      <4>1. t.do \in {"delete_row", "delete_write"}
        BY DEF Types, Task
      <4> QED
        BY <2>1, <4>1 DEF Updating
    <3> HIDE DEF t
    <3>3. Selects(t, before'[c], cache'[c])
      BY <2>4, <2>6, <3>2 DEF Selects
    <3> QED
      BY <2>1, <2>6, <3>1, <3>3, StepSelects
  <2>7. CASE x # NoValue /\ Cache(c, q) /\ Do(c, "delete_log")
    <3>1. task' = [task EXCEPT ![c] = u] /\ cache'[c] = {q} /\ before'[c] = found
      BY <2>1, <2>7 DEF Do, Cache, Types
    <3> HIDE DEF u, found
    <3>2. Selects(u, found, {q})
      BY <2>4, <2>7 DEF Selects
    <3> QED
      BY <2>1, <2>7, <3>1, <3>2, StepSelects
  <2> QED
    BY <2>2, <2>5, <2>6, <2>7
<1>2. CASE DeleteLog(c)
  <2> DEFINE next == IF Len(task[c].rows) = 1 THEN "delete_write" ELSE "delete_row"
             u == [task[c] EXCEPT !.rows = Tail(task[c].rows), !.do = next]
  <2>1. task[c].do = "delete_log" /\ task[c].rows # <<>> /\ task[c].do \in Deleting \cup Updating
        /\ task[c].do \notin Updating /\ UNCHANGED <<before, cache>>
    BY <1>2 DEF DeleteLog, Types, TaskOK, Deleting, Updating
  <2>2. task' = [task EXCEPT ![c] = u]
    BY <1>2 DEF DeleteLog, NextRow
  <2>3. next \in {"delete_row", "delete_write"} /\ (next = "delete_write" => Len(task[c].rows) = 1)
    OBVIOUS
  <2> HIDE DEF next
  <2>4. ASSUME Unambiguous(found) PROVE Selects(u, found, cache[c])
    <3>1. /\ page \in PageState /\ found \in PageState /\ task[c] \in Task /\ cache[c] = {page}
          /\ Len(Selected(found, task[c].where)) \in Nat
          /\ \E at, k : Midway(task[c], found, page, at, k)
      BY <2>1, <2>4, SelectsOn
    <3>2. PICK at, k : Midway(task[c], found, page, at, k)
      BY <3>1
    <3>3. next \in IF task[c].do = "delete_log" THEN {"delete_row", "delete_write"} ELSE {"update_row"}
      BY <2>1, <2>3
    <3> HIDE DEF found, page, u
    <3>4. Midway(u, found, page, at, k)
      BY <2>1, <2>3, <3>1, <3>2, <3>3, LogsMidway DEF u
    <3> QED
      BY <3>1, <3>4, Zenon DEF Selects
  <2> HIDE DEF u
  <2>5. Selects(u, before'[c], cache'[c])
    BY <2>1, <2>4 DEF Selects
  <2> QED
    BY <2>1, <2>2, <2>5, StepSelects
<1>3. CASE DeleteWrite(c)
  <2>1. Finish(c) /\ UNCHANGED <<cache, before>>
    BY <1>3, Zenon DEF DeleteWrite
  <2> QED
    BY <2>1, FinishSelects
<1> QED
  BY <1>1, <1>2, <1>3

LEMMA UpdateSelects ==
    ASSUME Types, SelectInv, NEW c \in Client, UpdateRow(c) \/ UpdateWrite(c) \/ UpdateLog(c)
    PROVE  SelectInv'
<1> DEFINE found == before[c]
           page == PageOf(c)
<1>1. CASE UpdateRow(c)
  <2> DEFINE row == UpdatedRow(c)
             rest == UpdateRest(c)
             q == Append(rest, NewRecord(row, "update"))
             u == [task[c] EXCEPT !.do = "update_write"]
  <2>1. /\ task[c].do = "update_row" /\ task[c].rows # <<>>
        /\ \/ Finish(c) /\ UNCHANGED cache
           \/ Cache(c, rest) /\ Finish(c)
           \/ row.id # NoValue /\ Cache(c, q) /\ Do(c, "update_write")
    BY <1>1, UpdateRowCases
  <2>2. UNCHANGED before /\ task[c].do \in Deleting \cup Updating
    BY <1>1, <2>1 DEF UpdateRow, Deleting, Updating
  <2>3. CASE Finish(c)
    <3>1. UNCHANGED cache \/ \E p : Cache(c, p)
      BY <2>1
    <3> QED
      BY <2>2, <2>3, <3>1, FinishSelects
  <2>4. CASE row.id # NoValue /\ Cache(c, q) /\ Do(c, "update_write")
    <3>1. task' = [task EXCEPT ![c] = u] /\ cache'[c] = {q} /\ before'[c] = found
      BY <2>2, <2>4 DEF Do, Cache, Types
    <3>2. u.set = task[c].set
      BY DEF Types, Task
    <3>3. ASSUME Unambiguous(found), task[c].set.col = "val" PROVE Selects(u, found, {q})
      <4>1. /\ page \in PageState /\ found \in PageState /\ task[c] \in Task
            /\ \E at, k : Midway(task[c], found, page, at, k)
        BY <2>2, <3>3, SelectsOn
      <4>2. PICK at, k : Midway(task[c], found, page, at, k)
        BY <4>1
      <4>3. row \in Row /\ row = Put(Head(task[c].rows), task[c].set)
        BY <2>1, UpdatePieces DEF UpdatedRow, Put
      <4> DEFINE target == TargetSlot(page, row.id)
                 rest2 == WithStatus(page, target, "replaced")
                 q2 == Append(rest2, NewRecord(row, "update"))
      <4>4. rest = IF target = 0 THEN page ELSE rest2
        BY DEF UpdateRest, UpdateTarget, WithStatus
      <4>7. u = [task[c] EXCEPT !.do = "update_write"]
        OBVIOUS
      <4> HIDE DEF found, page, q, u, row, rest, rest2, q2, target
      <4> DEFINE t == task[c]
      <4>9. /\ found \in PageState /\ page \in PageState /\ t \in Task /\ Midway(t, found, page, at, k)
            /\ t.do = "update_row" /\ t.rows # <<>> /\ Unambiguous(found) /\ t.set.col = "val"
            /\ row = Put(Head(t.rows), t.set) /\ row.id # NoValue /\ row \in Row
            /\ u = [t EXCEPT !.do = "update_write"]
        BY <2>1, <2>4, <3>3, <4>1, <4>2, <4>3, <4>7, Zenon
      <4> HIDE DEF t
      <4>5. Midway(u, found, q2, at, k + 1) /\ target # 0 /\ q2 \in PageState
        BY <4>9, UpdatesMidway DEF target, q2, rest2
      <4>6. q = q2
        BY <4>4, <4>5 DEF q, q2
      <4> QED
        BY <4>5, <4>6, Zenon DEF Selects
    <3>4. u.do \in Updating
      BY DEF Updating, Types, Task
    <3> HIDE DEF u, found, q
    <3>5. Selects(u, found, {q})
      BY <3>2, <3>3, <3>4 DEF Selects
    <3> QED
      BY <2>2, <2>4, <3>1, <3>5, StepSelects
  <2> QED
    BY <2>1, <2>3, <2>4
<1>2. CASE UpdateWrite(c)
  <2> DEFINE u == [task[c] EXCEPT !.do = "update_log"]
  <2>1. task[c].do = "update_write" /\ task[c].do \in Deleting \cup Updating /\ UNCHANGED <<before, cache>>
    BY <1>2 DEF UpdateWrite, Deleting, Updating
  <2>2. task' = [task EXCEPT ![c] = u]
    BY <1>2 DEF UpdateWrite, Do
  <2>3. u.do \in Updating /\ u.set = task[c].set
    BY DEF Updating, Types, Task
  <2>4. ASSUME Unambiguous(found), task[c].set.col = "val" PROVE Selects(u, found, cache[c])
    <3>1. /\ page \in PageState /\ task[c] \in Task /\ cache[c] = {page}
          /\ \E at, k : Midway(task[c], found, page, at, k)
      BY <2>1, <2>4, SelectsOn
    <3>2. PICK at, k : Midway(task[c], found, page, at, k)
      BY <3>1
    <3> HIDE DEF found, page, u
    <3>3. Midway(u, found, page, at, k)
      BY <2>1, <3>1, <3>2, WritesMidway DEF u
    <3> QED
      BY <3>1, <3>3, Zenon DEF Selects
  <2> HIDE DEF u
  <2>5. Selects(u, before'[c], cache'[c])
    BY <2>1, <2>3, <2>4 DEF Selects
  <2> QED
    BY <2>1, <2>2, <2>5, StepSelects
<1>3. CASE UpdateLog(c)
  <2>1. task[c].do = "update_log" /\ task[c].do \in Deleting \cup Updating /\ UNCHANGED <<before, cache>>
        /\ task[c].rows # <<>>
    BY <1>3 DEF UpdateLog, Types, TaskOK, Deleting, Updating
  <2>2. CASE Len(task[c].rows) = 1
    <3>1. Finish(c)
      BY <1>3, <2>2 DEF UpdateLog
    <3> QED
      BY <2>1, <3>1, FinishSelects
  <2>3. CASE Len(task[c].rows) # 1
    <3> DEFINE u == [task[c] EXCEPT !.rows = Tail(task[c].rows), !.do = "update_row"]
    <3>1. task' = [task EXCEPT ![c] = u]
      BY <1>3, <2>3 DEF UpdateLog, NextRow
    <3>2. u.do \in Updating /\ u.set = task[c].set
      BY DEF Updating, Types, Task
    <3>3. ASSUME Unambiguous(found), task[c].set.col = "val" PROVE Selects(u, found, cache[c])
      <4>1. /\ page \in PageState /\ task[c] \in Task /\ cache[c] = {page}
            /\ Len(Selected(found, task[c].where)) \in Nat
            /\ \E at, k : Midway(task[c], found, page, at, k)
        BY <2>1, <3>3, SelectsOn
      <4>2. PICK at, k : Midway(task[c], found, page, at, k)
        BY <4>1
      <4> DEFINE next == "update_row"
      <4>3. next \in IF task[c].do = "delete_log" THEN {"delete_row", "delete_write"} ELSE {"update_row"}
        BY <2>1
      <4>4. next = "delete_write" => Len(task[c].rows) = 1
        OBVIOUS
      <4>5. u = [task[c] EXCEPT !.rows = Tail(task[c].rows), !.do = next]
        OBVIOUS
      <4> HIDE DEF found, page, u, next
      <4>6. task[c].do \in {"delete_log", "update_log"}
        BY <2>1
      <4>7. Midway(u, found, page, at, k)
        BY <2>1, <4>1, <4>2, <4>3, <4>4, <4>5, <4>6, LogsMidway
      <4> QED
        BY <4>1, <4>7, Zenon DEF Selects
    <3> HIDE DEF u
    <3>4. Selects(u, before'[c], cache'[c])
      BY <2>1, <3>2, <3>3 DEF Selects
    <3> QED
      BY <2>1, <3>1, <3>4, StepSelects
  <2> QED
    BY <2>2, <2>3
<1> QED
  BY <1>1, <1>2, <1>3

-----------------------------------------------------------------------------
(* What a rollback restores *)

\* The rows of p, in their places, and nothing behind them.
Shows(q, p) ==
    /\ Len(q) >= Len(p)
    /\ \A i \in 1..Len(p) : q[i].row = p[i].row /\ (IsLive(q[i]) <=> IsLive(p[i]))
    /\ \A i \in (Len(p) + 1)..Len(q) : ~IsLive(q[i])

LEMMA ShownRows ==
    ASSUME NEW p \in PageState, NEW q \in PageState, Shows(q, p)
    PROVE  Rows(q) = Rows(p)
<1>1. /\ DOMAIN p = 1..Len(p) /\ DOMAIN q = 1..Len(q) /\ Len(p) \in Nat /\ Len(q) \in Nat
  BY PageParts
<1>2. Live(q) = Live(p)
  <2>1. \A i : i \in 1..Len(q) <=> i \in 1..Len(p) \/ i \in (Len(p) + 1)..Len(q)
    BY <1>1 DEF Shows
  <2> QED
    BY <1>1, <2>1 DEF Shows, Live
<1> DEFINE P == Live(p)
<1>3. P \in SUBSET (1..Len(p)) /\ P \in SUBSET (1..Len(q))
  BY <1>1, <1>2 DEF Live
<1>4. \A i \in P : RowsOf(q)[i] = RowsOf(p)[i]
  BY <1>3 DEF RowsOf, Shows
<1> HIDE DEF P
<1>5. P \in SUBSET Nat /\ IsFiniteSet(P)
  BY <1>3, SlotsFinite
<1>6. Kept(RowsOf(q), P) = Kept(RowsOf(p), P)
  BY <1>4, <1>5, KeptSame
<1>7. RowsAt(q, P) = Kept(RowsOf(q), P) /\ RowsAt(p, P) = Kept(RowsOf(p), P)
  BY <1>3, RowsAtKept
<1> QED
  BY <1>2, <1>6, <1>7 DEF Rows, P

\* The slot's status after an undo.
LEMMA UndoneSlot ==
    ASSUME NEW q \in PageState, NEW ch
    PROVE  LET u == Undone(q, ch)
           IN  /\ u \in PageState /\ Len(u) = Len(q)
               /\ \A i \in 1..Len(q) :
                    /\ u[i].row = q[i].row
                    /\ i # ch.slot => (IsLive(u[i]) <=> IsLive(q[i]))
                    /\ i = ch.slot => (IsLive(u[i]) <=> ch.kind = "out" /\ ch.row # EmptyRow)
<1> DEFINE u == Undone(q, ch)
           status == IF ch.kind = "out" /\ ch.row # EmptyRow THEN "live" ELSE "undone"
           k == ch.slot
<1>1. u = WithStatus(q, k, status)
  BY DEF Undone, WithStatus
<1>2. status \in {"live", "deleted", "replaced", "undone"}
      /\ (status = "live" <=> ch.kind = "out" /\ ch.row # EmptyRow)
  OBVIOUS
<1> HIDE DEF u, status, k
<1>3. /\ u \in PageState /\ Len(u) = Len(q)
      /\ \A i \in 1..Len(q) : /\ u[i].row = q[i].row
                              /\ u[i].status = IF i = k THEN status ELSE q[i].status
  BY <1>1, <1>2, StatusChange
<1> QED
  BY <1>2, <1>3 DEF u, k, IsLive

LEMMA UndoesIn ==
    ASSUME NEW p \in PageState, NEW q \in PageState, NEW s \in SlotState, Shows(q, Append(p, s)),
           NEW ch, ch.kind = "in", ch.slot = Len(p) + 1
    PROVE  Undone(q, ch) \in PageState /\ Shows(Undone(q, ch), p)
<1> DEFINE u == Undone(q, ch)
           n == Len(p)
           longer == Append(p, s)
<1>1. /\ u \in PageState /\ Len(u) = Len(q)
      /\ \A i \in 1..Len(q) : /\ u[i].row = q[i].row
                              /\ i # ch.slot => (IsLive(u[i]) <=> IsLive(q[i]))
                              /\ i = ch.slot => ~IsLive(u[i])
  <2>1. ~(ch.kind = "out" /\ ch.row # EmptyRow)
    OBVIOUS
  <2>2. /\ u \in PageState /\ Len(u) = Len(q)
        /\ \A i \in 1..Len(q) : /\ u[i].row = q[i].row
                                /\ i # ch.slot => (IsLive(u[i]) <=> IsLive(q[i]))
                                /\ i = ch.slot => (IsLive(u[i]) <=> ch.kind = "out" /\ ch.row # EmptyRow)
    BY UndoneSlot
  <2> HIDE DEF u
  <2> QED
    BY <2>1, <2>2
<1>2. Len(longer) = n + 1 /\ n \in Nat /\ Len(q) \in Nat /\ \A i \in 1..n : longer[i] = p[i]
  BY SlotAdded, PageParts
<1> HIDE DEF u, n, longer
<1>3. /\ Len(q) >= n + 1
      /\ \A i \in 1..(n + 1) : q[i].row = longer[i].row /\ (IsLive(q[i]) <=> IsLive(longer[i]))
      /\ \A i \in (n + 2)..Len(q) : ~IsLive(q[i])
  BY <1>2 DEF Shows, longer
<1>4. \A i \in 1..n : i \in 1..(n + 1) /\ i \in 1..Len(q) /\ i # n + 1
  BY <1>2, <1>3
<1>5. \A i \in (n + 1)..Len(u) : i \in 1..Len(q) /\ (i = n + 1 \/ i \in (n + 2)..Len(q))
  BY <1>1, <1>2
<1>6. \A i \in (n + 1)..Len(u) : ~IsLive(u[i])
  BY <1>1, <1>3, <1>5 DEF n
<1>7. \A i \in 1..n : u[i].row = p[i].row /\ (IsLive(u[i]) <=> IsLive(p[i]))
  BY <1>1, <1>2, <1>3, <1>4 DEF n
<1>8. Len(u) >= n
  BY <1>1, <1>2, <1>3
<1> QED
  BY <1>1, <1>6, <1>7, <1>8 DEF Shows, u, n

LEMMA UndoesOut ==
    ASSUME NEW p \in PageState, NEW q \in PageState, NEW t \in 1..Len(p), IsLive(p[t]),
           NEW status \in {"deleted", "replaced"}, Shows(q, WithStatus(p, t, status)),
           NEW ch, ch.kind = "out", ch.slot = t, ch.row # EmptyRow
    PROVE  Undone(q, ch) \in PageState /\ Shows(Undone(q, ch), p)
<1> DEFINE u == Undone(q, ch)
           n == Len(p)
           gone == WithStatus(p, t, status)
<1>1. /\ u \in PageState /\ Len(u) = Len(q)
      /\ \A i \in 1..Len(q) : /\ u[i].row = q[i].row
                              /\ i # t => (IsLive(u[i]) <=> IsLive(q[i]))
                              /\ i = t => IsLive(u[i])
  BY UndoneSlot
<1>2. n \in Nat /\ Len(q) \in Nat
  BY PageParts
<1>3. /\ Len(gone) = n
      /\ \A i \in 1..n : gone[i].row = p[i].row /\ gone[i].status = IF i = t THEN status ELSE p[i].status
  BY StatusChange
<1> HIDE DEF u, gone
<1>4. /\ Len(q) >= n
      /\ \A i \in 1..n : q[i].row = gone[i].row /\ (IsLive(q[i]) <=> IsLive(gone[i]))
      /\ \A i \in (n + 1)..Len(q) : ~IsLive(q[i])
  BY <1>3 DEF Shows, gone
<1>5. \A i \in (n + 1)..Len(u) : i \in (n + 1)..Len(q) /\ i \in 1..Len(q) /\ i # t
  BY <1>1, <1>2
<1>6. \A i \in 1..n : i \in 1..Len(q)
  BY <1>2, <1>4
<1>7. \A i \in 1..n : u[i].row = p[i].row /\ (IsLive(u[i]) <=> IsLive(p[i]))
  BY <1>1, <1>3, <1>4, <1>6 DEF IsLive
<1>8. \A i \in (n + 1)..Len(u) : ~IsLive(u[i])
  BY <1>1, <1>4, <1>5
<1> QED
  BY <1>1, <1>4, <1>7, <1>8 DEF Shows, u

\* The pages an undo goes through.
Undoes(page, todo, end) ==
    \E pages \in Seq(PageState) :
        /\ Len(pages) = Len(todo) + 1 /\ pages[1] = page /\ pages[Len(todo) + 1] = end
        /\ \A j \in 1..Len(todo) : pages[j + 1] = Undone(pages[j], todo[j])

LEMMA UndoesNothing ==
    ASSUME NEW page \in PageState
    PROVE  Undoes(page, <<>>, page)
<1> DEFINE pages == <<page>>
<1>1. pages \in Seq(PageState) /\ Len(pages) = Len(<<>>) + 1 /\ pages[1] = page
      /\ pages[Len(<<>>) + 1] = page /\ 1..Len(<<>>) = {}
  OBVIOUS
<1> HIDE DEF pages
<1> QED
  BY <1>1 DEF Undoes

LEMMA UndoesMore ==
    ASSUME NEW page, NEW todo \in Seq(Change), NEW end \in PageState, Undoes(page, todo, end), NEW ch \in Change
    PROVE  Undoes(page, Append(todo, ch), Undone(end, ch))
<1>1. PICK pages \in Seq(PageState) :
        /\ Len(pages) = Len(todo) + 1 /\ pages[1] = page /\ pages[Len(todo) + 1] = end
        /\ \A j \in 1..Len(todo) : pages[j + 1] = Undone(pages[j], todo[j])
  BY DEF Undoes
<1> DEFINE n == Len(todo)
           last == Undone(end, ch)
           longer == Append(todo, ch)
           more == Append(pages, last)
<1>2. last \in PageState
  BY UndoneSlot
<1> HIDE DEF last
<1>3. /\ n \in Nat /\ more \in Seq(PageState) /\ Len(more) = n + 2 /\ more[n + 2] = last
      /\ \A j \in 1..(n + 1) : more[j] = pages[j]
  BY <1>1, <1>2
<1>4. Len(longer) = n + 1 /\ longer[n + 1] = ch /\ \A j \in 1..n : longer[j] = todo[j]
  OBVIOUS
<1> HIDE DEF n, longer, more
<1>5. ASSUME NEW j \in 1..(n + 1) PROVE more[j + 1] = Undone(more[j], longer[j])
  <2>1. CASE j = n + 1
    <3>1. more[j] = end /\ more[j + 1] = last /\ longer[j] = ch
      <4>1. j + 1 = n + 2 /\ j \in 1..(n + 1)
        BY <1>3, <2>1
      <4> QED
        BY <1>1, <1>3, <1>4, <2>1, <4>1 DEF n
    <3> QED
      BY <3>1 DEF last
  <2>2. CASE j \in 1..n
    <3>1. j + 1 \in 1..(n + 1) /\ j \in 1..(n + 1)
      BY <1>3, <2>2
    <3> QED
      BY <1>1, <1>3, <1>4, <2>2, <3>1 DEF n
  <2> QED
    BY <1>3, <2>1, <2>2
<1>6. 1 \in 1..(n + 1) /\ Len(longer) + 1 = n + 2
  BY <1>3, <1>4
<1> QED
  BY <1>1, <1>3, <1>4, <1>5, <1>6 DEF Undoes, longer, last

LEMMA UndoesFirst ==
    ASSUME NEW page, NEW todo \in Seq(Change), todo # <<>>, NEW end, Undoes(page, todo, end)
    PROVE  /\ Undoes(Undone(page, Head(todo)), Tail(todo), end)
           /\ Len(todo) = 1 => end = Undone(page, Head(todo))
<1>1. PICK pages \in Seq(PageState) :
        /\ Len(pages) = Len(todo) + 1 /\ pages[1] = page /\ pages[Len(todo) + 1] = end
        /\ \A j \in 1..Len(todo) : pages[j + 1] = Undone(pages[j], todo[j])
  BY DEF Undoes
<1> DEFINE n == Len(todo)
           less == Tail(pages)
           left == Tail(todo)
<1>2. n \in Nat /\ n >= 1 /\ Head(todo) = todo[1] /\ Len(left) = n - 1 /\ \A j \in 1..(n - 1) : left[j] = todo[j + 1]
  OBVIOUS
<1>3. less \in Seq(PageState) /\ Len(less) = n /\ \A j \in 1..n : less[j] = pages[j + 1]
  BY <1>1, <1>2
<1> HIDE DEF n, less, left
<1>4. pages[2] = Undone(page, Head(todo))
  <2>1. 1 \in 1..n /\ 1 + 1 = 2
    BY <1>2
  <2> QED
    BY <1>1, <1>2, <2>1 DEF n
<1>5. less[1] = Undone(page, Head(todo)) /\ less[n] = end
  <2>1. 1 \in 1..n /\ n \in 1..n /\ 1 + 1 = 2
    BY <1>2
  <2>2. less[1] = pages[2] /\ less[n] = pages[n + 1]
    BY <1>3, <2>1
  <2> QED
    BY <1>1, <1>4, <2>2 DEF n
<1>6. ASSUME NEW j \in 1..(n - 1) PROVE less[j + 1] = Undone(less[j], left[j])
  <2>1. j + 1 \in 1..n /\ j \in 1..n
    BY <1>2
  <2>2. pages[(j + 1) + 1] = Undone(pages[j + 1], todo[j + 1])
    BY <1>1, <2>1 DEF n
  <2> QED
    BY <1>2, <1>3, <2>1, <2>2
<1>7. Len(left) + 1 = n
  BY <1>2
<1>8. Undoes(Undone(page, Head(todo)), left, end)
  BY <1>2, <1>3, <1>5, <1>6, <1>7 DEF Undoes
<1>9. n = 1 => end = Undone(page, Head(todo))
  BY <1>5
<1> QED
  BY <1>8, <1>9 DEF left, n

AddedAt(k, s) == [kind |-> "in", slot |-> k, row |-> s.row]
GoneFrom(page, k) == [kind |-> "out", slot |-> k, row |-> page[k].row]

\* One record of the log says how one page became another.
Explains(record, old, new) ==
    \/ \E s \in SlotState : new = Append(old, s) /\ record = <<AddedAt(Len(old) + 1, s)>>
    \/ \E t \in 1..Len(old) :
         /\ IsLive(old[t]) /\ old[t].row # EmptyRow
         /\ new = WithStatus(old, t, "deleted") /\ record = <<GoneFrom(old, t)>>
    \/ \E t \in 1..Len(old) : \E s \in SlotState :
         /\ IsLive(old[t]) /\ old[t].row # EmptyRow
         /\ new = Append(WithStatus(old, t, "replaced"), s)
         /\ record = <<GoneFrom(old, t)>> \o <<AddedAt(Len(old) + 1, s)>>

\* What is undone of a record, last change first, undoes it.
LEMMA UndoesRecord ==
    ASSUME NEW old \in PageState, NEW new, NEW record, Explains(record, old, new),
           NEW page, NEW todo \in Seq(Change), NEW q \in PageState, Undoes(page, todo, q), Shows(q, new)
    PROVE  /\ todo \o Reverse(record) \in Seq(Change)
           /\ \E end \in PageState : Undoes(page, todo \o Reverse(record), end) /\ Shows(end, old)
<1>0. Len(old) \in Nat
  BY PageParts
<1>1. \A k \in 1..(Len(old) + 1), s \in SlotState : AddedAt(k, s) \in Change
  BY <1>0, RowTypes DEF AddedAt, Change
<1>2. \A k \in 1..Len(old) : GoneFrom(old, k) \in Change
  <2>1. \A k \in 1..Len(old) : old[k].row \in Row
    BY PageParts
  <2> QED
    BY <1>0, <2>1 DEF GoneFrom, Change
<1>3. \A x : Reverse(<<x>>) = <<x>>
  BY DEF Reverse
<1>4. \A x, y : Reverse(<<x>> \o <<y>>) = <<y>> \o <<x>>
  BY DEF Reverse
<1>5. \A s \in Seq(Change), x \in Change : s \o <<x>> = Append(s, x) /\ Append(s, x) \in Seq(Change)
  OBVIOUS
<1>6. CASE \E s \in SlotState : new = Append(old, s) /\ record = <<AddedAt(Len(old) + 1, s)>>
  <2>1. PICK s \in SlotState : new = Append(old, s) /\ record = <<AddedAt(Len(old) + 1, s)>>
    BY <1>6
  <2> DEFINE ch == AddedAt(Len(old) + 1, s)
  <2>2. ch \in Change /\ ch.kind = "in" /\ ch.slot = Len(old) + 1
    BY <1>0, <1>1 DEF AddedAt
  <2> HIDE DEF ch
  <2>3. Undone(q, ch) \in PageState /\ Shows(Undone(q, ch), old)
    BY <2>1, <2>2, UndoesIn
  <2>4. Undoes(page, Append(todo, ch), Undone(q, ch))
    BY <2>2, UndoesMore
  <2>5. todo \o Reverse(record) = Append(todo, ch)
    BY <1>3, <1>5, <2>1, <2>2 DEF ch
  <2> QED
    BY <1>5, <2>2, <2>3, <2>4, <2>5
<1>7. CASE \E t \in 1..Len(old) :
             /\ IsLive(old[t]) /\ old[t].row # EmptyRow
             /\ new = WithStatus(old, t, "deleted") /\ record = <<GoneFrom(old, t)>>
  <2>1. PICK t \in 1..Len(old) :
             /\ IsLive(old[t]) /\ old[t].row # EmptyRow
             /\ new = WithStatus(old, t, "deleted") /\ record = <<GoneFrom(old, t)>>
    BY <1>7
  <2> DEFINE ch == GoneFrom(old, t)
  <2>2. ch \in Change /\ ch.kind = "out" /\ ch.slot = t /\ ch.row # EmptyRow
    BY <1>2, <2>1 DEF GoneFrom
  <2> HIDE DEF ch
  <2>3. Undone(q, ch) \in PageState /\ Shows(Undone(q, ch), old)
    BY <2>1, <2>2, UndoesOut
  <2>4. Undoes(page, Append(todo, ch), Undone(q, ch))
    BY <2>2, UndoesMore
  <2>5. todo \o Reverse(record) = Append(todo, ch)
    BY <1>3, <1>5, <2>1, <2>2 DEF ch
  <2> QED
    BY <1>5, <2>2, <2>3, <2>4, <2>5
<1>8. CASE \E t \in 1..Len(old) : \E s \in SlotState :
             /\ IsLive(old[t]) /\ old[t].row # EmptyRow
             /\ new = Append(WithStatus(old, t, "replaced"), s)
             /\ record = <<GoneFrom(old, t)>> \o <<AddedAt(Len(old) + 1, s)>>
  <2>1. PICK t \in 1..Len(old) : \E s \in SlotState :
             /\ IsLive(old[t]) /\ old[t].row # EmptyRow
             /\ new = Append(WithStatus(old, t, "replaced"), s)
             /\ record = <<GoneFrom(old, t)>> \o <<AddedAt(Len(old) + 1, s)>>
    BY <1>8
  <2>2. PICK s \in SlotState :
             /\ IsLive(old[t]) /\ old[t].row # EmptyRow
             /\ new = Append(WithStatus(old, t, "replaced"), s)
             /\ record = <<GoneFrom(old, t)>> \o <<AddedAt(Len(old) + 1, s)>>
    BY <2>1
  <2> DEFINE in == AddedAt(Len(old) + 1, s)
             out == GoneFrom(old, t)
             rest == WithStatus(old, t, "replaced")
             half == Undone(q, in)
             end == Undone(half, out)
  <2>3. in \in Change /\ in.kind = "in" /\ in.slot = Len(old) + 1
    BY <1>0, <1>1 DEF AddedAt
  <2>4. out \in Change /\ out.kind = "out" /\ out.slot = t /\ out.row # EmptyRow
    BY <1>2, <2>2 DEF GoneFrom
  <2>5. rest \in PageState /\ Len(rest) = Len(old)
    BY StatusChange
  <2>6. Shows(q, Append(rest, s)) /\ todo \o Reverse(record) = todo \o (<<in>> \o <<out>>)
    <3>1. Reverse(record) = <<in>> \o <<out>>
      BY <1>4, <2>2
    <3> QED
      BY <2>2, <3>1
  <2> HIDE DEF in, out, rest
  <2>7. half \in PageState /\ Shows(half, rest)
    BY <2>3, <2>5, <2>6, UndoesIn
  <2>8. Undoes(page, Append(todo, in), half)
    BY <2>3, UndoesMore
  <2> HIDE DEF half
  <2>9. Shows(half, WithStatus(old, t, "replaced"))
    BY <2>7 DEF rest
  <2>10. end \in PageState /\ Shows(end, old)
    BY <2>2, <2>4, <2>7, <2>9, UndoesOut
  <2>11. Append(todo, in) \in Seq(Change)
    BY <1>5, <2>3
  <2>12. Undoes(page, Append(Append(todo, in), out), end)
    BY <2>4, <2>7, <2>8, <2>11, UndoesMore
  <2>13. todo \o (<<in>> \o <<out>>) = Append(Append(todo, in), out) /\ Append(Append(todo, in), out) \in Seq(Change)
    BY <2>3, <2>4
  <2> HIDE DEF end
  <2> QED
    BY <2>6, <2>10, <2>12, <2>13
<1> QED
  BY <1>6, <1>7, <1>8 DEF Explains

\* The log tells how the page came about: from each page the table has been on,
\* since the last rollback or reconnection, to the next.
Tells(log, pages, rows, page) ==
    /\ pages \in Seq(PageState) /\ Len(pages) = Len(rows) + 1 /\ pages[Len(rows) + 1] = page
    /\ Len(rows) <= Len(log)
    /\ \A k \in 1..Len(rows) : /\ Rows(pages[k]) = rows[k]
                               /\ Explains(log[(Len(log) - Len(rows)) + k], pages[k], pages[k + 1])

\* So undoing the newest n records gives back the rows before them.
LEMMA UndoesAll ==
    ASSUME wal \in Seq(Seq(Change)), NEW pages, NEW rows \in Seq(Seq(Row)),
           NEW page \in PageState, Tells(wal, pages, rows, page), NEW n \in 1..Len(rows)
    PROVE  \E end \in PageState : Undoes(page, ToUndo(n), end) /\ Rows(end) = rows[Len(rows) - n + 1]
<1> DEFINE l == Len(wal)
           m == Len(rows)
           undo(i) == Reverse(wal[l - i + 1])
           records == [k \in 1..n |-> undo(k)]
           f == CHOOSE g : Flat(records, Len(records), g)
<1>1. l \in Nat /\ m \in Nat /\ n \in Nat /\ m <= l /\ n <= m /\ n >= 1
  BY DEF Tells
<1>2. \A k \in 1..n : l - k + 1 \in 1..l /\ m - k + 1 \in 1..m /\ (l - m) + (m - k + 1) = l - k + 1
  BY <1>1
<1>3. records \in Seq(Seq(Change)) /\ Len(records) = n /\ \A k \in 1..n : records[k] = undo(k)
  <2>1. \A s \in Seq(Change) : Reverse(s) \in Seq(Change)
    BY DEF Reverse
  <2>2. \A k \in 1..n : undo(k) \in Seq(Change)
    BY <1>2, <2>1
  <2> HIDE DEF undo
  <2> QED
    BY <1>1, <2>2
<1>4. ToUndo(n) = FlattenSeq(records)
  <2>1. (IF n < Len(wal) THEN n ELSE Len(wal)) = n
    BY <1>1
  <2> QED
    BY <2>1, Zenon DEF ToUndo
<1> HIDE DEF records, undo
<1>5. FlattenSeq(records) = f[n]
  <2>1. Len(records) # 0
    BY <1>1, <1>3
  <2> QED
    BY <1>3, <2>1 DEF FlattenSeq, Flat
<1>6. Flat(records, n, f)
  <2>1. n \in 1..Len(records)
    BY <1>1, <1>3
  <2>2. \E g : Flat(records, n, g)
    BY <1>3, <2>1, FlatExists
  <2> QED
    BY <1>3, <2>2
<1> HIDE DEF f
<1>7. \A i \in 1..n : f[i] = IF i = 1 THEN undo(i) ELSE f[i - 1] \o undo(i)
  BY <1>3, <1>6 DEF Flat
<1> DEFINE Done(i) == /\ f[i] \in Seq(Change)
                      /\ \E end \in PageState : Undoes(page, f[i], end) /\ Shows(end, pages[m - i + 1])
           Bad == {i \in 1..n : ~Done(i)}
<1>8. Bad = {}
  <2>1. SUFFICES ASSUME Bad # {} PROVE FALSE
    OBVIOUS
  <2>2. PICK i \in Bad : \A j \in Bad : i <= j
    <3>1. Bad \in SUBSET Nat
      OBVIOUS
    <3> HIDE DEF Bad
    <3> QED
      BY <2>1, <3>1, LeastElement
  <2>3. i \in 1..n /\ i \in Nat
    OBVIOUS
  <2>4. SUFFICES Done(i)
    OBVIOUS
  <2> DEFINE k == m - i + 1
             done == IF i = 1 THEN <<>> ELSE f[i - 1]
  <2>5. done \in Seq(Change) /\ \E q \in PageState : Undoes(page, done, q) /\ Shows(q, pages[k + 1])
    <3>1. CASE i = 1
      <4>1. Undoes(page, <<>>, page) /\ <<>> \in Seq(Change)
        BY UndoesNothing
      <4>2. pages[k + 1] = page
        <5>1. k + 1 = m + 1
          BY <1>1, <3>1
        <5> QED
          BY <5>1 DEF Tells
      <4>3. Shows(page, page)
        <5>1. Len(page) \in Nat
          BY PageParts
        <5> QED
          BY <5>1 DEF Shows
      <4> QED
        BY <3>1, <4>1, <4>2, <4>3
    <3>2. CASE i # 1
      <4>1. i - 1 \in 1..n /\ ~(i <= i - 1) /\ m - (i - 1) + 1 = k + 1
        BY <1>1, <2>3, <3>2
      <4>2. i - 1 \notin Bad
        BY <2>2, <4>1
      <4>3. Done(i - 1)
        BY <4>1, <4>2
      <4> HIDE DEF k, Bad
      <4> QED
        BY <3>2, <4>1, <4>3
    <3> QED
      BY <3>1, <3>2
  <2>6. PICK q \in PageState : Undoes(page, done, q) /\ Shows(q, pages[k + 1])
    BY <2>5
  <2>7. /\ k \in 1..m /\ pages[k] \in PageState
        /\ Explains(wal[l - i + 1], pages[k], pages[k + 1])
    <3>1. k \in 1..m /\ k \in 1..(m + 1) /\ (l - m) + k = l - i + 1
      BY <1>1, <2>3
    <3> HIDE DEF k, l, m
    <3>2. Explains(wal[(l - m) + k], pages[k], pages[k + 1])
      BY <3>1 DEF Tells, l, m
    <3>3. pages \in Seq(PageState) /\ Len(pages) = m + 1
      BY DEF Tells, m
    <3>4. pages[k] \in PageState
      BY <3>1, <3>3
    <3> QED
      BY <3>1, <3>2, <3>4
  <2>8. f[i] = done \o undo(i)
    <3>1. CASE i = 1
      <4>1. undo(i) \in Seq(Change)
        <5>1. records[i] \in Seq(Change)
          BY <1>3, <2>3
        <5> QED
          BY <1>3, <2>3, <5>1
      <4>2. <<>> \o undo(i) = undo(i)
        BY <4>1
      <4> QED
        BY <1>7, <2>3, <3>1, <4>2
    <3>2. CASE i # 1
      BY <1>7, <2>3, <3>2
    <3> QED
      BY <3>1, <3>2
  <2> HIDE DEF done, k, l, m
  <2>9. done \o Reverse(wal[l - i + 1]) \in Seq(Change)
        /\ \E end \in PageState : Undoes(page, done \o Reverse(wal[l - i + 1]), end) /\ Shows(end, pages[k])
    BY <2>5, <2>6, <2>7, UndoesRecord
  <2>10. f[i] \in Seq(Change) /\ \E end \in PageState : Undoes(page, f[i], end) /\ Shows(end, pages[k])
    BY <2>8, <2>9 DEF undo
  <2> QED
    BY <2>10 DEF k
<1>9. Done(n)
  <2>1. n \in 1..n
    BY <1>1
  <2> HIDE DEF Done
  <2> QED
    BY <1>8, <2>1
<1>10. PICK end \in PageState : Undoes(page, f[n], end) /\ Shows(end, pages[m - n + 1])
  BY <1>9
<1>11. Rows(end) = rows[m - n + 1]
  <2> DEFINE k == m - n + 1
  <2>1. k \in 1..m /\ k \in 1..(m + 1)
    BY <1>1
  <2> HIDE DEF k, m
  <2>2. pages \in Seq(PageState) /\ Len(pages) = m + 1 /\ Rows(pages[k]) = rows[k]
    BY <2>1 DEF Tells, m
  <2>3. pages[k] \in PageState
    BY <2>1, <2>2
  <2>4. Rows(end) = Rows(pages[k])
    BY <1>10, <2>3, ShownRows DEF k
  <2> QED
    BY <2>2, <2>4 DEF k
<1> QED
  BY <1>4, <1>5, <1>10, <1>11

\* The log with the record that the statement is about to append.
WillLog(c) ==
    CASE task[c].do = "insert_log" -> Append(wal, AfterChange)
      [] task[c].do = "delete_log" -> Append(wal, BeforeChange)
      [] task[c].do \in {"update_write", "update_log"} -> Append(wal, BeforeChange \o AfterChange)
      [] OTHER -> wal

\* The rows an UPDATE has yet to replace are in the page, in slots further and
\* further on, whatever the search by id has found for the rows before.
RowsAhead(page, rows) ==
    \E at :
        /\ \A k \in 1..Len(rows) :
             rows[k].id # NoValue =>
               at[k] \in 1..Len(page) /\ IsLive(page[at[k]]) /\ page[at[k]].row = rows[k]
        /\ \A k, l \in 1..Len(rows) :
             k < l /\ rows[k].id # NoValue /\ rows[l].id # NoValue => at[k] < at[l]

\* Between statements and in them the log explains the page; during a rollback
\* what is left to undo leads to the rows that are to be restored.
Undoing == {"undo", "killed"}
Restorable(c) ==
    /\ task[c].do \notin Undoing => \E pages : Tells(WillLog(c), pages, snapshots, PageOf(c))
    /\ task[c].do \in {"confirm", "undo"} /\ task[c].steps <= Len(snapshots) =>
         \E end \in PageState : /\ Undoes(PageOf(c), task[c].todo, end)
                                /\ Rows(end) = snapshots[Len(snapshots) - task[c].steps + 1]
    /\ task[c].do = "update_row" => RowsAhead(PageOf(c), task[c].rows)
    /\ task[c].do \in {"update_write", "update_log"} => RowsAhead(PageOf(c), Tail(task[c].rows))

RestoreInv == ~keyChanged => \A c \in Client : Restorable(c)

\* What there is to go through is not new.
LEMMA TellsNothing ==
    ASSUME NEW page \in PageState, NEW log \in Seq(Seq(Change))
    PROVE  \E pages : Tells(log, pages, <<>>, page)
<1> DEFINE pages == <<page>>
           none == <<>>
<1>1. /\ pages \in Seq(PageState) /\ Len(pages) = 1 /\ pages[1] = page
      /\ Len(none) = 0 /\ Len(log) \in Nat /\ 1..0 = {} /\ 0 + 1 = 1
  OBVIOUS
<1>2. Len(none) <= Len(log)
  BY <1>1
<1> HIDE DEF pages, none
<1>3. Tells(log, pages, none, page)
  BY <1>1, <1>2 DEF Tells
<1> QED
  BY <1>3 DEF none

LEMMA TellsMore ==
    ASSUME NEW log \in Seq(Seq(Change)), NEW pages, NEW rows \in Seq(Seq(Row)), NEW page \in PageState,
           Tells(log, pages, rows, page), NEW record \in Seq(Change), NEW new \in PageState,
           Explains(record, page, new)
    PROVE  \E more : Tells(Append(log, record), more, Append(rows, Rows(page)), new)
<1> DEFINE l == Len(log)
           m == Len(rows)
           more == Append(pages, new)
           allRows == Append(rows, Rows(page))
           allLog == Append(log, record)
<1>1. /\ pages \in Seq(PageState) /\ Len(pages) = m + 1 /\ pages[m + 1] = page /\ m <= l
      /\ \A k \in 1..m : Rows(pages[k]) = rows[k] /\ Explains(log[(l - m) + k], pages[k], pages[k + 1])
  BY DEF Tells
<1>2. m \in Nat /\ l \in Nat
  OBVIOUS
<1>3. Rows(page) \in Seq(Row)
  BY SelectedType
<1>4. /\ more \in Seq(PageState) /\ Len(more) = m + 2 /\ more[m + 2] = new
      /\ \A k \in 1..(m + 1) : more[k] = pages[k]
  BY <1>1, <1>2
<1>5. Len(allRows) = m + 1 /\ allRows[m + 1] = Rows(page) /\ \A k \in 1..m : allRows[k] = rows[k]
  BY <1>3
<1>6. Len(allLog) = l + 1 /\ allLog[l + 1] = record /\ \A k \in 1..l : allLog[k] = log[k]
  OBVIOUS
<1> HIDE DEF l, m, more, allRows, allLog
<1>7. ASSUME NEW k \in 1..(m + 1)
      PROVE  /\ Rows(more[k]) = allRows[k]
             /\ Explains(allLog[((l + 1) - (m + 1)) + k], more[k], more[k + 1])
  <2>1. CASE k = m + 1
    <3>1. k \in 1..(m + 1) /\ k + 1 = m + 2 /\ ((l + 1) - (m + 1)) + k = l + 1
      BY <1>2, <2>1
    <3>2. more[k] = page /\ more[k + 1] = new /\ allRows[k] = Rows(page)
          /\ allLog[((l + 1) - (m + 1)) + k] = record
      BY <1>1, <1>4, <1>5, <1>6, <2>1, <3>1
    <3> QED
      BY <3>2
  <2>2. CASE k \in 1..m
    <3>1. /\ k \in 1..(m + 1) /\ k + 1 \in 1..(m + 1)
          /\ ((l + 1) - (m + 1)) + k = (l - m) + k /\ (l - m) + k \in 1..l
      BY <1>1, <1>2, <2>2
    <3>2. more[k] = pages[k] /\ more[k + 1] = pages[k + 1] /\ allRows[k] = rows[k]
          /\ allLog[((l + 1) - (m + 1)) + k] = log[(l - m) + k]
      BY <1>4, <1>5, <1>6, <2>2, <3>1
    <3> QED
      BY <1>1, <2>2, <3>2
  <2> QED
    BY <1>2, <2>1, <2>2
<1>8. m + 1 <= l + 1 /\ (m + 1) + 1 = m + 2
  BY <1>1, <1>2
<1>9. Tells(allLog, more, allRows, new)
  BY <1>4, <1>5, <1>6, <1>7, <1>8 DEF Tells
<1> QED
  BY <1>9 DEF allLog, allRows

LEMMA AheadAtFirst ==
    ASSUME NEW page \in PageState, NEW where
    PROVE  RowsAhead(page, Selected(page, where))
<1> DEFINE rows == Selected(page, where)
<1>1. PICK at : Enumerates(at, page, where)
  BY SelectedEnumerated
<1>2. \A k \in 1..Len(rows) :
        /\ at[k] \in 1..Len(page)
        /\ rows[k].id # NoValue => IsLive(page[at[k]]) /\ rows[k] = page[at[k]].row
  BY <1>1, EnumeratedParts
<1>3. \A k, l \in 1..Len(rows) : k < l => at[k] < at[l]
  BY <1>1, Zenon DEF Enumerates
<1> HIDE DEF rows
<1>4. RowsAhead(page, rows)
  BY <1>2, <1>3 DEF RowsAhead
<1> QED
  BY <1>4 DEF rows

\* Replacing the first row: the record the search finds is not behind it.
LEMMA AheadAfter ==
    ASSUME NEW page \in PageState, NEW rows \in Seq(Row), rows # <<>>, RowsAhead(page, rows),
           rows[1].id # NoValue, NEW t, t = TargetSlot(page, rows[1].id),
           NEW s \in SlotState, NEW q, q = Append(WithStatus(page, t, "replaced"), s)
    PROVE  /\ t \in 1..Len(page) /\ IsLive(page[t]) /\ page[t].row # EmptyRow
           /\ RowsAhead(q, Tail(rows))
<1> DEFINE x == rows[1].id
           found == {i \in 1..Len(page) : Finds(page[i], x)}
           n == Len(page)
           left == Tail(rows)
<1>1. n \in Nat /\ Len(rows) \in Nat /\ 1 \in 1..Len(rows)
  BY PageParts
<1>2. PICK at :
        /\ \A k \in 1..Len(rows) :
             rows[k].id # NoValue =>
               at[k] \in 1..Len(page) /\ IsLive(page[at[k]]) /\ page[at[k]].row = rows[k]
        /\ \A k, l \in 1..Len(rows) :
             k < l /\ rows[k].id # NoValue /\ rows[l].id # NoValue => at[k] < at[l]
  BY DEF RowsAhead
<1>3. at[1] \in 1..n /\ Finds(page[at[1]], x)
  BY <1>1, <1>2 DEF Finds
<1>4. t \in found /\ \A j \in found : t <= j
  <2>1. \E i \in found : \A j \in found : i <= j
    <3>1. found \in SUBSET Nat /\ found # {}
      BY <1>3
    <3> HIDE DEF found
    <3> QED
      BY <3>1, LeastElement
  <2>2. t = CHOOSE i \in found : \A j \in found : i <= j
    BY <1>3 DEF TargetSlot
  <2> HIDE DEF found
  <2> QED
    BY <2>1, <2>2
<1>5. t \in 1..n /\ t <= at[1] /\ t \in Nat /\ at[1] \in Nat
  <2>1. at[1] \in found
    BY <1>3
  <2>2. t <= at[1]
    BY <1>4, <2>1
  <2> QED
    BY <1>1, <1>3, <1>4, <2>2
<1>6. IsLive(page[t]) /\ page[t].row # EmptyRow
  <2>1. Finds(page[t], x) /\ x # NoValue
    BY <1>4
  <2> HIDE DEF x
  <2>2. IsLive(page[t]) /\ page[t].row.id # NoValue
    BY <2>1, ParameterAssumption DEF Finds
  <2> QED
    BY <2>2, RowTypes
<1> DEFINE rest == WithStatus(page, t, "replaced")
<1>7. /\ rest \in PageState /\ Len(rest) = n
      /\ \A i \in 1..n : rest[i].row = page[i].row /\ rest[i].status = IF i = t THEN "replaced" ELSE page[i].status
  BY StatusChange
<1> HIDE DEF rest, found
<1>8. Len(q) = n + 1 /\ \A i \in 1..n : q[i] = rest[i]
  BY <1>7, SlotAdded DEF rest
<1>9. \A i \in 1..n : i \in 1..Len(q) /\ q[i].row = page[i].row /\ (i # t => (IsLive(q[i]) <=> IsLive(page[i])))
  BY <1>1, <1>7, <1>8 DEF IsLive
<1>10. Len(left) = Len(rows) - 1 /\ \A k \in 1..Len(left) : left[k] = rows[k + 1]
  OBVIOUS
<1> HIDE DEF left, n, x
<1>11. \A k \in 1..Len(left) : k + 1 \in 1..Len(rows) /\ 1 < k + 1
  BY <1>1, <1>10
<1> DEFINE to == [k \in 1..Len(left) |-> at[k + 1]]
<1>12. ASSUME NEW k \in 1..Len(left), left[k].id # NoValue
       PROVE  to[k] \in 1..Len(q) /\ IsLive(q[to[k]]) /\ q[to[k]].row = left[k]
  <2> DEFINE i == at[k + 1]
  <2>1. i \in 1..n /\ IsLive(page[i]) /\ page[i].row = left[k]
    BY <1>2, <1>10, <1>11, <1>12 DEF n
  <2>2. at[1] < i
    BY <1>1, <1>2, <1>10, <1>11, <1>12
  <2> HIDE DEF i
  <2>3. i # t
    BY <1>1, <1>5, <2>1, <2>2
  <2>4. to[k] = i
    BY DEF i
  <2> QED
    BY <1>9, <2>1, <2>3, <2>4
<1>13. ASSUME NEW k \in 1..Len(left), NEW l \in 1..Len(left), k < l, left[k].id # NoValue, left[l].id # NoValue
       PROVE  to[k] < to[l]
  <2>1. k + 1 < l + 1
    BY <1>1, <1>10, <1>13
  <2> QED
    BY <1>2, <1>10, <1>11, <1>13, <2>1
<1> HIDE DEF to
<1>14. RowsAhead(q, left)
  BY <1>12, <1>13 DEF RowsAhead
<1> QED
  BY <1>5, <1>6, <1>14 DEF left, n

LEMMA TargetIs ==
    ASSUME NEW page \in PageState, NEW x, x # NoValue, NEW t, t = TargetSlot(page, x), t # 0
    PROVE  t \in 1..Len(page) /\ IsLive(page[t]) /\ page[t].row # EmptyRow
<1> DEFINE found == {i \in 1..Len(page) : Finds(page[i], x)}
<1>1. found # {} => \E i \in found : \A j \in found : i <= j
  <2>1. found \in SUBSET Nat
    BY PageParts
  <2> HIDE DEF found
  <2> QED
    BY <2>1, LeastElement
<1>2. t = IF found = {} THEN 0 ELSE CHOOSE i \in found : \A j \in found : i <= j
  BY DEF TargetSlot
<1>3. t \in found
  <2> HIDE DEF found
  <2> QED
    BY <1>1, <1>2
<1>4. t \in 1..Len(page) /\ IsLive(page[t]) /\ page[t].row.id # NoValue
  BY <1>3, ParameterAssumption DEF Finds
<1> QED
  BY <1>4, RowTypes

\* A step that changes neither the page nor what there is to tell.
LEMMA Keeps ==
    ASSUME NEW c \in Client, Restorable(c), task[c].do \notin Undoing,
           PageOf(c)' = PageOf(c), snapshots' = snapshots, WillLog(c)' = WillLog(c),
           task'[c].do \notin {"confirm", "undo"},
           task'[c].do = "update_row" => RowsAhead(PageOf(c), task'[c].rows),
           task'[c].do \in {"update_write", "update_log"} => RowsAhead(PageOf(c), Tail(task'[c].rows))
    PROVE  Restorable(c)'
BY Zenon DEF Restorable

\* A step that forgets what there was to tell.
LEMMA Forgets ==
    ASSUME NEW c \in Client, Types', PageOf(c)' \in PageState, snapshots' = <<>>, task'[c].do = "idle"
    PROVE  Restorable(c)'
<1>1. WillLog(c)' = wal' /\ wal' \in Seq(Seq(Change))
  BY DEF WillLog, Types
<1>2. \E pages : Tells(wal', pages, <<>>, PageOf(c)')
  BY <1>1, TellsNothing
<1> QED
  BY <1>1, <1>2 DEF Restorable

\* A step that changes the page and will log it.
LEMMA Changes ==
    ASSUME Types, NEW c \in Client, Restorable(c), task[c].do \notin Undoing, WillLog(c) = wal,
           NEW q \in PageState, PageOf(c)' = q, Snapshot(c), NEW record \in Seq(Change),
           WillLog(c)' = Append(wal, record), Explains(record, PageOf(c), q),
           task'[c].do \notin {"confirm", "undo", "update_row"},
           task'[c].do \in {"update_write", "update_log"} => RowsAhead(q, Tail(task'[c].rows))
    PROVE  Restorable(c)'
<1>1. PageOf(c) \in PageState /\ wal \in Seq(Seq(Change)) /\ snapshots \in Seq(Seq(Row))
  BY PageType DEF Types
<1>2. PICK pages : Tells(wal, pages, snapshots, PageOf(c))
  BY DEF Restorable
<1>3. \E more : Tells(Append(wal, record), more, Append(snapshots, Rows(PageOf(c))), q)
  BY <1>1, <1>2, TellsMore
<1>4. snapshots' = Append(snapshots, Rows(PageOf(c)))
  BY DEF Snapshot
<1> QED
  BY <1>3, <1>4, Zenon DEF Restorable

LEMMA WillLogs ==
    ASSUME NEW c \in Client
    PROVE  /\ task[c].do = "insert_log" => WillLog(c) = Append(wal, AfterChange)
           /\ task[c].do = "delete_log" => WillLog(c) = Append(wal, BeforeChange)
           /\ task[c].do \in {"update_write", "update_log"} => WillLog(c) = Append(wal, BeforeChange \o AfterChange)
           /\ task[c].do \notin {"insert_log", "delete_log", "update_write", "update_log"} => WillLog(c) = wal
           /\ task'[c].do = "insert_log" => WillLog(c)' = Append(wal', AfterChange')
           /\ task'[c].do = "delete_log" => WillLog(c)' = Append(wal', BeforeChange')
           /\ task'[c].do \in {"update_write", "update_log"} =>
                WillLog(c)' = Append(wal', BeforeChange' \o AfterChange')
           /\ task'[c].do \notin {"insert_log", "delete_log", "update_write", "update_log"} => WillLog(c)' = wal'
BY DEF WillLog

LEMMA InsertRestores ==
    ASSUME Types, Types', NEW c \in Client, Restorable(c),
           \/ \E row \in Row : InsertRow(c, row)
           \/ InsertLog(c) \/ InsertWrite(c)
    PROVE  Restorable(c)'
<1>0. PageOf(c) \in PageState /\ task[c] \in Task
  BY PageType DEF Types
<1>1. ASSUME NEW row \in Row, InsertRow(c, row)
      PROVE  Restorable(c)'
  <2> DEFINE s == NewRecord(row, "insert")
             left == NewRecord(row, "failed")
             q == Append(PageOf(c), s)
             t == [Idle EXCEPT !.do = "insert_log"]
  <2>1. task[c].do = "idle" /\ UNCHANGED <<disk, wal>>
    BY <1>1, InsertRowCases
  <2>2. s \in SlotState /\ s.row = row /\ left \in SlotState
    BY DEF NewRecord, SlotState
  <2>3. \/ /\ task' = [task EXCEPT ![c] = t] /\ Cache(c, q) /\ Snapshot(c)
           /\ walData' = [walData EXCEPT !.after = [slot |-> Len(PageOf(c)) + 1, row |-> row]]
        \/ Finish(c) /\ Cache(c, Append(PageOf(c), left)) /\ ForgetSnapshots
        \/ task' = [task EXCEPT ![c] = Idle] /\ Cache(c, PageOf(c)) /\ UNCHANGED <<walData, snapshots>>
    BY <1>1, InsertRowCases DEF Finish
  <2>4. t.do = "insert_log" /\ Idle.do = "idle"
    BY DEF Idle
  <2> HIDE DEF t
  <2>5. CASE /\ task' = [task EXCEPT ![c] = t] /\ Cache(c, q) /\ Snapshot(c)
             /\ walData' = [walData EXCEPT !.after = [slot |-> Len(PageOf(c)) + 1, row |-> row]]
    <3>1. task'[c].do = "insert_log"
      BY <2>4, <2>5 DEF Types
    <3> DEFINE new == AddedAt(Len(PageOf(c)) + 1, s)
    <3>2. walData'.after = [slot |-> Len(PageOf(c)) + 1, row |-> row]
      BY <2>5 DEF Types
    <3>3. AfterChange' = <<new>>
      BY <2>2, <3>2 DEF AfterChange, AddedAt
    <3>4. new \in Change
      <4>1. Len(PageOf(c)) + 1 \in Nat /\ s.row \in Row
        BY <1>0, <2>2, PageParts, RowTypes
      <4> QED
        BY <4>1 DEF AddedAt, Change
    <3> HIDE DEF s
    <3>5. Explains(<<new>>, PageOf(c), q)
      BY <2>2 DEF Explains
    <3>6. q \in PageState
      BY <1>0, <2>2, SlotAdded
    <3>7. <<new>> \in Seq(Change) /\ WillLog(c) = wal /\ WillLog(c)' = Append(wal, <<new>>)
      BY <2>1, <3>1, <3>3, <3>4, WillLogs
    <3> HIDE DEF new, q
    <3>8. PageOf(c)' = q
      BY <2>5, <3>6, NewPage
    <3> QED
      BY <2>1, <2>5, <3>1, <3>5, <3>6, <3>7, <3>8, Changes DEF Undoing
  <2>6. CASE task' = [task EXCEPT ![c] = Idle] /\ Cache(c, PageOf(c)) /\ UNCHANGED <<walData, snapshots>>
    <3>1. task'[c].do = "idle"
      BY <2>4, <2>6 DEF Types
    <3>2. PageOf(c)' = PageOf(c)
      BY <1>0, <2>6, NewPage
    <3>3. WillLog(c)' = WillLog(c)
      BY <2>1, <3>1, WillLogs
    <3> QED
      BY <2>1, <2>6, <3>1, <3>2, <3>3, Keeps DEF Undoing
  <2>7. CASE Finish(c) /\ Cache(c, Append(PageOf(c), left)) /\ ForgetSnapshots
    <3>1. task'[c].do = "idle"
      BY <2>4, <2>7 DEF Finish, Types
    <3> HIDE DEF left
    <3>2. PageOf(c)' \in PageState
      BY <1>0, <2>2, <2>7, SlotAdded, NewPage
    <3>3. snapshots' = <<>>
      BY <2>7 DEF ForgetSnapshots
    <3> QED
      BY <3>1, <3>2, <3>3, Forgets
  <2> QED
    BY <2>3, <2>5, <2>6, <2>7
<1>2. CASE InsertLog(c)
  <2>1. /\ task[c].do = "insert_log" /\ wal' = Append(wal, AfterChange) /\ Do(c, "insert_write")
        /\ UNCHANGED <<disk, cache, walData, snapshots>>
    BY <1>2, Zenon DEF InsertLog, Log
  <2>2. task'[c].do = "insert_write"
    BY <2>1 DEF Do, Types, Task
  <2>3. WillLog(c)' = WillLog(c)
    BY <2>1, <2>2, WillLogs
  <2>4. PageOf(c)' = PageOf(c)
    BY <2>1, OldPage
  <2> QED
    BY <2>1, <2>2, <2>3, <2>4, Keeps DEF Undoing
<1>3. CASE InsertWrite(c)
  <2>1. /\ task[c].do = "insert_write" /\ disk' = PageOf(c) /\ Finish(c)
        /\ UNCHANGED <<cache, wal, walData, snapshots>>
    BY <1>3, Zenon DEF InsertWrite, WritePage
  <2>2. task'[c].do = "idle"
    BY <2>1 DEF Finish, Idle, Types
  <2>3. WillLog(c)' = WillLog(c)
    BY <2>1, <2>2, WillLogs
  <2>4. PageOf(c)' = PageOf(c)
    BY <2>1, OldPage
  <2> QED
    BY <2>1, <2>2, <2>3, <2>4, Keeps DEF Undoing
<1> QED
  BY <1>1, <1>2, <1>3

LEMMA BeginRestores ==
    ASSUME Types, NEW c \in Client, Restorable(c),
           \E where \in Condition : DeleteBegin(c, where) \/ \E set \in Assignment : UpdateBegin(c, set, where)
    PROVE  Restorable(c)'
<1> DEFINE page == PageOf(c)
<1>1. page \in PageState
  BY PageType
<1>2. task[c].do = "idle" /\ Cache(c, page) /\ UNCHANGED <<wal, snapshots>>
  BY DEF DeleteBegin, UpdateBegin, Begin
<1>3. PageOf(c)' = page
  BY <1>1, <1>2, NewPage
<1>4. /\ task'[c].do \in {"idle", "delete_row", "update_row"}
      /\ task'[c].do = "update_row" => RowsAhead(page, task'[c].rows)
  <2>1. ASSUME NEW where \in Condition, DeleteBegin(c, where)
        PROVE  task'[c].do \in {"idle", "delete_row"}
    BY <2>1 DEF DeleteBegin, Begin, Types, Idle
  <2>2. ASSUME NEW where \in Condition, NEW set \in Assignment, UpdateBegin(c, set, where)
        PROVE  /\ task'[c].do \in {"idle", "update_row"}
               /\ task'[c].do = "update_row" => RowsAhead(page, task'[c].rows)
    <3> DEFINE rows == Selected(page, where)
               t == [Idle EXCEPT !.do = "update_row", !.rows = rows, !.set = set, !.where = where]
    <3>1. task' = [task EXCEPT ![c] = Idle] \/ task' = [task EXCEPT ![c] = t]
      BY <2>2 DEF UpdateBegin, Begin
    <3> HIDE DEF rows
    <3>2. t.do = "update_row" /\ t.rows = rows /\ Idle.do = "idle"
      BY DEF Idle
    <3> HIDE DEF t
    <3>3. task'[c] = Idle \/ task'[c] = t
      BY <3>1 DEF Types
    <3>4. RowsAhead(page, rows)
      BY <1>1, AheadAtFirst DEF rows
    <3> QED
      BY <3>2, <3>3, <3>4
  <2> HIDE DEF page
  <2> QED
    BY <2>1, <2>2
<1>5. WillLog(c)' = WillLog(c)
  BY <1>2, <1>4, WillLogs
<1>6. task'[c].do \notin {"confirm", "undo", "update_write", "update_log"} /\ task[c].do \notin Undoing
  BY <1>2, <1>4 DEF Undoing
<1> QED
  BY <1>2, <1>3, <1>4, <1>5, <1>6, Keeps

LEMMA DeleteRestores ==
    ASSUME Types, NEW c \in Client, Restorable(c), DeleteRow(c) \/ DeleteLog(c) \/ DeleteWrite(c)
    PROVE  Restorable(c)'
<1> DEFINE page == PageOf(c)
<1>0. page \in PageState /\ task[c] \in Task
  BY PageType DEF Types
<1>1. CASE DeleteRow(c)
  <2> DEFINE x == Head(task[c].rows).id
             target == TargetSlot(page, x)
             q == [page EXCEPT ![target].status = "deleted"]
  <2>1. task[c].do = "delete_row" /\ UNCHANGED <<disk, wal, keyChanged>>
    BY <1>1, Zenon DEF DeleteRow
  <2>2. \/ Finish(c) /\ UNCHANGED <<cache, walData, snapshots>>
        \/ NextRow(c, "delete_row", "delete_write") /\ UNCHANGED <<cache, walData, snapshots>>
        \/ /\ x # NoValue /\ target # 0 /\ Cache(c, q)
           /\ walData' = [walData EXCEPT !.before = [slot |-> target, row |-> page[target].row]]
           /\ Snapshot(c) /\ Do(c, "delete_log")
    BY <1>1 DEF DeleteRow
  <2>3. CASE (Finish(c) \/ NextRow(c, "delete_row", "delete_write")) /\ UNCHANGED <<cache, walData, snapshots>>
    <3>1. task'[c].do \in {"idle", "delete_row", "delete_write"}
      <4>1. CASE Finish(c)
        BY <2>1, <4>1, FinishTypes DEF Idle
      <4>2. CASE NextRow(c, "delete_row", "delete_write")
        BY <1>0, <2>1, <4>2, NextRowTypes DEF Task
      <4> QED
        BY <2>3, <4>1, <4>2
    <3>2. WillLog(c)' = WillLog(c)
      BY <2>1, <3>1, WillLogs
    <3>3. PageOf(c)' = PageOf(c)
      BY <2>1, <2>3, OldPage
    <3> QED
      BY <2>1, <2>3, <3>1, <3>2, <3>3, Keeps DEF Undoing
  <2>4. CASE /\ x # NoValue /\ target # 0 /\ Cache(c, q)
             /\ walData' = [walData EXCEPT !.before = [slot |-> target, row |-> page[target].row]]
             /\ Snapshot(c) /\ Do(c, "delete_log")
    <3> DEFINE new == GoneFrom(page, target)
    <3>0. task'[c].do = "delete_log"
      BY <2>4 DEF Do, Types, Task
    <3>1. walData'.before = [slot |-> target, row |-> page[target].row]
      BY <2>4 DEF Types
    <3>2. BeforeChange' = <<new>>
      BY <3>1 DEF BeforeChange, GoneFrom
    <3>3. q = WithStatus(page, target, "deleted")
      BY DEF WithStatus
    <3> HIDE DEF q, target, x, page
    <3>4. target \in 1..Len(page) /\ IsLive(page[target]) /\ page[target].row # EmptyRow
      BY <1>0, <2>4, TargetIs DEF target
    <3>5. q \in PageState
      BY <1>0, <3>3, StatusChange
    <3>6. new \in Change
      <4>1. target \in Nat /\ page[target].row \in Row
        BY <1>0, <3>4, PageParts
      <4> QED
        BY <4>1 DEF GoneFrom, Change
    <3> HIDE DEF new
    <3>7. Explains(<<new>>, page, q)
      BY <3>3, <3>4 DEF Explains, new
    <3>8. <<new>> \in Seq(Change) /\ WillLog(c) = wal /\ WillLog(c)' = Append(wal, <<new>>)
      BY <2>1, <3>0, <3>2, <3>6, WillLogs
    <3>9. PageOf(c)' = q
      BY <2>4, <3>5, NewPage
    <3> QED
      BY <2>1, <2>4, <3>0, <3>5, <3>7, <3>8, <3>9, Changes DEF Undoing, page
  <2> QED
    BY <2>2, <2>3, <2>4
<1>2. CASE DeleteLog(c)
  <2>1. /\ task[c].do = "delete_log" /\ wal' = Append(wal, BeforeChange) /\ NextRow(c, "delete_row", "delete_write")
        /\ UNCHANGED <<disk, cache, walData, keyChanged, snapshots>>
    BY <1>2, Zenon DEF DeleteLog, Log
  <2>2. task'[c].do \in {"delete_row", "delete_write"}
    BY <1>0, <2>1, NextRowTypes DEF Task
  <2>3. WillLog(c)' = WillLog(c)
    BY <2>1, <2>2, WillLogs
  <2>4. PageOf(c)' = PageOf(c)
    BY <2>1, OldPage
  <2> QED
    BY <2>1, <2>2, <2>3, <2>4, Keeps DEF Undoing
<1>3. CASE DeleteWrite(c)
  <2>1. /\ task[c].do = "delete_write" /\ disk' = PageOf(c) /\ Finish(c)
        /\ UNCHANGED <<cache, wal, walData, snapshots>>
    BY <1>3, Zenon DEF DeleteWrite, WritePage
  <2>2. task'[c].do = "idle"
    BY <2>1 DEF Finish, Idle, Types
  <2>3. WillLog(c)' = WillLog(c)
    BY <2>1, <2>2, WillLogs
  <2>4. PageOf(c)' = PageOf(c)
    BY <2>1, OldPage
  <2> QED
    BY <2>1, <2>2, <2>3, <2>4, Keeps DEF Undoing
<1> QED
  BY <1>1, <1>2, <1>3

LEMMA UpdateRestores ==
    ASSUME Types, Types', NEW c \in Client, Restorable(c), ~keyChanged,
           UpdateRow(c) \/ UpdateWrite(c) \/ UpdateLog(c)
    PROVE  Restorable(c)'
<1> DEFINE page == PageOf(c)
           rows == task[c].rows
<1>0. page \in PageState /\ task[c] \in Task /\ TaskOK(task[c], keyChanged)
  BY PageType DEF Types
<1>1. CASE UpdateRow(c)
  <2> DEFINE row == UpdatedRow(c)
             s == NewRecord(row, "update")
             rest == UpdateRest(c)
             q == Append(rest, s)
             target == UpdateTarget(c)
  <2>1. task[c].do = "update_row" /\ rows # <<>> /\ UNCHANGED <<disk, wal, keyChanged>>
    BY <1>1, UpdateRowCases
  <2>2. \/ Finish(c) /\ UNCHANGED <<cache, walData, snapshots>>
        \/ Cache(c, rest) /\ ForgetSnapshots /\ Finish(c)
        \/ /\ row.id # NoValue /\ Cache(c, q)
           /\ walData' = [before |-> UpdateOld(c), after |-> [slot |-> Len(PageOf(c)) + 1, row |-> row]]
           /\ Snapshot(c) /\ Do(c, "update_write")
    BY <1>1, UpdateRowCases
  <2>3. /\ row \in Row /\ row.id = Head(rows).id /\ rest \in PageState /\ s \in SlotState
    <3>1. task[c].set.col = "val"
      BY <2>1, UpdatePieces
    <3> QED
      BY <2>1, <3>1, UpdatePieces
  <2>4. CASE Finish(c) /\ UNCHANGED <<cache, walData, snapshots>>
    <3>1. task'[c].do = "idle"
      BY <2>1, <2>4, FinishTypes DEF Idle
    <3>2. WillLog(c)' = WillLog(c)
      BY <2>1, <3>1, WillLogs
    <3>3. PageOf(c)' = PageOf(c)
      BY <2>1, <2>4, OldPage
    <3> QED
      BY <2>1, <2>4, <3>1, <3>2, <3>3, Keeps DEF Undoing
  <2>5. CASE Cache(c, rest) /\ ForgetSnapshots /\ Finish(c)
    <3>1. task'[c].do = "idle"
      BY <2>1, <2>5, FinishTypes DEF Idle
    <3> HIDE DEF rest
    <3>2. PageOf(c)' \in PageState
      BY <2>3, <2>5, NewPage
    <3>3. snapshots' = <<>>
      BY <2>5 DEF ForgetSnapshots
    <3> QED
      BY <3>1, <3>2, <3>3, Forgets
  <2>6. CASE /\ row.id # NoValue /\ Cache(c, q)
             /\ walData' = [before |-> UpdateOld(c), after |-> [slot |-> Len(PageOf(c)) + 1, row |-> row]]
             /\ Snapshot(c) /\ Do(c, "update_write")
    <3> DEFINE gone == GoneFrom(page, target)
               new == AddedAt(Len(page) + 1, s)
               record == <<gone>> \o <<new>>
    <3>1. rows \in Seq(Row) /\ RowsAhead(page, rows) /\ rows[1] = Head(rows)
      <4>1. rows \in Seq(Row)
        BY <1>0 DEF Task
      <4>2. rows[1] = Head(rows)
        BY <2>1, <4>1
      <4>3. RowsAhead(page, rows)
        BY <2>1 DEF Restorable
      <4> QED
        BY <4>1, <4>2, <4>3
    <3>2. target = TargetSlot(page, rows[1].id) /\ rows[1].id # NoValue
      BY <2>3, <2>6, <3>1 DEF UpdateTarget
    <3>3. task'[c].do = "update_write" /\ task'[c].rows = rows
      BY <2>6 DEF Do, Types, Task
    <3> HIDE DEF page, rows, s
    <3> DEFINE q2 == Append(WithStatus(page, target, "replaced"), s)
    <3>4. /\ target \in 1..Len(page) /\ IsLive(page[target]) /\ page[target].row # EmptyRow
          /\ RowsAhead(q2, Tail(rows))
      <4> HIDE DEF target, q2
      <4>1. q2 = Append(WithStatus(page, target, "replaced"), s)
        BY DEF q2
      <4> QED
        BY <1>0, <2>1, <2>3, <3>1, <3>2, <4>1, AheadAfter
    <3>5. target # 0
      BY <1>0, <3>4, PageParts
    <3>6. q = q2 /\ UpdateOld(c) = [slot |-> target, row |-> page[target].row]
      BY <3>5 DEF UpdateRest, UpdateOld, WithStatus, page
    <3>7. BeforeChange' = <<gone>> /\ AfterChange' = <<new>>
      <4>1. walData'.before = UpdateOld(c) /\ walData'.after = [slot |-> Len(page) + 1, row |-> row]
        BY <2>6 DEF page
      <4>2. s.row = row
        BY DEF NewRecord, s
      <4> HIDE DEF target, row
      <4> QED
        BY <3>6, <4>1, <4>2 DEF BeforeChange, AfterChange, GoneFrom, AddedAt
    <3>8. q \in PageState
      BY <2>3, SlotAdded
    <3> HIDE DEF q, q2, target, rest
    <3>9. Explains(record, page, q)
      <4>1. q = Append(WithStatus(page, target, "replaced"), s)
        BY <3>6 DEF q2
      <4> QED
        BY <2>3, <3>4, <4>1 DEF Explains
    <3>10. gone \in Change /\ new \in Change
      <4>1. target \in Nat /\ page[target].row \in Row /\ Len(page) + 1 \in Nat /\ s.row \in Row
        BY <1>0, <2>3, <3>4, PageParts, RowTypes
      <4> QED
        BY <4>1 DEF GoneFrom, AddedAt, Change
    <3> HIDE DEF gone, new
    <3>11. record \in Seq(Change)
      BY <3>10, OneOrTwo
    <3>12. WillLog(c) = wal /\ WillLog(c)' = Append(wal, record)
      BY <2>1, <3>3, <3>7, WillLogs
    <3>13. PageOf(c)' = q
      BY <2>6, <3>8, NewPage
    <3>14. RowsAhead(q, Tail(task'[c].rows))
      BY <3>3, <3>4, <3>6
    <3> HIDE DEF record
    <3> QED
      BY <2>1, <2>6, <3>3, <3>8, <3>9, <3>11, <3>12, <3>13, <3>14, Changes DEF Undoing, page
  <2> QED
    BY <2>2, <2>4, <2>5, <2>6
<1>2. CASE UpdateWrite(c)
  <2>1. /\ task[c].do = "update_write" /\ disk' = PageOf(c) /\ Do(c, "update_log")
        /\ UNCHANGED <<cache, wal, walData, snapshots>>
    BY <1>2, Zenon DEF UpdateWrite, WritePage
  <2>2. task'[c].do = "update_log" /\ task'[c].rows = rows
    BY <2>1 DEF Do, Types, Task
  <2>3. WillLog(c)' = WillLog(c)
    <3>1. BeforeChange' = BeforeChange /\ AfterChange' = AfterChange
      BY <2>1 DEF BeforeChange, AfterChange
    <3> QED
      BY <2>1, <2>2, <3>1, WillLogs
  <2>4. PageOf(c)' = PageOf(c)
    BY <2>1, OldPage
  <2>5. RowsAhead(PageOf(c), Tail(task'[c].rows))
    BY <2>1, <2>2 DEF Restorable
  <2> QED
    BY <2>1, <2>2, <2>3, <2>4, <2>5, Keeps DEF Undoing
<1>3. CASE UpdateLog(c)
  <2>1. /\ task[c].do = "update_log" /\ wal' = Append(wal, BeforeChange \o AfterChange)
        /\ UNCHANGED <<disk, cache, walData, keyChanged, snapshots>>
        /\ IF Len(task[c].rows) = 1 THEN Finish(c) ELSE NextRow(c, "update_row", "idle")
    BY <1>3, Zenon DEF UpdateLog, Log
  <2>2. /\ task'[c].do \in {"idle", "update_row"}
        /\ task'[c].do = "update_row" => task'[c].rows = Tail(rows)
    <3>1. CASE Finish(c)
      BY <2>1, <3>1, FinishTypes DEF Idle
    <3>2. CASE NextRow(c, "update_row", "idle")
      BY <1>0, <2>1, <3>2, NextRowTypes DEF Task
    <3> QED
      BY <2>1, <3>1, <3>2
  <2>3. WillLog(c)' = WillLog(c)
    BY <2>1, <2>2, WillLogs
  <2>4. PageOf(c)' = PageOf(c)
    BY <2>1, OldPage
  <2>5. RowsAhead(PageOf(c), Tail(rows))
    BY <2>1 DEF Restorable
  <2> QED
    BY <2>1, <2>2, <2>3, <2>4, <2>5, Keeps DEF Undoing
<1> QED
  BY <1>1, <1>2, <1>3

LEMMA RollbackBeginsRestores ==
    ASSUME Types, NEW c \in Client, Restorable(c), (\E n \in 1..MaxUndo : RollbackAsk(c, n)) \/ RollbackConfirm(c)
    PROVE  Restorable(c)'
<1> DEFINE page == PageOf(c)
<1>0. page \in PageState /\ task[c] \in Task /\ snapshots \in Seq(Seq(Row)) /\ wal \in Seq(Seq(Change))
  BY PageType DEF Types
<1>1. ASSUME NEW n \in 1..MaxUndo, RollbackAsk(c, n)
      PROVE  Restorable(c)'
  <2> DEFINE todo == ToUndo(n)
             t == [Idle EXCEPT !.do = "confirm", !.todo = todo, !.steps = n]
  <2>1. /\ task[c].do = "idle" /\ task' = [task EXCEPT ![c] = t]
        /\ UNCHANGED <<disk, cache, wal, walData, keyChanged, snapshots>>
    BY <1>1 DEF RollbackAsk, Begin
  <2>2. t.do = "confirm" /\ t.todo = todo /\ t.steps = n
    BY DEF Idle
  <2> HIDE DEF t, todo
  <2>3. task'[c].do = "confirm" /\ task'[c].todo = todo /\ task'[c].steps = n
    BY <2>1, <2>2 DEF Types
  <2>4. WillLog(c) = wal /\ WillLog(c)' = wal
    BY <2>1, <2>3, WillLogs
  <2>5. PageOf(c)' = page
    BY <2>1, OldPage
  <2>6. PICK pages : Tells(wal, pages, snapshots, page)
    BY <2>1, <2>4 DEF Restorable, Undoing
  <2>7. n <= Len(snapshots) =>
          \E end \in PageState : Undoes(page, todo, end) /\ Rows(end) = snapshots[Len(snapshots) - n + 1]
    <3>1. SUFFICES ASSUME n <= Len(snapshots)
                   PROVE  \E end \in PageState : Undoes(page, todo, end) /\ Rows(end) = snapshots[Len(snapshots) - n + 1]
      OBVIOUS
    <3>2. n \in 1..Len(snapshots)
      BY <1>0, <3>1
    <3> HIDE DEF page
    <3> QED
      BY <1>0, <2>6, <3>2, UndoesAll DEF todo
  <2> QED
    BY <2>1, <2>3, <2>4, <2>5, <2>6, <2>7, Zenon DEF Restorable
<1>2. CASE RollbackConfirm(c)
  <2>1. /\ task[c].do = "confirm" /\ UNCHANGED <<disk, cache, wal, walData, keyChanged, snapshots>>
        /\ Finish(c) \/ Do(c, "undo")
    BY <1>2 DEF RollbackConfirm
  <2>2. PageOf(c)' = page
    BY <2>1, OldPage
  <2>3. CASE Finish(c)
    <3>1. task'[c].do = "idle"
      BY <2>1, <2>3, FinishTypes DEF Idle
    <3>2. WillLog(c)' = WillLog(c)
      BY <2>1, <3>1, WillLogs
    <3> QED
      BY <2>1, <2>2, <3>1, <3>2, Keeps DEF Undoing
  <2>4. CASE Do(c, "undo")
    <3>1. task'[c].do = "undo" /\ task'[c].todo = task[c].todo /\ task'[c].steps = task[c].steps
      BY <1>0, <2>4 DEF Do, Types, Task
    <3> QED
      BY <2>1, <2>2, <3>1, Zenon DEF Restorable, Undoing
  <2> QED
    BY <2>1, <2>3, <2>4
<1> QED
  BY <1>1, <1>2

LEMMA UndoRestores ==
    ASSUME Types, Types', NEW c \in Client, Restorable(c), UndoOne(c)
    PROVE  Restorable(c)'
<1> DEFINE todo == task[c].todo
           page == Undone(PageOf(c), Head(todo))
<1>1. /\ task[c].do = "undo" /\ Cache(c, page)
      /\ \/ Finish(c) /\ ForgetSnapshots
         \/ Len(todo) # 1 /\ task' = [task EXCEPT ![c].todo = Tail(@)] /\ UNCHANGED snapshots
      /\ UNCHANGED keyChanged
  BY UndoOneParts
<1>2. todo \in Seq(Change) /\ todo # <<>> /\ task[c] \in Task
  BY <1>1 DEF Types, TaskOK, Task
<1>3. page \in PageState
  BY PageType, UndoneSlot
<1> HIDE DEF page
<1>4. PageOf(c)' = page
  BY <1>1, <1>3, NewPage
<1>5. CASE Finish(c) /\ ForgetSnapshots
  <2>1. task'[c].do = "idle" /\ snapshots' = <<>>
    BY <1>1, <1>5, FinishTypes DEF Idle, ForgetSnapshots
  <2> QED
    BY <1>3, <1>4, <2>1, Forgets
<1>6. CASE task' = [task EXCEPT ![c].todo = Tail(@)] /\ UNCHANGED snapshots
  <2>1. task'[c].do = "undo" /\ task'[c].todo = Tail(todo) /\ task'[c].steps = task[c].steps
    BY <1>1, <1>2, <1>6 DEF Types, Task
  <2> HIDE DEF todo
  <2>2. ASSUME NEW end, Undoes(PageOf(c), todo, end)
        PROVE  Undoes(page, Tail(todo), end)
    BY <1>2, <2>2, UndoesFirst DEF page
  <2>3. task[c].steps <= Len(snapshots) =>
          \E end \in PageState : /\ Undoes(PageOf(c), todo, end)
                                 /\ Rows(end) = snapshots[Len(snapshots) - task[c].steps + 1]
    BY <1>1 DEF Restorable, todo
  <2>4. task[c].steps <= Len(snapshots) =>
          \E end \in PageState : /\ Undoes(page, Tail(todo), end)
                                 /\ Rows(end) = snapshots[Len(snapshots) - task[c].steps + 1]
    BY <2>2, <2>3
  <2> QED
    BY <1>4, <1>6, <2>1, <2>4, Zenon DEF Restorable, Undoing
<1> QED
  BY <1>1, <1>5, <1>6

LEMMA LeaveRestores ==
    ASSUME OneClient, Types, NEW c \in Client, Restorable(c),
           CrashAndRestart \/ (\E d \in Client : Reconnect(d)) \/ \E d \in Client : UndoThrows(d)
    PROVE  Restorable(c)'
<1>1. CASE CrashAndRestart \/ \E d \in Client : Reconnect(d)
  <2>1. Types'
    BY <1>1, LeaveTypes
  <2>2. cache'[c] = {} /\ task'[c].do = "idle" /\ snapshots' = <<>>
    <3>1. CASE CrashAndRestart
      BY <3>1 DEF CrashAndRestart, Idle, ForgetSnapshots
    <3>2. ASSUME NEW d \in Client, Reconnect(d)
          PROVE  cache'[c] = {} /\ task'[c].do = "idle" /\ snapshots' = <<>>
      <4>1. c = d
        BY DEF OneClient
      <4>2. cache' = [cache EXCEPT ![d] = {}] /\ task' = task /\ task[d].do = "idle" /\ snapshots' = <<>>
        BY <3>2 DEF Reconnect, ForgetSnapshots
      <4> QED
        BY <4>1, <4>2 DEF Types
    <3> QED
      BY <1>1, <3>1, <3>2
  <2>3. PageOf(c)' \in PageState
    BY <2>1, <2>2 DEF PageOf, Types
  <2> QED
    BY <2>1, <2>2, <2>3, Forgets
<1>2. ASSUME NEW d \in Client, UndoThrows(d)
      PROVE  Restorable(c)'
  <2>1. task'[c].do = "killed"
    BY <1>2 DEF UndoThrows, Idle
  <2> QED
    BY <2>1 DEF Restorable, Undoing
<1> QED
  BY <1>1, <1>2

LEMMA KeyStaysChanged ==
    ASSUME Types, [Next]_vars, keyChanged
    PROVE  keyChanged'
<1>1. ASSUME NEW c \in Client, NEW set \in Assignment, NEW where \in Condition, UpdateBegin(c, set, where)
      PROVE  keyChanged'
  BY <1>1, Zenon DEF UpdateBegin
<1>2. ASSUME NEW c \in Client, NEW where \in Condition, DeleteBegin(c, where)
      PROVE  keyChanged'
  BY <1>2, Zenon DEF DeleteBegin
<1>3. ASSUME NEW c \in Client, NEW row \in Row, InsertRow(c, row)
      PROVE  keyChanged'
  BY <1>3, Zenon DEF InsertRow
<1>4. ASSUME NEW c \in Client, InsertLog(c) \/ InsertWrite(c) \/ DeleteRow(c) \/ DeleteLog(c) \/ DeleteWrite(c)
      PROVE  keyChanged'
  BY <1>4, Zenon DEF InsertLog, InsertWrite, DeleteRow, DeleteLog, DeleteWrite
<1>5. ASSUME NEW c \in Client, UpdateRow(c)
      PROVE  keyChanged'
  BY <1>5, UpdateRowCases
<1>6. ASSUME NEW c \in Client, UpdateWrite(c) \/ UpdateLog(c)
      PROVE  keyChanged'
  BY <1>6, Zenon DEF UpdateWrite, UpdateLog
<1>7. ASSUME NEW c \in Client, (\E n \in 1..MaxUndo : RollbackAsk(c, n)) \/ RollbackConfirm(c) \/ UndoOne(c)
      PROVE  keyChanged'
  BY <1>7, Zenon DEF RollbackAsk, RollbackConfirm, UndoOne
<1>8. CASE CrashAndRestart \/ (\E c \in Client : Reconnect(c)) \/ \E c \in Client : UndoThrows(c)
  BY <1>8, Zenon DEF CrashAndRestart, Reconnect, UndoThrows
<1>9. CASE UNCHANGED vars
  BY <1>9 DEF vars
<1> QED
  BY <1>1, <1>2, <1>3, <1>4, <1>5, <1>6, <1>7, <1>8, <1>9 DEF Next

-----------------------------------------------------------------------------
(* The theorems *)

\* The states have the types the program gives them, with any number of
\* clients: a client's pool has one copy of the page at most, a statement in
\* progress has a row, or a change to undo, to go on with.
THEOREM TypesHold == Spec => []Types
<1>1. Init => Types
  <2>1. SUFFICES ASSUME Init PROVE Types
    OBVIOUS
  <2>2. <<>> \in PageState /\ <<>> \in Seq(Seq(Change)) /\ <<>> \in Seq(Seq(Row))
    BY DEF PageState
  <2>3. NothingLogged \in [before : Position, after : Position]
    BY RowTypes DEF NothingLogged, NoPosition, Position
  <2>4. TaskOK(Idle, FALSE)
    BY RowTypes DEF TaskOK, Idle
  <2> QED
    BY <2>1, <2>2, <2>3, <2>4, RowTypes DEF Init, Types
<1>2. Types /\ [Next]_vars => Types'
  <2> SUFFICES ASSUME Types, [Next]_vars PROVE Types'
    OBVIOUS
  <2>1. ASSUME NEW c \in Client, NEW row \in Row, InsertRow(c, row)
        PROVE  Types'
    BY <2>1, InsertRowTypes
  <2>2. ASSUME NEW c \in Client, InsertLog(c) \/ InsertWrite(c)
        PROVE  Types'
    BY <2>2, InsertStepTypes
  <2>3. ASSUME NEW c \in Client,
               \E where \in Condition : DeleteBegin(c, where) \/ \E set \in Assignment : UpdateBegin(c, set, where)
        PROVE  Types'
    BY <2>3, BeginsTypes
  <2>4. ASSUME NEW c \in Client, DeleteRow(c) \/ DeleteLog(c) \/ DeleteWrite(c)
        PROVE  Types'
    BY <2>4, DeleteTypes
  <2>5. ASSUME NEW c \in Client, UpdateRow(c) \/ UpdateWrite(c) \/ UpdateLog(c)
        PROVE  Types'
    BY <2>5, UpdateTypes
  <2>6. ASSUME NEW c \in Client,
               \/ \E n \in 1..MaxUndo : RollbackAsk(c, n)
               \/ RollbackConfirm(c) \/ UndoOne(c) \/ UndoThrows(c)
        PROVE  Types'
    BY <2>6, RollbackTypes
  <2>7. CASE CrashAndRestart \/ \E c \in Client : Reconnect(c)
    BY <2>7, LeaveTypes
  <2>8. CASE UNCHANGED vars
    <3>1. UNCHANGED <<disk, cache, wal, walData, task, acked, keyChanged, snapshots>>
      BY <2>8 DEF vars
    <3> QED
      BY <3>1 DEF Types
  <2> QED
    BY <2>1, <2>2, <2>3, <2>4, <2>5, <2>6, <2>7, <2>8 DEF Next
<1> QED
  BY <1>1, <1>2, PTL DEF Spec

\* Type correctness as the runs check it.
THEOREM TypeCorrect == Spec => []TypeOK
<1>1. Types => TypeOK
  <2> SUFFICES ASSUME Types PROVE TypeOK
    OBVIOUS
  <2>1. ASSUME NEW c \in Client
        PROVE  Cardinality(cache[c]) <= 1 /\ \A page \in cache[c] : page \in PageState
    <3>1. CASE cache[c] = {}
      BY <3>1, FS_EmptySet
    <3>2. ASSUME NEW page \in PageState, cache[c] = {page}
          PROVE  Cardinality(cache[c]) <= 1 /\ \A p \in cache[c] : p \in PageState
      BY <3>2, FS_Singleton
    <3> QED
      BY <3>1, <3>2 DEF Types
  <2>2. \A c \in Client : task[c].rows \in Seq(Row) /\ task[c].todo \in Seq(Change)
    BY DEF Types, Task
  <2> QED
    BY <2>1, <2>2 DEF Types, TypeOK
<1> QED
  BY <1>1, TypesHold, PTL

\* One client at a time: the pages, the file and the log agree as IInv says,
\* also after INSERTs that an index has thrown out of, whose records stay in
\* the pool's page in no log, and UPDATEs that have thrown half-way.
THEOREM IInvHolds == ASSUME OneClient PROVE Spec => []IInv
<1>1. Init /\ Types => IInv
  <2> SUFFICES ASSUME Init, Types PROVE IInv
    OBVIOUS
  <2>1. disk = <<>> /\ wal = <<>> /\ acked = 0 /\ \A c \in Client : cache[c] = {} /\ task[c].do = "idle"
    BY DEF Init, Idle
  <2>2. \A c \in Client : PageOf(c) = <<>>
    BY <2>1 DEF PageOf
  <2>3. Len(<<>>) = 0 /\ 1..0 = {}
    OBVIOUS
  <2>4. LoggedChanges = {}
    <3>1. DOMAIN wal = {}
      BY <2>1
    <3> QED
      BY <3>1 DEF LoggedChanges
  <2>5. \A c \in Client : PageSound(c)
    BY <2>1, <2>2, <2>3 DEF PageSound, PageFits, PageLogged, BeforeKnown, SameSlots, Ahead
  <2>6. AckedInsertsAreOnDisk
    <3>1. Cardinality(Inserts(disk)) \in Nat
      BY MoreInserts DEF Types
    <3> QED
      BY <2>1, <3>1 DEF AckedInsertsAreOnDisk, Inserts
  <2> QED
    BY <2>1, <2>3, <2>4, <2>5, <2>6 DEF IInv, FileSound, InsertsAndDeletesAreLoggedAhead, DeletionsAreThere
<1>2. ASSUME IInv, Types', [Next]_vars PROVE IInv'
  <2>1. ASSUME NEW c \in Client, PageSound(c)' /\ FileSound'
        PROVE  IInv'
    BY <1>2, <2>1 DEF OneClient, IInv
  <2>2. ASSUME NEW c \in Client, NEW row \in Row, InsertRow(c, row)
        PROVE  IInv'
    BY <1>2, <2>1, <2>2, InsertRowSound
  <2>3. ASSUME NEW c \in Client, InsertLog(c) \/ DeleteLog(c) \/ UpdateLog(c)
        PROVE  IInv'
    BY <1>2, <2>1, <2>3, LogSound
  <2>4. ASSUME NEW c \in Client, InsertWrite(c) \/ DeleteWrite(c) \/ UpdateWrite(c)
        PROVE  IInv'
    BY <1>2, <2>1, <2>4, WriteSound
  <2>5. ASSUME NEW c \in Client,
               \/ \E where \in Condition : DeleteBegin(c, where) \/ \E set \in Assignment : UpdateBegin(c, set, where)
               \/ \E n \in 1..MaxUndo : RollbackAsk(c, n)
               \/ RollbackConfirm(c) \/ UndoThrows(c)
        PROVE  IInv'
    BY <1>2, <2>1, <2>5, QuietSteps
  <2>6. ASSUME NEW c \in Client, DeleteRow(c)
        PROVE  IInv'
    BY <1>2, <2>1, <2>6, DeleteRowSound
  <2>7. ASSUME NEW c \in Client, UpdateRow(c)
        PROVE  IInv'
    BY <1>2, <2>1, <2>7, UpdateRowSound
  <2>8. ASSUME NEW c \in Client, UndoOne(c)
        PROVE  IInv'
    BY <1>2, <2>1, <2>8, UndoSound
  <2>9. CASE CrashAndRestart \/ \E c \in Client : Reconnect(c)
    BY <1>2, <2>9, LeaveSound DEF IInv
  <2>10. CASE UNCHANGED vars
    <3>1. UNCHANGED <<disk, cache, wal, walData, task, acked, keyChanged>>
      BY <2>10 DEF vars
    <3>2. LoggedChanges' = LoggedChanges /\ \A c \in Client : PageOf(c)' = PageOf(c)
      BY <3>1 DEF LoggedChanges, PageOf
    <3>3. FileSound'
      BY <1>2, <3>1, FileKept DEF IInv
    <3>4. \A c \in Client : PageSound(c)'
      BY <1>2, <3>1, <3>2 DEF IInv, PageSound, PageFits, PageLogged, BeforeKnown, BeforeIsThere, IsThere, SameSlots,
                              Ahead, In, Out
    <3> QED
      BY <1>2, <3>3, <3>4 DEF IInv
  <2> QED
    BY <1>2, <2>2, <2>3, <2>4, <2>5, <2>6, <2>7, <2>8, <2>9, <2>10 DEF Next
<1>3. Init /\ Types => IInv
  BY <1>1
<1>4. IInv /\ Types' /\ [Next]_vars => IInv'
  BY <1>2
<1> QED
  BY <1>3, <1>4, TypesHold, PTL DEF Spec

\* Write-ahead logging of INSERT and DELETE, for one client, through kills,
\* reconnections and rollbacks (insertRecord and deleteRecord log before
\* flushPage writes).  The records of INSERTs that failed at an index are not
\* among these: a later flush writes them, and no log names them.
THEOREM ChangesAreLoggedAhead == ASSUME OneClient PROVE Spec => []InsertsAndDeletesAreLoggedAhead
BY IInvHolds, PTL DEF IInv, FileSound

\* The slot of a logged deletion has the record that was deleted, for one
\* client whose UPDATEs do not SET the id (what undo revives by its length).
\* Of a record no index would take this is not said: it may be what a failed
\* INSERT left, lost in a kill after its deletion was logged.
THEOREM UndoFindsItsRecord == ASSUME OneClient PROVE Spec => []UndoRevivesTheLoggedRecord
<1>1. IInv => UndoRevivesTheLoggedRecord
  BY DEF IInv, FileSound, DeletionsAreThere, IsThere, UndoRevivesTheLoggedRecord
<1> QED
  BY <1>1, IInvHolds, PTL

\* With one client every INSERT that was reported has its slot in the file.
THEOREM AckedInsertsStay == ASSUME OneClient PROVE Spec => []AckedInsertsAreOnDisk
<1>1. IInv => AckedInsertsAreOnDisk
  BY DEF IInv, FileSound
<1> QED
  BY <1>1, IInvHolds, PTL

\* A DELETE or UPDATE that runs to its end changes the rows its WHERE clause
\* selects, all of them and nothing else, for any number of clients: each has a
\* copy of the page of its own from the first row to the last, and what the scan
\* has found the search by id finds again, if ids identify rows.
THEOREM StatementsChangeWhatTheySelect == Spec => ChangesWhatItSelects
<1>1. Init => SelectInv
  <2> SUFFICES ASSUME Init PROVE SelectInv
    OBVIOUS
  <2>1. <<>> \in PageState
    BY DEF PageState
  <2>2. before \in [Client -> PageState]
    BY <2>1 DEF Init
  <2>3. \A c \in Client : task[c].do \notin Deleting \cup Updating
    BY DEF Init, Idle, Deleting, Updating
  <2> QED
    BY <2>2, <2>3, OtherSteps DEF SelectInv
<1>2. Types /\ SelectInv /\ [Next]_vars => SelectInv'
  <2> SUFFICES ASSUME Types, SelectInv, [Next]_vars PROVE SelectInv'
    OBVIOUS
  <2>1. ASSUME NEW c \in Client,
               \/ \E row \in Row : InsertRow(c, row)
               \/ InsertLog(c) \/ InsertWrite(c)
               \/ \E n \in 1..MaxUndo : RollbackAsk(c, n)
               \/ RollbackConfirm(c) \/ UndoOne(c)
        PROVE  SelectInv'
    BY <2>1, OthersSelect
  <2>2. ASSUME NEW c \in Client,
               \E where \in Condition : DeleteBegin(c, where) \/ \E set \in Assignment : UpdateBegin(c, set, where)
        PROVE  SelectInv'
    BY <2>2, BeginsSelects
  <2>3. ASSUME NEW c \in Client, DeleteRow(c) \/ DeleteLog(c) \/ DeleteWrite(c)
        PROVE  SelectInv'
    BY <2>3, DeleteSelects
  <2>4. ASSUME NEW c \in Client, UpdateRow(c) \/ UpdateWrite(c) \/ UpdateLog(c)
        PROVE  SelectInv'
    BY <2>4, UpdateSelects
  <2>5. CASE CrashAndRestart \/ (\E c \in Client : Reconnect(c)) \/ \E c \in Client : UndoThrows(c)
    BY <2>5, LeaveSelects
  <2>6. CASE UNCHANGED vars
    <3>1. UNCHANGED <<task, before, cache>>
      BY <2>6 DEF vars
    <3> QED
      BY <3>1 DEF SelectInv
  <2> QED
    BY <2>1, <2>2, <2>3, <2>4, <2>5, <2>6 DEF Next
<1> DEFINE Chosen(c) == {i \in Live(before[c]) : Matches(before[c][i].row, task[c].where)}
           Left(c) == RowsAt(before[c], Live(before[c]) \ Chosen(c))
           Old(c) == RowsAt(before[c], Chosen(c))
           Changed(c) == [i \in 1..Len(Old(c)) |-> [Old(c)[i] EXCEPT ![task[c].set.col] = task[c].set.to]]
<1>3. ASSUME Types, SelectInv, NEW c \in Client, Unambiguous(before[c]), DeleteWrite(c)
      PROVE  Rows(PageOf(c)') = Left(c)
  <2>1. task[c].do = "delete_write" /\ UNCHANGED cache /\ disk' = PageOf(c)
    BY <1>3, Zenon DEF DeleteWrite, WritePage
  <2>2. PageOf(c)' = PageOf(c)
    BY <1>3, <2>1, OldPage
  <2>3. task[c].do \in Deleting \cup Updating /\ task[c].do \notin Updating
    BY <2>1 DEF Deleting, Updating
  <2>4. /\ PageOf(c) \in PageState /\ before[c] \in PageState /\ task[c] \in Task
        /\ \E at, k : Midway(task[c], before[c], PageOf(c), at, k)
    BY <1>3, <2>3, SelectsOn
  <2>5. PICK at, k : Midway(task[c], before[c], PageOf(c), at, k)
    BY <2>4
  <2>6. task[c].where \in Condition
    BY <2>4 DEF Task
  <2>7. Rows(PageOf(c)) = Left(c)
    <3> DEFINE found == before[c]
               page == PageOf(c)
               t == task[c]
               chosen == {i \in Live(found) : Matches(found[i].row, t.where)}
    <3>1. /\ found \in PageState /\ page \in PageState /\ t.where \in Condition /\ t.do = "delete_write"
          /\ Midway(t, found, page, at, k)
      BY <2>1, <2>4, <2>5, <2>6
    <3>2. chosen = {i \in Live(found) : Matches(found[i].row, t.where)}
          /\ Left(c) = RowsAt(found, Live(found) \ chosen)
      OBVIOUS
    <3> HIDE DEF found, t, chosen, page, Left
    <3>3. Rows(page) = RowsAt(found, Live(found) \ chosen)
      BY <3>1, <3>2, DeletedWhatItSelects
    <3> QED
      BY <3>2, <3>3 DEF page
  <2> QED
    BY <2>2, <2>7
<1>4. ASSUME Types, SelectInv, NEW c \in Client, Unambiguous(before[c]), UpdateLog(c), Len(task[c].rows) = 1,
             task[c].set.col # "id"
      PROVE  Rows(PageOf(c)') = Left(c) \o Changed(c)
  <2>1. task[c].do = "update_log" /\ UNCHANGED <<cache, disk>>
    BY <1>4, Zenon DEF UpdateLog
  <2>2. PageOf(c)' = PageOf(c)
    BY <1>4, <2>1, OldPage
  <2>3. task[c].do \in Deleting \cup Updating /\ task[c].set.col = "val"
    <3>1. task[c].set \in Assignment
      BY <1>4, <2>1 DEF Types, TaskOK
    <3> QED
      BY <1>4, <2>1, <3>1 DEF Deleting, Updating, Assignment
  <2>4. /\ PageOf(c) \in PageState /\ before[c] \in PageState /\ task[c] \in Task
        /\ \E at, k : Midway(task[c], before[c], PageOf(c), at, k)
    BY <1>4, <2>3, SelectsOn
  <2>5. PICK at, k : Midway(task[c], before[c], PageOf(c), at, k)
    BY <2>4
  <2>6. Rows(PageOf(c)) = Left(c) \o Changed(c)
    <3> DEFINE found == before[c]
               page == PageOf(c)
               t == task[c]
               chosen == {i \in Live(found) : Matches(found[i].row, t.where)}
    <3>1. /\ found \in PageState /\ page \in PageState /\ t \in Task /\ t.do = "update_log"
          /\ Midway(t, found, page, at, k) /\ Len(t.rows) = 1
      BY <1>4, <2>1, <2>4, <2>5
    <3>2. /\ chosen = {i \in Live(found) : Matches(found[i].row, t.where)}
          /\ Left(c) = RowsAt(found, Live(found) \ chosen)
          /\ Changed(c) = PutAll(RowsAt(found, chosen), t.set)
      BY DEF PutAll, Put
    <3> HIDE DEF found, t, chosen, page, Left, Changed
    <3>3. Rows(page) = RowsAt(found, Live(found) \ chosen) \o PutAll(RowsAt(found, chosen), t.set)
      BY <3>1, <3>2, UpdatedWhatItSelects
    <3> QED
      BY <3>2, <3>3 DEF page
  <2> QED
    BY <2>2, <2>6
<1>5. Types /\ SelectInv /\ [Next]_vars =>
        [\A c \in Client :
            LET page == before[c]
                chosen == {i \in Live(page) : Matches(page[i].row, task[c].where)}
                kept == RowsAt(page, Live(page) \ chosen)
                rows == RowsAt(page, chosen)
                set == task[c].set
            IN  Unambiguous(page) =>
                  /\ DeleteWrite(c) => Rows(PageOf(c)') = kept
                  /\ UpdateLog(c) /\ Len(task[c].rows) = 1 /\ set.col # "id" =>
                       Rows(PageOf(c)') =
                           kept \o [i \in 1..Len(rows) |-> [rows[i] EXCEPT ![set.col] = set.to]]]_vars
  BY <1>3, <1>4, Zenon
<1> QED
  BY <1>1, <1>2, <1>5, TypesHold, PTL DEF Spec, ChangesWhatItSelects

\* "rollback n" straight after n row changes gives back the rows the table
\* had before them, in their places, for one client whose UPDATEs do not SET
\* the id: the log explains how the page came about, change by change, so that
\* undoing its newest n records leads back to the page of n changes ago.
THEOREM RollbackGivesBack == ASSUME OneClient PROVE Spec => RollbackRestores
<1>1. Init /\ Types => RestoreInv
  <2> SUFFICES ASSUME Init, Types, NEW c \in Client PROVE Restorable(c)
    BY DEF RestoreInv
  <2>1. wal = <<>> /\ snapshots = <<>> /\ task[c].do = "idle"
    BY DEF Init, Idle
  <2>2. WillLog(c) = wal /\ wal \in Seq(Seq(Change)) /\ PageOf(c) \in PageState
    BY <2>1, WillLogs, PageType DEF Types
  <2>3. \E pages : Tells(wal, pages, <<>>, PageOf(c))
    BY <2>2, TellsNothing
  <2> QED
    BY <2>1, <2>2, <2>3 DEF Restorable
<1>2. Types /\ Types' /\ RestoreInv /\ [Next]_vars => RestoreInv'
  <2> SUFFICES ASSUME Types, Types', RestoreInv, [Next]_vars, ~keyChanged', NEW d \in Client
               PROVE  Restorable(d)'
    BY DEF RestoreInv
  <2>1. ~keyChanged
    BY KeyStaysChanged
  <2>2. Restorable(d)
    BY <2>1 DEF RestoreInv
  <2>3. ASSUME NEW c \in Client, NEW row \in Row, InsertRow(c, row)
        PROVE  Restorable(d)'
    BY <2>2, <2>3, InsertRestores DEF OneClient
  <2>4. ASSUME NEW c \in Client, InsertLog(c) \/ InsertWrite(c)
        PROVE  Restorable(d)'
    BY <2>2, <2>4, InsertRestores DEF OneClient
  <2>5. ASSUME NEW c \in Client,
               \E where \in Condition : DeleteBegin(c, where) \/ \E set \in Assignment : UpdateBegin(c, set, where)
        PROVE  Restorable(d)'
    BY <2>2, <2>5, BeginRestores DEF OneClient
  <2>6. ASSUME NEW c \in Client, DeleteRow(c) \/ DeleteLog(c) \/ DeleteWrite(c)
        PROVE  Restorable(d)'
    BY <2>2, <2>6, DeleteRestores DEF OneClient
  <2>7. ASSUME NEW c \in Client, UpdateRow(c) \/ UpdateWrite(c) \/ UpdateLog(c)
        PROVE  Restorable(d)'
    BY <2>1, <2>2, <2>7, UpdateRestores DEF OneClient
  <2>8. ASSUME NEW c \in Client, (\E n \in 1..MaxUndo : RollbackAsk(c, n)) \/ RollbackConfirm(c)
        PROVE  Restorable(d)'
    BY <2>2, <2>8, RollbackBeginsRestores DEF OneClient
  <2>9. ASSUME NEW c \in Client, UndoOne(c)
        PROVE  Restorable(d)'
    BY <2>2, <2>9, UndoRestores DEF OneClient
  <2>10. CASE CrashAndRestart \/ (\E c \in Client : Reconnect(c)) \/ \E c \in Client : UndoThrows(c)
    BY <2>2, <2>10, LeaveRestores
  <2>11. CASE UNCHANGED vars
    <3>1. UNCHANGED <<disk, cache, wal, walData, task, snapshots>>
      BY <2>11 DEF vars
    <3>2. PageOf(d)' = PageOf(d) /\ WillLog(d)' = WillLog(d)
      BY <3>1 DEF PageOf, WillLog, AfterChange, BeforeChange
    <3> QED
      BY <2>2, <3>1, <3>2, Zenon DEF Restorable
  <2> QED
    BY <2>3, <2>4, <2>5, <2>6, <2>7, <2>8, <2>9, <2>10, <2>11 DEF Next
<1>3. Types /\ RestoreInv /\ [Next]_vars =>
        [\A c \in Client :
            UndoOne(c) /\ Len(task[c].todo) = 1 /\ task[c].steps <= Len(snapshots) /\ ~keyChanged
            => Rows(PageOf(c)') = snapshots[Len(snapshots) - task[c].steps + 1]]_vars
  <2> SUFFICES ASSUME Types, RestoreInv, NEW c \in Client,
                      UndoOne(c), Len(task[c].todo) = 1, task[c].steps <= Len(snapshots), ~keyChanged
               PROVE  Rows(PageOf(c)') = snapshots[Len(snapshots) - task[c].steps + 1]
    OBVIOUS
  <2> DEFINE todo == task[c].todo
             page == Undone(PageOf(c), Head(todo))
  <2>1. task[c].do = "undo" /\ Cache(c, page)
    BY UndoOneParts
  <2>2. todo \in Seq(Change) /\ todo # <<>>
    BY <2>1 DEF Types, TaskOK, Task
  <2>3. page \in PageState
    BY PageType, UndoneSlot
  <2> HIDE DEF page
  <2>4. PageOf(c)' = page
    BY <2>1, <2>3, NewPage
  <2>5. PICK end \in PageState : /\ Undoes(PageOf(c), todo, end)
                                 /\ Rows(end) = snapshots[Len(snapshots) - task[c].steps + 1]
    BY <2>1 DEF RestoreInv, Restorable
  <2> HIDE DEF todo
  <2>6. end = page
    BY <2>2, <2>5, UndoesFirst DEF page, todo
  <2> QED
    BY <2>4, <2>5, <2>6
<1> QED
  BY <1>1, <1>2, <1>3, TypesHold, PTL DEF Spec, RollbackRestores
================================================================================
