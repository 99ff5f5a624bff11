--------------------------- MODULE BPlusTreeProofs ---------------------------
(***************************************************************************)
(* Proofs about BPlusTree, for a single client, any set of indexes and     *)
(* entries, any degree and any number of calls.                            *)
(*                                                                         *)
(* Between two steps of a call the file is no tree: the call still has     *)
(* pages to write.  The invariant IInv therefore speaks of the file F that *)
(* will be there once they are written (OnDisk), and says that F is sound: *)
(*                                                                         *)
(*   Tree       every page has a height, a leaf 0 and a parent one more    *)
(*              than each of its children.  A page is live if it is in a   *)
(*              tree of an index, and has then at most one parent, up; the *)
(*              pages that merges and the collapse of a root leave behind  *)
(*              are dead, and nothing live leads to them.                  *)
(*   Rooted     the roots are live, have no parent and differ              *)
(*   Filled     a child has as many keys as a node may be left with, but   *)
(*              for the one whose underflow the call is about to see to    *)
(*   RootsFilled  an internal root has a key, but for the one the call has *)
(*              taken the last key of                                      *)
(*   Progress   the stack frames of the call are a branch of the tree, and *)
(*              the frame it will use next holds the node as it is in F    *)
(*                                                                         *)
(* First what the operations make of one node, then what they make of the  *)
(* tree, then one lemma per action.                                        *)
(***************************************************************************)
EXTENDS BPlusTree, SequenceTheorems, FiniteFacts, TLAPS
-----------------------------------------------------------------------------
(* Sequences with one element more or less. *)

\* No element is there twice.
Distinct(s) == \A i, j \in 1..Len(s) : s[i] = s[j] => i = j

LEMMA RemoveAtProperties ==
    ASSUME NEW S, NEW s \in Seq(S), NEW p \in 1..Len(s)
    PROVE  /\ RemoveAt(s, p) \in Seq(S)
           /\ Len(RemoveAt(s, p)) = Len(s) - 1
           /\ \A i \in 1..(Len(s) - 1) : RemoveAt(s, p)[i] = s[IF i < p THEN i ELSE i + 1]
<1> DEFINE front == SubSeq(s, 1, p - 1)
           back == SubSeq(s, p + 1, Len(s))
<1>1. RemoveAt(s, p) = front \o back
  BY DEF RemoveAt
<1>2. Len(s) \in Nat /\ p \in 1..Len(s)
  OBVIOUS
<1>3. front \in Seq(S) /\ Len(front) = p - 1 /\ \A i \in 1..(p - 1) : front[i] = s[i]
  OBVIOUS
<1>4. back \in Seq(S) /\ Len(back) = Len(s) - p /\ \A i \in 1..(Len(s) - p) : back[i] = s[p + i]
  OBVIOUS
<1> DEFINE n == Len(s)
<1> HIDE DEF front, back, n
<1>5. /\ front \o back \in Seq(S) /\ Len(front \o back) = (p - 1) + (n - p)
      /\ \A i \in 1..((p - 1) + (n - p)) :
            (front \o back)[i] = IF i <= p - 1 THEN front[i] ELSE back[i - (p - 1)]
  <2>1. /\ front \o back \in Seq(S) /\ Len(front \o back) = Len(front) + Len(back)
        /\ \A i \in 1..(Len(front) + Len(back)) :
              (front \o back)[i] = IF i <= Len(front) THEN front[i] ELSE back[i - Len(front)]
    BY <1>3, <1>4, ConcatProperties, Zenon
  <2>2. Len(front) = p - 1 /\ Len(back) = n - p
    BY <1>3, <1>4 DEF n
  <2> QED
    BY <2>1, <2>2, Zenon
<1>6. ASSUME NEW i \in 1..(n - 1)
      PROVE  (front \o back)[i] = s[IF i < p THEN i ELSE i + 1]
  <2>1. n \in Nat /\ p \in 1..n
    BY <1>2 DEF n
  <2>2. CASE i < p
    BY <1>3, <1>5, <2>1, <2>2
  <2>3. CASE ~ (i < p)
    <3>1. i - (p - 1) \in 1..(n - p) /\ p + (i - (p - 1)) = i + 1 /\ ~ (i <= p - 1)
          /\ i \in 1..((p - 1) + (n - p))
      BY <2>1, <2>3
    <3> QED
      BY <1>4, <1>5, <2>3, <3>1 DEF n
  <2> QED
    BY <2>2, <2>3
<1>7. n \in Nat /\ p \in 1..n /\ (p - 1) + (n - p) = n - 1
  BY <1>2 DEF n
<1> QED
  BY <1>1, <1>5, <1>6, <1>7 DEF n

LEMMA InsertAtProperties ==
    ASSUME NEW S, NEW s \in Seq(S), NEW p \in 1..(Len(s) + 1), NEW e \in S
    PROVE  /\ InsertAt(s, p, e) \in Seq(S)
           /\ Len(InsertAt(s, p, e)) = Len(s) + 1
           /\ \A i \in 1..(Len(s) + 1) :
                 InsertAt(s, p, e)[i] = IF i < p THEN s[i] ELSE IF i = p THEN e ELSE s[i - 1]
<1> DEFINE n == Len(s)
           front == SubSeq(s, 1, p - 1)
           back == SubSeq(s, p, Len(s))
           most == front \o <<e>>
<1>1. InsertAt(s, p, e) = most \o back
  BY DEF InsertAt
<1>2. n \in Nat /\ p \in 1..(n + 1)
  OBVIOUS
<1>3. front \in Seq(S) /\ Len(front) = p - 1 /\ \A i \in 1..(p - 1) : front[i] = s[i]
  OBVIOUS
<1>4. back \in Seq(S) /\ Len(back) = n + 1 - p /\ \A i \in 1..(n + 1 - p) : back[i] = s[p + i - 1]
  OBVIOUS
<1>5. <<e>> \in Seq(S) /\ Len(<<e>>) = 1 /\ <<e>>[1] = e
  OBVIOUS
<1> HIDE DEF front, back, n
<1>6. /\ most \in Seq(S) /\ Len(most) = p
      /\ \A i \in 1..p : most[i] = IF i < p THEN s[i] ELSE e
  <2>1. /\ most \in Seq(S) /\ Len(most) = (p - 1) + 1
        /\ \A i \in 1..((p - 1) + 1) : most[i] = IF i <= p - 1 THEN front[i] ELSE <<e>>[i - (p - 1)]
    BY <1>3, <1>5, ConcatProperties
  <2>2. (p - 1) + 1 = p /\ \A i \in 1..p : (i <= p - 1 <=> i < p) /\ (i < p => i \in 1..(p - 1))
                                            /\ (~ (i < p) => i - (p - 1) = 1)
    BY <1>2
  <2> HIDE DEF most
  <2> QED
    BY <1>3, <1>5, <2>1, <2>2
<1> HIDE DEF most
<1>7. /\ most \o back \in Seq(S) /\ Len(most \o back) = p + (n + 1 - p)
      /\ \A i \in 1..(p + (n + 1 - p)) : (most \o back)[i] = IF i <= p THEN most[i] ELSE back[i - p]
  <2>1. /\ most \o back \in Seq(S) /\ Len(most \o back) = Len(most) + Len(back)
        /\ \A i \in 1..(Len(most) + Len(back)) :
              (most \o back)[i] = IF i <= Len(most) THEN most[i] ELSE back[i - Len(most)]
    BY <1>4, <1>6, ConcatProperties, Zenon
  <2>2. Len(most) = p /\ Len(back) = n + 1 - p
    BY <1>4, <1>6
  <2> QED
    BY <2>1, <2>2, Zenon
<1>8. p + (n + 1 - p) = n + 1
  BY <1>2
<1>9. ASSUME NEW i \in 1..(n + 1)
      PROVE  (most \o back)[i] = IF i < p THEN s[i] ELSE IF i = p THEN e ELSE s[i - 1]
  <2>1. CASE i <= p
    BY <1>2, <1>6, <1>7, <1>8, <2>1
  <2>2. CASE ~ (i <= p)
    <3>1. i - p \in 1..(n + 1 - p) /\ p + (i - p) - 1 = i - 1 /\ ~ (i < p) /\ i # p
      BY <1>2, <2>2
    <3> QED
      BY <1>4, <1>7, <1>8, <2>2, <3>1
  <2> QED
    BY <2>1, <2>2
<1> QED
  BY <1>1, <1>7, <1>8, <1>9 DEF n

LEMMA FrontProperties ==
    ASSUME NEW S, NEW s \in Seq(S), s # <<>>
    PROVE  /\ Len(s) \in Nat /\ Len(s) >= 1
           /\ Front(s) \in Seq(S)
           /\ Len(Front(s)) = Len(s) - 1
           /\ \A i \in 1..(Len(s) - 1) : Front(s)[i] = s[i]
           /\ Last(s) = s[Len(s)] /\ Last(s) \in S
<1>1. Len(s) \in Nat /\ Len(s) >= 1
  OBVIOUS
<1>2. SubSeq(s, 1, Len(s) - 1) \in Seq(S)
  OBVIOUS
<1>3. Len(SubSeq(s, 1, Len(s) - 1)) = Len(s) - 1
  BY <1>1, SMTT(30)
<1>4. \A i \in 1..(Len(s) - 1) : SubSeq(s, 1, Len(s) - 1)[i] = s[i]
  BY <1>1
<1> QED
  BY <1>1, <1>2, <1>3, <1>4 DEF Front, Last

LEMMA PrependProperties ==
    ASSUME NEW S, NEW s \in Seq(S), NEW e \in S
    PROVE  /\ <<e>> \o s \in Seq(S)
           /\ Len(<<e>> \o s) = Len(s) + 1
           /\ \A i \in 1..(Len(s) + 1) : (<<e>> \o s)[i] = IF i = 1 THEN e ELSE s[i - 1]
<1>1. <<e>> \in Seq(S) /\ Len(<<e>>) = 1 /\ <<e>>[1] = e /\ Len(s) \in Nat
  OBVIOUS
<1>2. /\ <<e>> \o s \in Seq(S) /\ Len(<<e>> \o s) = 1 + Len(s)
      /\ \A i \in 1..(1 + Len(s)) : (<<e>> \o s)[i] = IF i <= 1 THEN <<e>>[i] ELSE s[i - 1]
  BY <1>1, ConcatProperties
<1>3. \A i \in 1..(Len(s) + 1) : i <= 1 <=> i = 1
  BY <1>1
<1> QED
  BY <1>1, <1>2, <1>3

LEMMA DistinctRemoveAt ==
    ASSUME NEW S, NEW s \in Seq(S), NEW p \in 1..Len(s), Distinct(s)
    PROVE  Distinct(RemoveAt(s, p))
<1>1. /\ RemoveAt(s, p) \in Seq(S) /\ Len(RemoveAt(s, p)) = Len(s) - 1
      /\ \A i \in 1..(Len(s) - 1) : RemoveAt(s, p)[i] = s[IF i < p THEN i ELSE i + 1]
  BY RemoveAtProperties
<1>2. \A i \in 1..(Len(s) - 1) : (IF i < p THEN i ELSE i + 1) \in 1..Len(s)
  OBVIOUS
<1> QED
  BY <1>1, <1>2, SMTT(30) DEF Distinct

LEMMA DistinctInsertAt ==
    ASSUME NEW S, NEW s \in Seq(S), NEW p \in 1..(Len(s) + 1), NEW e \in S, Distinct(s),
           \A i \in 1..Len(s) : s[i] # e
    PROVE  Distinct(InsertAt(s, p, e))
<1>1. /\ Len(InsertAt(s, p, e)) = Len(s) + 1
      /\ \A i \in 1..(Len(s) + 1) :
            InsertAt(s, p, e)[i] = IF i < p THEN s[i] ELSE IF i = p THEN e ELSE s[i - 1]
  BY InsertAtProperties, SMTT(30)
<1>2. ASSUME NEW i \in 1..(Len(s) + 1), NEW j \in 1..(Len(s) + 1), InsertAt(s, p, e)[i] = InsertAt(s, p, e)[j]
      PROVE  i = j
  <2>1. \A k \in 1..(Len(s) + 1) : /\ k < p => k \in 1..Len(s)
                                   /\ k > p => k - 1 \in 1..Len(s)
    OBVIOUS
  <2>2. CASE i = p
    BY <1>1, <1>2, <2>1, <2>2
  <2>3. CASE j = p
    BY <1>1, <1>2, <2>1, <2>3
  <2>4. CASE i # p /\ j # p
    BY <1>1, <1>2, <2>1, <2>4 DEF Distinct
  <2> QED
    BY <2>2, <2>3, <2>4
<1> QED
  BY <1>1, <1>2 DEF Distinct

LEMMA DistinctConcat ==
    ASSUME NEW S, NEW s \in Seq(S), NEW t \in Seq(S), Distinct(s), Distinct(t),
           \A i \in 1..Len(s), j \in 1..Len(t) : s[i] # t[j]
    PROVE  Distinct(s \o t)
<1>1. /\ Len(s \o t) = Len(s) + Len(t)
      /\ \A i \in 1..(Len(s) + Len(t)) : (s \o t)[i] = IF i <= Len(s) THEN s[i] ELSE t[i - Len(s)]
  BY ConcatProperties
<1>2. Len(s) \in Nat /\ Len(t) \in Nat
  OBVIOUS
<1>3. ASSUME NEW i \in 1..(Len(s) + Len(t)), NEW j \in 1..(Len(s) + Len(t)), (s \o t)[i] = (s \o t)[j]
      PROVE  i = j
  <2>1. \A k \in 1..(Len(s) + Len(t)) : /\ k <= Len(s) => k \in 1..Len(s)
                                        /\ k > Len(s) => k - Len(s) \in 1..Len(t)
    BY <1>2
  <2> QED
    BY <1>1, <1>2, <1>3, <2>1 DEF Distinct
<1> QED
  BY <1>1, <1>3 DEF Distinct

LEMMA DistinctPart ==
    ASSUME NEW S, NEW s \in Seq(S), NEW m \in 1..(Len(s) + 1), NEW n \in (m - 1)..Len(s), Distinct(s)
    PROVE  Distinct(SubSeq(s, m, n))
<1>1. Len(SubSeq(s, m, n)) = n + 1 - m /\ \A i \in 1..(n + 1 - m) : SubSeq(s, m, n)[i] = s[m + i - 1]
  OBVIOUS
<1>2. Len(s) \in Nat /\ m \in Nat /\ n \in Int /\ m >= 1 /\ n <= Len(s)
  OBVIOUS
<1>3. ASSUME NEW i \in 1..(n + 1 - m), NEW j \in 1..(n + 1 - m), SubSeq(s, m, n)[i] = SubSeq(s, m, n)[j]
      PROVE  i = j
  <2>1. m + i - 1 \in 1..Len(s) /\ m + j - 1 \in 1..Len(s)
    BY <1>2
  <2>2. s[m + i - 1] = s[m + j - 1]
    BY <1>1, <1>3
  <2>3. m + i - 1 = m + j - 1
    BY <2>1, <2>2 DEF Distinct
  <2> QED
    BY <1>2, <2>3
<1> QED
  BY <1>1, <1>3 DEF Distinct

LEMMA MinProperties ==
    ASSUME NEW S \in SUBSET Nat, S # {}
    PROVE  Min(S) \in S /\ \A y \in S : Min(S) <= y
BY LeastElement DEF Min

LEMMA RemoveFirstType ==
    ASSUME NEW S, NEW s \in Seq(S), NEW e
    PROVE  RemoveFirst(s, e) \in Seq(S)
<1>1. CASE \E i \in 1..Len(s) : s[i] = e
  <2> DEFINE I == {i \in 1..Len(s) : s[i] = e}
  <2>1. RemoveFirst(s, e) = RemoveAt(s, IF I # {} THEN Min(I) ELSE 0)
    BY <1>1 DEF RemoveFirst, SelectInSeq
  <2>2. I # {} /\ I \in SUBSET Nat /\ I \subseteq 1..Len(s)
    BY <1>1
  <2>3. Min(I) \in I
    BY <2>2, MinProperties
  <2> HIDE DEF I
  <2>4. Min(I) \in 1..Len(s)
    BY <2>2, <2>3
  <2> QED
    BY <2>1, <2>2, <2>4, RemoveAtProperties
<1>2. CASE ~ \E i \in 1..Len(s) : s[i] = e
  BY <1>2 DEF RemoveFirst
<1> QED
  BY <1>1, <1>2
-----------------------------------------------------------------------------
(* Nodes: what a search finds in one, and what the operations on nodes     *)
(* make of them.                                                           *)

\* A node as the code leaves it: below Degree keys, a list of record ids for
\* each key of a leaf, one more child than keys in an internal node.
Good(node) ==
    /\ node \in Node
    /\ Len(node.keys) < Degree
    /\ IF node.leaf THEN Len(node.rids) = Len(node.keys) /\ node.children = <<>>
       ELSE Len(node.children) = Len(node.keys) + 1

LEMMA KeyType == Key \subseteq Int /\ Rid \subseteq Nat
BY SizesAssumption DEF Key, Rid

LEMMA PositionProperties ==
    ASSUME NEW node, node.keys \in Seq(Int), NEW key \in Int
    PROVE  /\ Position(node, key) \in 1..(Len(node.keys) + 1)
           /\ \A i \in 1..Len(node.keys) : i < Position(node, key) => node.keys[i] < key
           /\ Position(node, key) <= Len(node.keys) => node.keys[Position(node, key)] >= key
<1> DEFINE S == {i \in 1..Len(node.keys) : node.keys[i] >= key} \cup {Len(node.keys) + 1}
<1>1. Len(node.keys) \in Nat /\ \A i \in 1..Len(node.keys) : node.keys[i] \in Int
  OBVIOUS
<1>2. S \in SUBSET Nat /\ S # {} /\ S \subseteq 1..(Len(node.keys) + 1) /\ Len(node.keys) + 1 \in S
  BY <1>1
<1>3. Position(node, key) \in S /\ \A y \in S : Position(node, key) <= y
  BY <1>2, MinProperties DEF Position
<1>4. ASSUME NEW i \in 1..Len(node.keys), i < Position(node, key) PROVE node.keys[i] < key
  <2>1. i \notin S /\ node.keys[i] \in Int
    BY <1>1, <1>2, <1>3, <1>4
  <2> QED
    BY <2>1
<1> QED
  BY <1>1, <1>2, <1>3, <1>4

LEMMA ChildIndexProperties ==
    ASSUME NEW node, node.keys \in Seq(Int), NEW key \in Int
    PROVE  /\ ChildIndex(node, key) \in 1..(Len(node.keys) + 1)
           /\ \A i \in 1..Len(node.keys) : i < ChildIndex(node, key) => node.keys[i] <= key
           /\ ChildIndex(node, key) <= Len(node.keys) => node.keys[ChildIndex(node, key)] > key
<1> DEFINE S == {i \in 1..Len(node.keys) : node.keys[i] > key} \cup {Len(node.keys) + 1}
<1>1. Len(node.keys) \in Nat /\ \A i \in 1..Len(node.keys) : node.keys[i] \in Int
  OBVIOUS
<1>2. S \in SUBSET Nat /\ S # {} /\ S \subseteq 1..(Len(node.keys) + 1) /\ Len(node.keys) + 1 \in S
  BY <1>1
<1>3. ChildIndex(node, key) \in S /\ \A y \in S : ChildIndex(node, key) <= y
  BY <1>2, MinProperties DEF ChildIndex
<1>4. ASSUME NEW i \in 1..Len(node.keys), i < ChildIndex(node, key) PROVE node.keys[i] <= key
  <2>1. i \notin S /\ node.keys[i] \in Int
    BY <1>1, <1>2, <1>3, <1>4
  <2> QED
    BY <2>1
<1> QED
  BY <1>1, <1>2, <1>3, <1>4

\* The parts of a node have their types.
LEMMA NodeParts ==
    ASSUME NEW node \in Node
    PROVE  /\ node.leaf \in BOOLEAN
           /\ node.keys \in Seq(Key) /\ node.keys \in Seq(Int) /\ Len(node.keys) \in Nat
           /\ node.rids \in Seq(Seq(Rid)) /\ Len(node.rids) \in Nat
           /\ node.children \in Seq(Pid) /\ Len(node.children) \in Nat
           /\ node.next \in Pid \cup {None}
<1>1. node.leaf \in BOOLEAN /\ node.keys \in Seq(Key) /\ node.rids \in Seq(Seq(Rid))
      /\ node.children \in Seq(Pid) /\ node.next \in Pid \cup {None}
  BY DEF Node, Pid
<1>2. node.keys \in Seq(Int)
  BY <1>1, KeyType, SeqMonotonic
<1> QED
  BY <1>1, <1>2

LEMMA NodeUpdated ==
    ASSUME NEW node \in Node, NEW keys \in Seq(Key), NEW rids \in Seq(Seq(Rid)), NEW children \in Seq(Pid)
    PROVE  /\ [node EXCEPT !.keys = keys] \in Node
           /\ [node EXCEPT !.rids = rids] \in Node
           /\ [node EXCEPT !.keys = keys, !.rids = rids] \in Node
           /\ [node EXCEPT !.keys = keys, !.children = children] \in Node
BY DEF Node, Pid

LEMMA DegreeHalves ==
    /\ Degree \in Nat /\ Degree >= 3
    /\ Degree \div 2 \in Nat /\ Degree \div 2 >= 1 /\ 2 * (Degree \div 2) <= Degree
    /\ (Degree + 1) \div 2 \in Nat /\ (Degree + 1) \div 2 >= 2
    /\ (Degree \div 2) + ((Degree + 1) \div 2) = Degree
    /\ (Degree + 1) \div 2 - 1 <= Degree \div 2
    /\ Degree \div 2 <= (Degree + 1) \div 2
BY SizesAssumption

LEMMA MinKeysType ==
    ASSUME NEW node \in Node
    PROVE  MinKeys(node) \in Nat /\ MinKeys(node) >= 1 /\ MinKeys(node) < Degree
BY DegreeHalves DEF MinKeys

\* An entry in a leaf adds at most a key.
LEMMA WithEntryNode ==
    ASSUME NEW leaf, Good(leaf), leaf.leaf, NEW key \in Key, NEW rid \in Rid
    PROVE  /\ WithEntry(leaf, key, rid) \in Node
           /\ WithEntry(leaf, key, rid).leaf
           /\ WithEntry(leaf, key, rid).children = <<>>
           /\ WithEntry(leaf, key, rid).next = leaf.next
           /\ Len(WithEntry(leaf, key, rid).rids) = Len(WithEntry(leaf, key, rid).keys)
           /\ Len(WithEntry(leaf, key, rid).keys) \in {Len(leaf.keys), Len(leaf.keys) + 1}
<1> DEFINE i == Position(leaf, key)
<1>1. leaf \in Node /\ Len(leaf.rids) = Len(leaf.keys) /\ leaf.children = <<>>
  BY DEF Good
<1>2. leaf.keys \in Seq(Key) /\ leaf.keys \in Seq(Int) /\ leaf.rids \in Seq(Seq(Rid)) /\ Len(leaf.keys) \in Nat
  BY <1>1, NodeParts
<1>3. i \in 1..(Len(leaf.keys) + 1) /\ (i <= Len(leaf.keys) => leaf.keys[i] >= key)
      /\ \A j \in 1..Len(leaf.keys) : j < i => leaf.keys[j] < key
  BY <1>2, KeyType, PositionProperties
<1>4. CASE HasKey(leaf, key)
  <2>1. i \in 1..Len(leaf.keys)
    <3>1. PICK j \in 1..Len(leaf.keys) : leaf.keys[j] = key
      BY <1>4 DEF HasKey
    <3> QED
      BY <1>2, <1>3, <3>1, KeyType, SMTT(30)
  <2>2. leaf.rids[i] \in Seq(Rid)
    BY <1>1, <1>2, <2>1
  <2> DEFINE rids == [leaf.rids EXCEPT ![i] = Append(@, rid)]
  <2>3. rids \in Seq(Seq(Rid)) /\ Len(rids) = Len(leaf.rids)
    BY <1>1, <1>2, <2>1, <2>2
  <2>4. WithEntry(leaf, key, rid) = [leaf EXCEPT !.rids = rids]
    BY <1>4 DEF WithEntry
  <2> HIDE DEF rids, i
  <2>5. [leaf EXCEPT !.rids = rids] \in Node
    BY <1>1, <1>2, <2>3, NodeUpdated, NodeParts
  <2> QED
    BY <1>1, <2>3, <2>4, <2>5 DEF Node
<1>5. CASE ~ HasKey(leaf, key)
  <2> DEFINE keys == InsertAt(leaf.keys, i, key)
             list == <<rid>>
             rids == InsertAt(leaf.rids, i, list)
  <2>1. list \in Seq(Rid)
    OBVIOUS
  <2>2. keys \in Seq(Key) /\ Len(keys) = Len(leaf.keys) + 1
    BY <1>2, <1>3, InsertAtProperties, SMTT(30)
  <2>3. rids \in Seq(Seq(Rid)) /\ Len(rids) = Len(leaf.rids) + 1
    <3>1. i \in 1..(Len(leaf.rids) + 1) /\ leaf.rids \in Seq(Seq(Rid))
      BY <1>1, <1>2, <1>3
    <3> HIDE DEF i, list
    <3> QED
      BY <2>1, <3>1, InsertAtProperties
  <2>4. WithEntry(leaf, key, rid) = [leaf EXCEPT !.keys = keys, !.rids = rids]
    BY <1>5 DEF WithEntry
  <2> HIDE DEF keys, rids, i
  <2>5. [leaf EXCEPT !.keys = keys, !.rids = rids] \in Node
    BY <1>1, <1>2, <2>2, <2>3, NodeUpdated, NodeParts
  <2> QED
    BY <1>1, <2>2, <2>3, <2>4, <2>5 DEF Node
<1> QED
  BY <1>4, <1>5

\* Without an entry a leaf has at most one key less.
LEMMA WithoutEntryNode ==
    ASSUME NEW leaf, Good(leaf), leaf.leaf, NEW key \in Key, HasKey(leaf, key), NEW rid
    PROVE  /\ Good(WithoutEntry(leaf, key, rid))
           /\ WithoutEntry(leaf, key, rid).leaf
           /\ WithoutEntry(leaf, key, rid).next = leaf.next
           /\ Len(WithoutEntry(leaf, key, rid).keys) + 1 >= Len(leaf.keys)
<1> DEFINE i == Position(leaf, key)
<1>1. leaf \in Node /\ Len(leaf.rids) = Len(leaf.keys) /\ leaf.children = <<>> /\ Len(leaf.keys) < Degree
  BY DEF Good
<1>2. leaf.keys \in Seq(Key) /\ leaf.keys \in Seq(Int) /\ leaf.rids \in Seq(Seq(Rid)) /\ Len(leaf.keys) \in Nat
      /\ Degree \in Nat
  BY <1>1, NodeParts, SizesAssumption
<1>3. i \in 1..(Len(leaf.keys) + 1) /\ (i <= Len(leaf.keys) => leaf.keys[i] >= key)
      /\ \A j \in 1..Len(leaf.keys) : j < i => leaf.keys[j] < key
  BY <1>2, KeyType, PositionProperties
<1>4. i \in 1..Len(leaf.keys) /\ i \in 1..Len(leaf.rids)
  <2>1. PICK j \in 1..Len(leaf.keys) : leaf.keys[j] = key
    BY DEF HasKey
  <2>2. leaf.keys[j] \in Int /\ ~ (leaf.keys[j] < key)
    BY <1>2, <2>1
  <2>3. ~ (j < i)
    BY <1>3, <2>1, <2>2
  <2>4. i \in 1..Len(leaf.keys)
    BY <1>2, <1>3, <2>1, <2>3
  <2> QED
    BY <1>1, <2>4
<1>5. leaf.rids[i] \in Seq(Rid)
  BY <1>2, <1>4
<1>6. CASE leaf.rids[i] = <<rid>>
  <2> DEFINE keys == RemoveAt(leaf.keys, i)
             rids == RemoveAt(leaf.rids, i)
  <2>1. WithoutEntry(leaf, key, rid) = [leaf EXCEPT !.keys = keys, !.rids = rids]
    BY <1>6 DEF WithoutEntry
  <2> HIDE DEF i
  <2>2. keys \in Seq(Key) /\ Len(keys) = Len(leaf.keys) - 1
    BY <1>2, <1>4, RemoveAtProperties
  <2>3. rids \in Seq(Seq(Rid)) /\ Len(rids) = Len(leaf.rids) - 1
    BY <1>2, <1>4, RemoveAtProperties, ZenonT(30)
  <2> HIDE DEF keys, rids
  <2>4. [leaf EXCEPT !.keys = keys, !.rids = rids] \in Node
    BY <1>1, <1>2, <2>2, <2>3, NodeUpdated, NodeParts
  <2>5. Len(keys) < Degree /\ Len(keys) + 1 >= Len(leaf.keys) /\ Len(rids) = Len(keys)
    BY <1>1, <1>2, <2>2, <2>3
  <2> QED
    BY <1>1, <2>1, <2>4, <2>5 DEF Node, Good
<1>7. CASE leaf.rids[i] # <<rid>>
  <2> DEFINE list == RemoveFirst(leaf.rids[i], rid)
             rids == [leaf.rids EXCEPT ![i] = list]
  <2>1. WithoutEntry(leaf, key, rid) = [leaf EXCEPT !.rids = rids]
    BY <1>7 DEF WithoutEntry
  <2> HIDE DEF i
  <2>2. list \in Seq(Rid)
    BY <1>5, RemoveFirstType
  <2> HIDE DEF list
  <2>3. rids \in Seq(Seq(Rid)) /\ Len(rids) = Len(leaf.rids)
    BY <1>2, <1>4, <2>2, ExceptSeq
  <2> HIDE DEF rids
  <2>4. [leaf EXCEPT !.rids = rids] \in Node
    BY <1>1, <1>2, <2>3, NodeUpdated, NodeParts
  <2> QED
    BY <1>1, <1>2, <2>1, <2>3, <2>4 DEF Node, Good
<1> QED
  BY <1>6, <1>7

\* An internal node with one more child, and the key that separates it.
LEMMA WithChildNode ==
    ASSUME NEW node, Good(node), ~ node.leaf, NEW i \in 1..Len(node.children), NEW key \in Key,
           NEW child \in Pid
    PROVE  /\ WithChild(node, i, key, child) \in Node
           /\ ~ WithChild(node, i, key, child).leaf
           /\ WithChild(node, i, key, child).keys = InsertAt(node.keys, i, key)
           /\ WithChild(node, i, key, child).children = InsertAt(node.children, i + 1, child)
           /\ Len(WithChild(node, i, key, child).keys) = Len(node.keys) + 1
           /\ Len(WithChild(node, i, key, child).children) = Len(node.children) + 1
<1>1. node \in Node /\ Len(node.children) = Len(node.keys) + 1
  BY DEF Good
<1>2. node.keys \in Seq(Key) /\ node.children \in Seq(Pid) /\ node.rids \in Seq(Seq(Rid)) /\ Len(node.keys) \in Nat
  BY <1>1, NodeParts
<1> DEFINE keys == InsertAt(node.keys, i, key)
           children == InsertAt(node.children, i + 1, child)
<1>3. keys \in Seq(Key) /\ Len(keys) = Len(node.keys) + 1
  BY <1>1, <1>2, InsertAtProperties
<1>4. children \in Seq(Pid) /\ Len(children) = Len(node.children) + 1
  <2> DEFINE j == i + 1
  <2>1. j \in 1..(Len(node.children) + 1)
    BY <1>1, <1>2
  <2> HIDE DEF j
  <2>2. InsertAt(node.children, j, child) \in Seq(Pid)
        /\ Len(InsertAt(node.children, j, child)) = Len(node.children) + 1
    BY <1>2, <2>1, InsertAtProperties
  <2> QED
    BY <2>2 DEF j
<1>5. WithChild(node, i, key, child) = [node EXCEPT !.keys = keys, !.children = children]
  BY DEF WithChild
<1> HIDE DEF keys, children
<1>6. [node EXCEPT !.keys = keys, !.children = children] \in Node
  BY <1>1, <1>2, <1>3, <1>4, NodeUpdated
<1> QED
  BY <1>1, <1>3, <1>4, <1>5, <1>6 DEF Node, keys, children

\* A leaf with Degree keys splits into two that keep enough of them.
LEMMA SplitLeaf ==
    ASSUME NEW node \in Node, node.leaf, Len(node.keys) = Degree, Len(node.rids) = Degree, NEW new \in Pid
    PROVE  /\ Good(Split(node, new).left) /\ Split(node, new).left.leaf
           /\ Good(Split(node, new).right) /\ Split(node, new).right.leaf
           /\ Len(Split(node, new).left.keys) >= MinKeys(Split(node, new).left)
           /\ Len(Split(node, new).right.keys) >= MinKeys(Split(node, new).right)
           /\ Split(node, new).up \in Key
<1> DEFINE mid == Degree \div 2
           k1 == SubSeq(node.keys, 1, mid)
           r1 == SubSeq(node.rids, 1, mid)
           k2 == SubSeq(node.keys, mid + 1, Degree)
           r2 == SubSeq(node.rids, mid + 1, Degree)
<1>1. mid \in Nat /\ mid >= 1 /\ 2 * mid <= Degree /\ Degree \in Nat /\ Degree >= 3
  BY DegreeHalves
<1>2. node.keys \in Seq(Key) /\ node.rids \in Seq(Seq(Rid)) /\ node.next \in Pid \cup {None}
  BY NodeParts
<1>3. /\ Split(node, new).left = Leaf(k1, r1, new)
      /\ Split(node, new).right = Leaf(k2, r2, node.next)
      /\ Split(node, new).up = node.keys[mid + 1]
  BY DEF Split
<1> HIDE DEF mid
<1>4. k1 \in Seq(Key) /\ Len(k1) = mid /\ r1 \in Seq(Seq(Rid)) /\ Len(r1) = mid
  BY <1>1, <1>2
<1>5. k2 \in Seq(Key) /\ Len(k2) = Degree - mid /\ r2 \in Seq(Seq(Rid)) /\ Len(r2) = Degree - mid
  BY <1>1, <1>2
<1>6. node.keys[mid + 1] \in Key
  BY <1>1, <1>2
<1> HIDE DEF k1, k2, r1, r2
<1>7. <<>> \in Seq(Pid)
  OBVIOUS
<1>8. ASSUME NEW keys \in Seq(Key), NEW rids \in Seq(Seq(Rid)), NEW next \in Pid \cup {None},
             Len(keys) = Len(rids), Len(keys) < Degree, Len(keys) >= mid
      PROVE  Good(Leaf(keys, rids, next)) /\ Leaf(keys, rids, next).leaf
             /\ Len(Leaf(keys, rids, next).keys) >= MinKeys(Leaf(keys, rids, next))
  BY <1>7, <1>8 DEF Good, Leaf, Node, Pid, MinKeys, mid
<1>9. Degree - mid < Degree /\ Degree - mid >= mid /\ mid < Degree
  BY <1>1
<1>10. /\ Good(Leaf(k1, r1, new)) /\ Leaf(k1, r1, new).leaf
       /\ Len(Leaf(k1, r1, new).keys) >= MinKeys(Leaf(k1, r1, new))
  <2>1. Len(k1) = Len(r1) /\ Len(k1) < Degree /\ Len(k1) >= mid /\ new \in Pid \cup {None}
    BY <1>1, <1>4, <1>9
  <2> QED
    BY <1>4, <1>8, <2>1
<1>11. /\ Good(Leaf(k2, r2, node.next)) /\ Leaf(k2, r2, node.next).leaf
       /\ Len(Leaf(k2, r2, node.next).keys) >= MinKeys(Leaf(k2, r2, node.next))
  <2>1. Len(k2) = Len(r2) /\ Len(k2) < Degree /\ Len(k2) >= mid
    BY <1>1, <1>5, <1>9
  <2> QED
    BY <1>2, <1>5, <1>8, <2>1
<1> QED
  BY <1>3, <1>6, <1>10, <1>11

\* An internal node with Degree keys splits into two with one key less.
LEMMA SplitInternal ==
    ASSUME NEW node \in Node, ~ node.leaf, Len(node.keys) = Degree, Len(node.children) = Degree + 1, NEW new \in Pid
    PROVE  LET mid == Degree \div 2
               left == Split(node, new).left
               right == Split(node, new).right
           IN  /\ Good(left) /\ ~ left.leaf /\ left.children = SubSeq(node.children, 1, mid + 1)
               /\ Good(right) /\ ~ right.leaf /\ right.children = SubSeq(node.children, mid + 2, Degree + 1)
               /\ Len(left.keys) >= MinKeys(left)
               /\ Len(right.keys) >= MinKeys(right)
               /\ Split(node, new).up \in Key
<1> DEFINE mid == Degree \div 2
           k1 == SubSeq(node.keys, 1, mid)
           c1 == SubSeq(node.children, 1, mid + 1)
           k2 == SubSeq(node.keys, mid + 2, Degree)
           c2 == SubSeq(node.children, mid + 2, Degree + 1)
<1>1. mid \in Nat /\ mid >= 1 /\ 2 * mid <= Degree /\ Degree \in Nat /\ Degree >= 3
      /\ Degree - mid = (Degree + 1) \div 2 /\ (Degree + 1) \div 2 - 1 <= mid
  BY DegreeHalves
<1>2. node.keys \in Seq(Key) /\ node.children \in Seq(Pid)
  BY NodeParts
<1>3. /\ Split(node, new).left = Internal(k1, c1)
      /\ Split(node, new).right = Internal(k2, c2)
      /\ Split(node, new).up = node.keys[mid + 1]
  BY DEF Split
<1> HIDE DEF mid
<1>4. k1 \in Seq(Key) /\ Len(k1) = mid /\ c1 \in Seq(Pid) /\ Len(c1) = mid + 1
  BY <1>1, <1>2
<1>5. k2 \in Seq(Key) /\ Len(k2) = Degree - (mid + 1) /\ c2 \in Seq(Pid) /\ Len(c2) = Degree + 1 - (mid + 1)
  BY <1>1, <1>2
<1>6. node.keys[mid + 1] \in Key
  <2>1. mid + 1 \in 1..Len(node.keys)
    BY <1>1
  <2> QED
    BY <1>2, <2>1, ElementOfSeq
<1> HIDE DEF k1, k2, c1, c2
<1>7. <<>> \in Seq(Seq(Rid))
  OBVIOUS
<1>8. ASSUME NEW keys \in Seq(Key), NEW children \in Seq(Pid),
             Len(children) = Len(keys) + 1, Len(keys) < Degree, Len(keys) >= (Degree + 1) \div 2 - 1
      PROVE  Good(Internal(keys, children)) /\ ~ Internal(keys, children).leaf
             /\ Len(Internal(keys, children).keys) >= MinKeys(Internal(keys, children))
  BY <1>7, <1>8 DEF Good, Internal, Node, Pid, MinKeys, None
<1>9. /\ Degree - (mid + 1) < Degree /\ mid < Degree
      /\ Degree - (mid + 1) = (Degree + 1) \div 2 - 1
      /\ Degree + 1 - (mid + 1) = Degree - (mid + 1) + 1
  BY <1>1
<1>10. /\ Good(Internal(k1, c1)) /\ ~ Internal(k1, c1).leaf
       /\ Len(Internal(k1, c1).keys) >= MinKeys(Internal(k1, c1))
  BY <1>1, <1>4, <1>8, <1>9
<1>11. /\ Good(Internal(k2, c2)) /\ ~ Internal(k2, c2).leaf
       /\ Len(Internal(k2, c2).keys) >= MinKeys(Internal(k2, c2))
  <2>1. Len(c2) = Len(k2) + 1 /\ Len(k2) < Degree /\ Len(k2) >= (Degree + 1) \div 2 - 1
    BY <1>1, <1>5, <1>9
  <2> QED
    BY <1>5, <1>8, <2>1
<1>12. Internal(k1, c1).children = c1 /\ Internal(k2, c2).children = c2
  BY DEF Internal
<1> QED
  BY <1>3, <1>6, <1>10, <1>11, <1>12 DEF c1, c2, mid

LEMMA AppendOne ==
    ASSUME NEW S, NEW s \in Seq(S), NEW e \in S
    PROVE  /\ Append(s, e) \in Seq(S) /\ Len(Append(s, e)) = Len(s) + 1 /\ Len(s) \in Nat
           /\ \A i \in 1..(Len(s) + 1) : Append(s, e)[i] = IF i <= Len(s) THEN s[i] ELSE e
<1>1. Len(s) \in Nat
  OBVIOUS
<1>2. /\ Append(s, e) \in Seq(S) /\ Len(Append(s, e)) = Len(s) + 1
      /\ \A i \in 1..Len(s) : Append(s, e)[i] = s[i]
      /\ Append(s, e)[Len(s) + 1] = e
  BY AppendProperties
<1>3. \A i \in 1..(Len(s) + 1) : /\ i <= Len(s) => i \in 1..Len(s)
                                 /\ ~ (i <= Len(s)) => i = Len(s) + 1
  BY <1>1
<1> QED
  BY <1>1, <1>2, <1>3

LEMMA TailProperties ==
    ASSUME NEW S, NEW s \in Seq(S), s # <<>>
    PROVE  /\ Tail(s) \in Seq(S) /\ Len(Tail(s)) = Len(s) - 1 /\ Len(s) \in Nat /\ Len(s) >= 1
           /\ \A i \in 1..(Len(s) - 1) : Tail(s)[i] = s[i + 1]
           /\ s[1] \in S
OBVIOUS

\* A leaf lends its last entry to the leaf on its right.
LEMMA FromLeftLeaf ==
    ASSUME NEW l, NEW r, Good(l), Good(r), l.leaf, r.leaf, NEW sep,
           Len(l.keys) >= 1, Len(r.keys) + 1 < Degree
    PROVE  LET b == FromLeft(l, r, sep)
           IN  /\ Good(b.left) /\ b.left.leaf /\ Len(b.left.keys) = Len(l.keys) - 1
               /\ Good(b.right) /\ b.right.leaf /\ Len(b.right.keys) = Len(r.keys) + 1
               /\ b.left.next = l.next /\ b.right.next = r.next
               /\ b.sep \in Key
<1>1. /\ l \in Node /\ Len(l.rids) = Len(l.keys) /\ l.children = <<>> /\ Len(l.keys) < Degree
      /\ r \in Node /\ Len(r.rids) = Len(r.keys) /\ r.children = <<>>
  BY DEF Good
<1>2. /\ l.keys \in Seq(Key) /\ l.rids \in Seq(Seq(Rid)) /\ Len(l.keys) \in Nat
      /\ r.keys \in Seq(Key) /\ r.rids \in Seq(Seq(Rid)) /\ Len(r.keys) \in Nat /\ Degree \in Nat
  BY <1>1, NodeParts, SizesAssumption
<1> DEFINE k1 == Front(l.keys)
           r1 == Front(l.rids)
           k2 == <<Last(l.keys)>> \o r.keys
           r2 == <<Last(l.rids)>> \o r.rids
<1>3. l.keys # <<>> /\ l.rids # <<>>
  BY <1>1, <1>2
<1>4. k1 \in Seq(Key) /\ Len(k1) = Len(l.keys) - 1 /\ Last(l.keys) \in Key
  BY <1>2, <1>3, FrontProperties
<1>5. r1 \in Seq(Seq(Rid)) /\ Len(r1) = Len(l.rids) - 1 /\ Last(l.rids) \in Seq(Rid)
  BY <1>2, <1>3, FrontProperties
<1>6. k2 \in Seq(Key) /\ Len(k2) = Len(r.keys) + 1
  BY <1>2, <1>4, PrependProperties
<1>7. r2 \in Seq(Seq(Rid)) /\ Len(r2) = Len(r.rids) + 1
  BY <1>2, <1>5, PrependProperties
<1>8. /\ FromLeft(l, r, sep).left = [l EXCEPT !.keys = k1, !.rids = r1]
      /\ FromLeft(l, r, sep).right = [r EXCEPT !.keys = k2, !.rids = r2]
      /\ FromLeft(l, r, sep).sep = Last(l.keys)
  BY <1>1 DEF FromLeft, Node
<1> HIDE DEF k1, r1, k2, r2
<1>9. [l EXCEPT !.keys = k1, !.rids = r1] \in Node /\ [r EXCEPT !.keys = k2, !.rids = r2] \in Node
  BY <1>1, <1>2, <1>4, <1>5, <1>6, <1>7, NodeUpdated, NodeParts
<1>10. Len(k1) < Degree /\ Len(k2) < Degree /\ Len(k1) = Len(r1) /\ Len(k2) = Len(r2)
  BY <1>1, <1>2, <1>4, <1>5, <1>6, <1>7
<1> QED
  BY <1>1, <1>4, <1>6, <1>8, <1>9, <1>10 DEF Good, Node

\* An internal node lends its last child to the neighbour on its right.
LEMMA FromLeftInternal ==
    ASSUME NEW l, NEW r, Good(l), Good(r), ~ l.leaf, ~ r.leaf, NEW sep \in Key,
           Len(l.keys) >= 1, Len(r.keys) + 1 < Degree
    PROVE  LET b == FromLeft(l, r, sep)
           IN  /\ Good(b.left) /\ ~ b.left.leaf /\ Len(b.left.keys) = Len(l.keys) - 1
               /\ b.left.children = Front(l.children)
               /\ Good(b.right) /\ ~ b.right.leaf /\ Len(b.right.keys) = Len(r.keys) + 1
               /\ b.right.children = <<Last(l.children)>> \o r.children
               /\ b.sep \in Key
<1>1. /\ l \in Node /\ Len(l.children) = Len(l.keys) + 1 /\ Len(l.keys) < Degree
      /\ r \in Node /\ Len(r.children) = Len(r.keys) + 1
  BY DEF Good
<1>2. /\ l.keys \in Seq(Key) /\ l.children \in Seq(Pid) /\ Len(l.keys) \in Nat
      /\ r.keys \in Seq(Key) /\ r.children \in Seq(Pid) /\ Len(r.keys) \in Nat /\ Degree \in Nat
  BY <1>1, NodeParts, SizesAssumption
<1> DEFINE k1 == Front(l.keys)
           c1 == Front(l.children)
           k2 == <<sep>> \o r.keys
           c2 == <<Last(l.children)>> \o r.children
<1>3. l.keys # <<>> /\ l.children # <<>>
  BY <1>1, <1>2
<1>4. k1 \in Seq(Key) /\ Len(k1) = Len(l.keys) - 1 /\ Last(l.keys) \in Key
  BY <1>2, <1>3, FrontProperties
<1>5. c1 \in Seq(Pid) /\ Len(c1) = Len(l.children) - 1 /\ Last(l.children) \in Pid
  BY <1>2, <1>3, FrontProperties
<1>6. k2 \in Seq(Key) /\ Len(k2) = Len(r.keys) + 1
  BY <1>2, PrependProperties
<1>7. c2 \in Seq(Pid) /\ Len(c2) = Len(r.children) + 1
  BY <1>2, <1>5, PrependProperties
<1>8. /\ FromLeft(l, r, sep).left = [l EXCEPT !.keys = k1, !.children = c1]
      /\ FromLeft(l, r, sep).right = [r EXCEPT !.keys = k2, !.children = c2]
      /\ FromLeft(l, r, sep).sep = Last(l.keys)
  BY <1>1 DEF FromLeft, Node
<1> HIDE DEF k1, c1, k2, c2
<1>9. [l EXCEPT !.keys = k1, !.children = c1] \in Node /\ [r EXCEPT !.keys = k2, !.children = c2] \in Node
  BY <1>1, <1>2, <1>4, <1>5, <1>6, <1>7, NodeUpdated, NodeParts
<1>10. Len(k1) < Degree /\ Len(k2) < Degree /\ Len(c1) = Len(k1) + 1 /\ Len(c2) = Len(k2) + 1
  BY <1>1, <1>2, <1>4, <1>5, <1>6, <1>7
<1> QED
  BY <1>1, <1>4, <1>6, <1>8, <1>9, <1>10 DEF Good, Node, c1, c2

\* A leaf lends its first entry to the leaf on its left.
LEMMA FromRightLeaf ==
    ASSUME NEW l, NEW r, Good(l), Good(r), l.leaf, r.leaf, NEW sep,
           Len(r.keys) >= 2, Len(l.keys) + 1 < Degree
    PROVE  LET b == FromRight(l, r, sep)
           IN  /\ Good(b.left) /\ b.left.leaf /\ Len(b.left.keys) = Len(l.keys) + 1
               /\ Good(b.right) /\ b.right.leaf /\ Len(b.right.keys) = Len(r.keys) - 1
               /\ b.left.next = l.next /\ b.right.next = r.next
               /\ b.sep \in Key
<1>1. /\ l \in Node /\ Len(l.rids) = Len(l.keys) /\ l.children = <<>>
      /\ r \in Node /\ Len(r.rids) = Len(r.keys) /\ r.children = <<>> /\ Len(r.keys) < Degree
  BY DEF Good
<1>2. /\ l.keys \in Seq(Key) /\ l.rids \in Seq(Seq(Rid)) /\ Len(l.keys) \in Nat
      /\ r.keys \in Seq(Key) /\ r.rids \in Seq(Seq(Rid)) /\ Len(r.keys) \in Nat /\ Degree \in Nat
  BY <1>1, NodeParts, SizesAssumption
<1> DEFINE k1 == Append(l.keys, r.keys[1])
           r1 == Append(l.rids, r.rids[1])
           k2 == Tail(r.keys)
           r2 == Tail(r.rids)
<1>3. r.keys # <<>> /\ r.rids # <<>>
  BY <1>1, <1>2
<1>4. k2 \in Seq(Key) /\ Len(k2) = Len(r.keys) - 1 /\ r.keys[1] \in Key /\ r.keys[2] \in Key
  <2>1. 2 \in 1..Len(r.keys)
    BY <1>2
  <2> QED
    BY <1>2, <1>3, <2>1, TailProperties, ElementOfSeq
<1>5. r2 \in Seq(Seq(Rid)) /\ Len(r2) = Len(r.rids) - 1 /\ r.rids[1] \in Seq(Rid)
  BY <1>2, <1>3, TailProperties
<1>6. k1 \in Seq(Key) /\ Len(k1) = Len(l.keys) + 1
  BY <1>2, <1>4, AppendOne
<1>7. r1 \in Seq(Seq(Rid)) /\ Len(r1) = Len(l.rids) + 1
  BY <1>2, <1>5, AppendOne
<1>8. /\ FromRight(l, r, sep).left = [l EXCEPT !.keys = k1, !.rids = r1]
      /\ FromRight(l, r, sep).right = [r EXCEPT !.keys = k2, !.rids = r2]
      /\ FromRight(l, r, sep).sep = r.keys[2]
  BY <1>1 DEF FromRight, Node
<1> HIDE DEF k1, r1, k2, r2
<1>9. [l EXCEPT !.keys = k1, !.rids = r1] \in Node /\ [r EXCEPT !.keys = k2, !.rids = r2] \in Node
  BY <1>1, <1>2, <1>4, <1>5, <1>6, <1>7, NodeUpdated, NodeParts
<1>10. Len(k1) < Degree /\ Len(k2) < Degree /\ Len(k1) = Len(r1) /\ Len(k2) = Len(r2)
  BY <1>1, <1>2, <1>4, <1>5, <1>6, <1>7
<1> QED
  BY <1>1, <1>4, <1>6, <1>8, <1>9, <1>10 DEF Good, Node

\* An internal node lends its first child to the neighbour on its left.
LEMMA FromRightInternal ==
    ASSUME NEW l, NEW r, Good(l), Good(r), ~ l.leaf, ~ r.leaf, NEW sep \in Key,
           Len(r.keys) >= 1, Len(l.keys) + 1 < Degree
    PROVE  LET b == FromRight(l, r, sep)
           IN  /\ Good(b.left) /\ ~ b.left.leaf /\ Len(b.left.keys) = Len(l.keys) + 1
               /\ b.left.children = Append(l.children, r.children[1])
               /\ Good(b.right) /\ ~ b.right.leaf /\ Len(b.right.keys) = Len(r.keys) - 1
               /\ b.right.children = Tail(r.children)
               /\ b.sep \in Key
<1>1. /\ l \in Node /\ Len(l.children) = Len(l.keys) + 1
      /\ r \in Node /\ Len(r.children) = Len(r.keys) + 1 /\ Len(r.keys) < Degree
  BY DEF Good
<1>2. /\ l.keys \in Seq(Key) /\ l.children \in Seq(Pid) /\ Len(l.keys) \in Nat
      /\ r.keys \in Seq(Key) /\ r.children \in Seq(Pid) /\ Len(r.keys) \in Nat /\ Degree \in Nat
  BY <1>1, NodeParts, SizesAssumption
<1> DEFINE k1 == Append(l.keys, sep)
           c1 == Append(l.children, r.children[1])
           k2 == Tail(r.keys)
           c2 == Tail(r.children)
<1>3. r.keys # <<>> /\ r.children # <<>>
  BY <1>1, <1>2
<1>4. k2 \in Seq(Key) /\ Len(k2) = Len(r.keys) - 1 /\ r.keys[1] \in Key
  BY <1>2, <1>3, TailProperties
<1>5. c2 \in Seq(Pid) /\ Len(c2) = Len(r.children) - 1 /\ r.children[1] \in Pid
  BY <1>2, <1>3, TailProperties
<1>6. k1 \in Seq(Key) /\ Len(k1) = Len(l.keys) + 1
  BY <1>2, AppendOne
<1>7. c1 \in Seq(Pid) /\ Len(c1) = Len(l.children) + 1
  BY <1>2, <1>5, AppendOne
<1>8. /\ FromRight(l, r, sep).left = [l EXCEPT !.keys = k1, !.children = c1]
      /\ FromRight(l, r, sep).right = [r EXCEPT !.keys = k2, !.children = c2]
      /\ FromRight(l, r, sep).sep = r.keys[1]
  BY <1>1 DEF FromRight, Node
<1> HIDE DEF k1, c1, k2, c2
<1>9. [l EXCEPT !.keys = k1, !.children = c1] \in Node /\ [r EXCEPT !.keys = k2, !.children = c2] \in Node
  BY <1>1, <1>2, <1>4, <1>5, <1>6, <1>7, NodeUpdated, NodeParts
<1>10. Len(k1) < Degree /\ Len(k2) < Degree /\ Len(c1) = Len(k1) + 1 /\ Len(c2) = Len(k2) + 1
  BY <1>1, <1>2, <1>4, <1>5, <1>6, <1>7
<1> QED
  BY <1>1, <1>4, <1>6, <1>8, <1>9, <1>10 DEF Good, Node, c1, c2

\* Two leaves in one.
LEMMA MergedLeaf ==
    ASSUME NEW l, NEW r, Good(l), Good(r), l.leaf, r.leaf, NEW sep,
           Len(l.keys) + Len(r.keys) < Degree
    PROVE  LET m == Merged(l, r, sep)
           IN  /\ Good(m) /\ m.leaf /\ Len(m.keys) = Len(l.keys) + Len(r.keys) /\ m.next = r.next
<1>1. /\ l \in Node /\ Len(l.rids) = Len(l.keys) /\ l.children = <<>>
      /\ r \in Node /\ Len(r.rids) = Len(r.keys)
  BY DEF Good
<1>2. /\ l.keys \in Seq(Key) /\ l.rids \in Seq(Seq(Rid)) /\ Len(l.keys) \in Nat
      /\ r.keys \in Seq(Key) /\ r.rids \in Seq(Seq(Rid)) /\ Len(r.keys) \in Nat /\ r.next \in Pid \cup {None}
  BY <1>1, NodeParts
<1> DEFINE k == l.keys \o r.keys
           q == l.rids \o r.rids
<1>3. k \in Seq(Key) /\ Len(k) = Len(l.keys) + Len(r.keys)
  BY <1>2, ConcatProperties
<1>4. q \in Seq(Seq(Rid)) /\ Len(q) = Len(l.rids) + Len(r.rids)
  BY <1>2, ConcatProperties
<1>5. Merged(l, r, sep) = [l EXCEPT !.keys = k, !.rids = q, !.next = r.next]
  BY DEF Merged
<1> HIDE DEF k, q
<1>6. [l EXCEPT !.keys = k, !.rids = q, !.next = r.next] \in Node
  BY <1>1, <1>2, <1>3, <1>4 DEF Node
<1> QED
  BY <1>1, <1>3, <1>4, <1>5, <1>6 DEF Good, Node

\* Two internal nodes in one, with the separator between them.
LEMMA MergedInternal ==
    ASSUME NEW l, NEW r, Good(l), Good(r), ~ l.leaf, ~ r.leaf, NEW sep \in Key,
           Len(l.keys) + 1 + Len(r.keys) < Degree
    PROVE  LET m == Merged(l, r, sep)
           IN  /\ Good(m) /\ ~ m.leaf /\ Len(m.keys) = Len(l.keys) + 1 + Len(r.keys)
               /\ m.children = l.children \o r.children
<1>1. /\ l \in Node /\ Len(l.children) = Len(l.keys) + 1
      /\ r \in Node /\ Len(r.children) = Len(r.keys) + 1
  BY DEF Good
<1>2. /\ l.keys \in Seq(Key) /\ l.children \in Seq(Pid) /\ Len(l.keys) \in Nat
      /\ r.keys \in Seq(Key) /\ r.children \in Seq(Pid) /\ Len(r.keys) \in Nat
  BY <1>1, NodeParts
<1> DEFINE h == l.keys \o <<sep>>
           k == h \o r.keys
           q == l.children \o r.children
<1>3. h \in Seq(Key) /\ Len(h) = Len(l.keys) + 1
  <2>1. <<sep>> \in Seq(Key) /\ Len(<<sep>>) = 1
    OBVIOUS
  <2> QED
    BY <1>2, <2>1, ConcatProperties
<1>4. Merged(l, r, sep) = [l EXCEPT !.keys = k, !.children = q]
  BY DEF Merged
<1> HIDE DEF h
<1>5. k \in Seq(Key) /\ Len(k) = Len(h) + Len(r.keys)
  BY <1>2, <1>3, ConcatProperties
<1>6. q \in Seq(Pid) /\ Len(q) = Len(l.children) + Len(r.children)
  BY <1>2, ConcatProperties
<1> HIDE DEF k, q
<1>7. [l EXCEPT !.keys = k, !.children = q] \in Node
  BY <1>1, <1>2, <1>5, <1>6, NodeUpdated, NodeParts
<1>8. Len(k) = Len(l.keys) + 1 + Len(r.keys) /\ Len(q) = Len(k) + 1 /\ Len(k) < Degree
  <2>1. Len(k) = Len(l.keys) + 1 + Len(r.keys)
    BY <1>3, <1>5
  <2>2. Len(q) = (Len(l.keys) + 1) + (Len(r.keys) + 1)
    BY <1>1, <1>6
  <2>3. \A a, b \in Nat : (a + 1) + (b + 1) = (a + 1 + b) + 1
    OBVIOUS
  <2>4. Len(q) = Len(k) + 1
    BY <1>2, <2>1, <2>2, <2>3
  <2> QED
    BY <2>1, <2>4, Zenon
<1> QED
  BY <1>1, <1>4, <1>7, <1>8 DEF Good, Node, q

\* The parent of two merged nodes, without the separator and the right one.
WithoutChild(node, s) == [node EXCEPT !.keys = RemoveAt(@, s), !.children = RemoveAt(@, s + 1)]

LEMMA WithoutChildNode ==
    ASSUME NEW node, Good(node), ~ node.leaf, NEW s \in 1..Len(node.keys)
    PROVE  LET m == WithoutChild(node, s)
           IN  /\ Good(m) /\ ~ m.leaf /\ Len(m.keys) = Len(node.keys) - 1
               /\ m.keys = RemoveAt(node.keys, s)
               /\ m.children = RemoveAt(node.children, s + 1)
<1>1. node \in Node /\ Len(node.children) = Len(node.keys) + 1 /\ Len(node.keys) < Degree
  BY DEF Good
<1>2. node.keys \in Seq(Key) /\ node.children \in Seq(Pid) /\ Len(node.keys) \in Nat /\ Degree \in Nat
  BY <1>1, NodeParts, SizesAssumption
<1> DEFINE j == s + 1
           k == RemoveAt(node.keys, s)
           q == RemoveAt(node.children, j)
<1>3. k \in Seq(Key) /\ Len(k) = Len(node.keys) - 1
  BY <1>2, RemoveAtProperties
<1>4. WithoutChild(node, s) = [node EXCEPT !.keys = k, !.children = q]
  BY DEF WithoutChild
<1>5. j \in 1..Len(node.children)
  BY <1>1, <1>2
<1> HIDE DEF j
<1>6. q \in Seq(Pid) /\ Len(q) = Len(node.children) - 1
  BY <1>2, <1>5, RemoveAtProperties
<1> HIDE DEF k, q
<1>7. [node EXCEPT !.keys = k, !.children = q] \in Node
  BY <1>1, <1>2, <1>3, <1>6, NodeUpdated, NodeParts
<1>8. Len(q) = Len(k) + 1 /\ Len(k) < Degree
  BY <1>1, <1>2, <1>3, <1>6
<1>9. WithoutChild(node, s).keys = k /\ WithoutChild(node, s).children = q
      /\ WithoutChild(node, s).leaf = node.leaf
  BY <1>1, <1>4 DEF Node
<1>10. Good(WithoutChild(node, s))
  BY <1>4, <1>7, <1>8, <1>9 DEF Good
<1> QED
  BY <1>3, <1>9, <1>10 DEF k, q, j

\* The parent of two nodes that have another separator now.
WithSeparator(node, s, key) == [node EXCEPT !.keys[s] = key]

LEMMA WithSeparatorNode ==
    ASSUME NEW node, Good(node), ~ node.leaf, NEW s \in 1..Len(node.keys), NEW key \in Key
    PROVE  LET m == WithSeparator(node, s, key)
           IN  /\ Good(m) /\ ~ m.leaf /\ Len(m.keys) = Len(node.keys)
               /\ m.keys = [node.keys EXCEPT ![s] = key]
               /\ m.children = node.children
<1>1. node \in Node /\ Len(node.children) = Len(node.keys) + 1 /\ Len(node.keys) < Degree
  BY DEF Good
<1>2. node.keys \in Seq(Key) /\ Len(node.keys) \in Nat
  BY <1>1, NodeParts
<1> DEFINE k == [node.keys EXCEPT ![s] = key]
<1>3. k \in Seq(Key) /\ Len(k) = Len(node.keys)
  BY <1>2, ExceptSeq
<1>4. WithSeparator(node, s, key) = [node EXCEPT !.keys = k]
  BY DEF WithSeparator
<1> HIDE DEF k
<1>5. [node EXCEPT !.keys = k] \in Node
  BY <1>1, <1>3, NodeUpdated, NodeParts
<1>6. WithSeparator(node, s, key).keys = k /\ WithSeparator(node, s, key).children = node.children
      /\ WithSeparator(node, s, key).leaf = node.leaf
  BY <1>1, <1>4 DEF Node
<1>7. Good(WithSeparator(node, s, key))
  BY <1>1, <1>3, <1>4, <1>5, <1>6 DEF Good
<1> QED
  BY <1>3, <1>6, <1>7 DEF k

-----------------------------------------------------------------------------
(***************************************************************************)
(* The shape of the file.  level is the height of every page, a dead one   *)
(* included: a page never changes it.  up names the parent of every live   *)
(* page, None for a root; a page that is not in its domain is dead.        *)
(***************************************************************************)

Kids(node) == {node.children[i] : i \in 1..Len(node.children)}

Put(f, p, x) == [q \in DOMAIN f \cup {p} |-> IF q = p THEN x ELSE f[q]]

Tree(F, level, up) ==
    /\ DOMAIN F \subseteq Pid
    /\ DOMAIN level = DOMAIN F
    /\ \A p \in DOMAIN F : level[p] \in Nat
    /\ \A p \in DOMAIN F : F[p].leaf = (level[p] = 0)
    /\ \A p \in DOMAIN F : \A q \in Kids(F[p]) : q \in DOMAIN F /\ level[q] + 1 = level[p]
    /\ DOMAIN up \subseteq DOMAIN F
    /\ \A p \in DOMAIN up : \A q \in Kids(F[p]) : q \in DOMAIN up /\ up[q] = p
    /\ \A p \in DOMAIN up : Distinct(F[p].children)

LEMMA TreeDomain ==
    ASSUME NEW F, NEW level, NEW up, Tree(F, level, up), NEW p \in DOMAIN up
    PROVE  /\ p \in DOMAIN F /\ p \in Pid /\ level[p] \in Nat /\ F[p].leaf = (level[p] = 0)
           /\ None \notin DOMAIN F
BY DEF Tree, Pid, None

LEMMA PutTwice ==
    ASSUME NEW f, NEW p \in DOMAIN f, NEW q \in DOMAIN f, p # q, NEW x, NEW y
    PROVE  /\ DOMAIN Put(Put(f, p, x), q, y) = DOMAIN f
           /\ Put(Put(f, p, x), q, y)[p] = x
           /\ Put(Put(f, p, x), q, y)[q] = y
           /\ \A s \in DOMAIN f : s # p /\ s # q => Put(Put(f, p, x), q, y)[s] = f[s]
<1> DEFINE g == Put(f, p, x)
<1>1. DOMAIN g = DOMAIN f /\ g[p] = x /\ \A s \in DOMAIN f : s # p => g[s] = f[s]
  BY DEF Put
<1> HIDE DEF g
<1>2. /\ DOMAIN Put(g, q, y) = DOMAIN f /\ Put(g, q, y)[q] = y
      /\ \A s \in DOMAIN f : s # q => Put(g, q, y)[s] = g[s]
  BY <1>1 DEF Put
<1> QED
  BY <1>1, <1>2 DEF g

\* Other keys in a page, with the same children.
LEMMA TreeRewritten ==
    ASSUME NEW F, NEW level, NEW up, Tree(F, level, up), NEW p \in DOMAIN F,
           NEW node, node.leaf = F[p].leaf, node.children = F[p].children
    PROVE  Tree(Put(F, p, node), level, up)
<1> DEFINE G == Put(F, p, node)
<1>1. DOMAIN G = DOMAIN F /\ \A q \in DOMAIN F : G[q].leaf = F[q].leaf /\ G[q].children = F[q].children
  BY DEF Put
<1>2. \A q \in DOMAIN F : Kids(G[q]) = Kids(F[q])
  BY <1>1 DEF Kids
<1> HIDE DEF G
<1>3. Tree(G, level, up)
  BY <1>1, <1>2 DEF Tree
<1> QED
  BY <1>3 DEF G

\* A new page without children.
LEMMA TreeExtended ==
    ASSUME NEW F, NEW level, NEW up, Tree(F, level, up), NEW new \in Pid \ DOMAIN F,
           NEW node, NEW m \in Nat, node.leaf = (m = 0), node.children = <<>>
    PROVE  Tree(Put(F, new, node), Put(level, new, m), Put(up, new, None))
<1> DEFINE G == Put(F, new, node)
           height == Put(level, new, m)
           above == Put(up, new, None)
<1>1. /\ DOMAIN G = DOMAIN F \cup {new} /\ G[new] = node /\ \A q \in DOMAIN F : G[q] = F[q]
      /\ DOMAIN height = DOMAIN F \cup {new} /\ height[new] = m /\ \A q \in DOMAIN F : height[q] = level[q]
      /\ DOMAIN above = DOMAIN up \cup {new} /\ \A q \in DOMAIN up : above[q] = up[q]
  BY DEF Put, Tree
<1>2. Kids(node) = {} /\ Distinct(node.children)
  BY DEF Kids, Distinct
<1> HIDE DEF G, height, above
<1>3. Tree(G, height, above)
  BY <1>1, <1>2 DEF Tree
<1> QED
  BY <1>3 DEF G, height, above

\* A page without a parent becomes a child of p.
LEMMA TreeAdopted ==
    ASSUME NEW F, NEW level, NEW up, Tree(F, level, up), NEW p \in DOMAIN up,
           NEW child \in DOMAIN up, up[child] = None, level[child] + 1 = level[p],
           NEW node, node.leaf = F[p].leaf, Distinct(node.children),
           Kids(node) \subseteq Kids(F[p]) \cup {child}
    PROVE  Tree(Put(F, p, node), level, Put(up, child, p))
<1> DEFINE G == Put(F, p, node)
           above == Put(up, child, p)
<1>1. /\ DOMAIN G = DOMAIN F /\ G[p] = node /\ \A q \in DOMAIN F : q # p => G[q] = F[q]
      /\ DOMAIN above = DOMAIN up /\ above[child] = p /\ \A q \in DOMAIN up : q # child => above[q] = up[q]
  BY ZenonT(30) DEF Put, Tree
<1>2. \A q \in DOMAIN up : child \notin Kids(F[q])
  BY DEF Tree, Pid, None
<1> HIDE DEF G, above
<1>3. Tree(G, level, above)
  BY <1>1, <1>2 DEF Tree
<1> QED
  BY <1>3 DEF G, above

\* Two pages of the same height share out their children in another way.
LEMMA TreeShared ==
    ASSUME NEW F, NEW level, NEW up, Tree(F, level, up), NEW l \in DOMAIN up, NEW r \in DOMAIN up, l # r,
           level[l] = level[r],
           NEW left, NEW right, left.leaf = F[l].leaf, right.leaf = F[r].leaf,
           Distinct(left.children), Distinct(right.children),
           Kids(left) \cup Kids(right) \subseteq Kids(F[l]) \cup Kids(F[r]),
           Kids(left) \cap Kids(right) = {}
    PROVE  \E above : /\ Tree(Put(Put(F, l, left), r, right), level, above)
                      /\ DOMAIN above = DOMAIN up
                      /\ \A q \in DOMAIN up : above[q] # up[q] => up[q] \in {l, r} /\ above[q] \in {l, r}
<1> DEFINE G == Put(Put(F, l, left), r, right)
           above == [q \in DOMAIN up |-> IF q \in Kids(left) THEN l ELSE IF q \in Kids(right) THEN r ELSE up[q]]
<1>1. /\ DOMAIN G = DOMAIN F /\ G[l] = left /\ G[r] = right
      /\ \A q \in DOMAIN F : q # l /\ q # r => G[q] = F[q]
  <2>1. l \in DOMAIN F /\ r \in DOMAIN F
    BY DEF Tree
  <2> QED
    BY <2>1, PutTwice
<1>2. \A q \in Kids(left) \cup Kids(right) : q \in DOMAIN up /\ up[q] \in {l, r} /\ level[q] + 1 = level[l]
  BY DEF Tree
<1>3. /\ DOMAIN above = DOMAIN up
      /\ \A q \in Kids(left) : above[q] = l
      /\ \A q \in Kids(right) : above[q] = r
      /\ \A q \in DOMAIN up : q \notin Kids(left) \cup Kids(right) => above[q] = up[q]
  BY <1>2
<1> HIDE DEF G, above
<1>4. Tree(G, level, above)
  <2>1. \A p \in DOMAIN F : level[p] \in Nat /\ G[p].leaf = (level[p] = 0)
    BY <1>1 DEF Tree
  <2>2. \A p \in DOMAIN F : \A q \in Kids(G[p]) : q \in DOMAIN F /\ level[q] + 1 = level[p]
    BY <1>1, <1>2 DEF Tree
  <2>3. \A p \in DOMAIN up : \A q \in Kids(G[p]) : q \in DOMAIN up /\ above[q] = p
    <3>1. SUFFICES ASSUME NEW p \in DOMAIN up, NEW q \in Kids(G[p]) PROVE q \in DOMAIN up /\ above[q] = p
      OBVIOUS
    <3>2. CASE p = l \/ p = r
      BY <1>1, <1>2, <1>3, <3>1, <3>2
    <3>3. CASE p # l /\ p # r
      <4>1. q \in Kids(F[p]) /\ q \in DOMAIN up /\ up[q] = p
        BY <1>1, <3>1, <3>3 DEF Tree
      <4> QED
        BY <1>2, <1>3, <3>3, <4>1
    <3> QED
      BY <3>2, <3>3
  <2>4. \A p \in DOMAIN up : Distinct(G[p].children)
    BY <1>1 DEF Tree
  <2> QED
    BY <1>1, <1>3, <2>1, <2>2, <2>3, <2>4 DEF Tree
<1>5. \A q \in DOMAIN up : above[q] # up[q] => up[q] \in {l, r} /\ above[q] \in {l, r}
  BY <1>2, <1>3
<1> QED
  BY <1>3, <1>4, <1>5 DEF G

\* r is merged into l and leaves its parent p; the page r is dead.
WithoutPage(up, l, r, left) == [q \in DOMAIN up \ {r} |-> IF q \in Kids(left) THEN l ELSE up[q]]

LEMMA TreeMerged ==
    ASSUME NEW F, NEW level, NEW up, Tree(F, level, up), NEW p \in DOMAIN up,
           NEW l \in Kids(F[p]), NEW r \in Kids(F[p]), l # r,
           NEW left, left.leaf = F[l].leaf, Distinct(left.children),
           Kids(left) \subseteq Kids(F[l]) \cup Kids(F[r]),
           NEW node, node.leaf = F[p].leaf, Distinct(node.children), Kids(node) \subseteq Kids(F[p]) \ {r}
    PROVE  Tree(Put(Put(F, l, left), p, node), level, WithoutPage(up, l, r, left))
<1> DEFINE G == Put(Put(F, l, left), p, node)
           above == WithoutPage(up, l, r, left)
<1>1. /\ l \in DOMAIN up /\ r \in DOMAIN up /\ up[l] = p /\ up[r] = p
      /\ level[l] + 1 = level[p] /\ level[r] + 1 = level[p] /\ l # p /\ r # p
  <2>1. /\ l \in DOMAIN up /\ r \in DOMAIN up /\ up[l] = p /\ up[r] = p
        /\ level[l] + 1 = level[p] /\ level[r] + 1 = level[p] /\ level[p] \in Nat /\ level[l] \in Nat /\ level[r] \in Nat
    BY DEF Tree
  <2> QED
    BY <2>1
<1>2. /\ DOMAIN G = DOMAIN F /\ G[l] = left /\ G[p] = node
      /\ \A q \in DOMAIN F : q # l /\ q # p => G[q] = F[q]
  <2>1. l \in DOMAIN F /\ p \in DOMAIN F
    BY <1>1 DEF Tree
  <2> QED
    BY <1>1, <2>1, PutTwice
<1>3. \A q \in Kids(left) : /\ q \in DOMAIN up /\ up[q] \in {l, r} /\ level[q] + 1 = level[l] /\ q # r /\ q # l /\ q # p
  <2>1. SUFFICES ASSUME NEW q \in Kids(left)
                 PROVE  q \in DOMAIN up /\ up[q] \in {l, r} /\ level[q] + 1 = level[l] /\ q # r /\ q # l /\ q # p
    OBVIOUS
  <2>2. q \in DOMAIN up /\ up[q] \in {l, r} /\ level[q] \in Nat /\ level[l] \in Nat /\ level[r] = level[l]
        /\ level[p] \in Nat
    BY <1>1 DEF Tree
  <2>3. level[q] + 1 = level[l]
    BY <2>1, <2>2 DEF Tree
  <2> QED
    BY <1>1, <2>2, <2>3
<1>4. /\ DOMAIN above = DOMAIN up \ {r}
      /\ \A q \in Kids(left) : above[q] = l
      /\ \A q \in DOMAIN above : q \notin Kids(left) => above[q] = up[q]
  BY <1>3 DEF WithoutPage
<1> HIDE DEF G, above
<1>5. Tree(G, level, above)
  <2>1. \A q \in DOMAIN F : level[q] \in Nat /\ G[q].leaf = (level[q] = 0)
    BY <1>1, <1>2 DEF Tree
  <2>2. \A h \in DOMAIN F : \A q \in Kids(G[h]) : q \in DOMAIN F /\ level[q] + 1 = level[h]
    BY <1>1, <1>2, <1>3 DEF Tree
  <2>3. \A h \in DOMAIN above : \A q \in Kids(G[h]) : q \in DOMAIN above /\ above[q] = h
    <3>1. SUFFICES ASSUME NEW h \in DOMAIN above, NEW q \in Kids(G[h]) PROVE q \in DOMAIN above /\ above[q] = h
      OBVIOUS
    <3>2. CASE h = l
      BY <1>1, <1>2, <1>3, <1>4, <3>1, <3>2
    <3>3. CASE h # l
      <4>1. q \in Kids(F[h]) /\ q \in DOMAIN up /\ up[q] = h /\ h \in DOMAIN up /\ (h = p => q # r)
        BY <1>2, <1>4, <3>1, <3>3 DEF Tree
      <4>2. q # r
        BY <1>1, <4>1
      <4>3. q \notin Kids(left)
        <5>1. h # r
          BY <1>4, <3>1
        <5> QED
          BY <1>3, <3>3, <4>1, <5>1
      <4> QED
        BY <1>4, <4>1, <4>2, <4>3
    <3> QED
      BY <3>2, <3>3
  <2>4. \A h \in DOMAIN above : Distinct(G[h].children)
    BY <1>2, <1>4 DEF Tree
  <2> QED
    BY <1>2, <1>4, <2>1, <2>2, <2>3, <2>4 DEF Tree
<1> QED
  BY <1>5 DEF G, above

\* Only the children of r have got another parent.
LEMMA WithoutPageParts ==
    ASSUME NEW F, NEW level, NEW up, Tree(F, level, up), NEW l \in DOMAIN up, NEW r \in DOMAIN up,
           NEW left, Kids(left) \subseteq Kids(F[l]) \cup Kids(F[r]), NEW q \in DOMAIN up, q # r
    PROVE  /\ WithoutPage(up, l, r, left)[q] = up[q] \/ (up[q] = r /\ WithoutPage(up, l, r, left)[q] = l)
           /\ q \in DOMAIN WithoutPage(up, l, r, left)
<1>1. CASE q \in Kids(left)
  <2>1. up[q] \in {l, r}
    BY <1>1 DEF Tree
  <2> QED
    BY <1>1, <2>1 DEF WithoutPage
<1>2. CASE q \notin Kids(left)
  BY <1>2 DEF WithoutPage
<1> QED
  BY <1>1, <1>2

\* A root gives way to its only child and is dead.
WithoutRoot(up, p, child) == [q \in DOMAIN up \ {p} |-> IF q = child THEN None ELSE up[q]]

LEMMA TreeShrunk ==
    ASSUME NEW F, NEW level, NEW up, Tree(F, level, up), NEW p \in DOMAIN up, up[p] = None,
           NEW child \in Kids(F[p])
    PROVE  Tree(F, level, WithoutRoot(up, p, child)) /\ child \in DOMAIN up /\ child # p
<1> DEFINE above == WithoutRoot(up, p, child)
<1>1. child \in DOMAIN up /\ up[child] = p /\ p \in Pid /\ None \notin Pid /\ child # p
  BY DEF Tree, Pid, None
<1>2. /\ DOMAIN above = DOMAIN up \ {p} /\ child \in DOMAIN above /\ above[child] = None
      /\ \A q \in DOMAIN up \ {p} : q # child => above[q] = up[q]
  BY <1>1 DEF WithoutRoot
<1> HIDE DEF above
<1>3. \A h \in DOMAIN above : \A q \in Kids(F[h]) : q \in DOMAIN above /\ above[q] = h
  <2>1. SUFFICES ASSUME NEW h \in DOMAIN above, NEW q \in Kids(F[h]) PROVE q \in DOMAIN above /\ above[q] = h
    OBVIOUS
  <2>2. h \in DOMAIN up /\ h # p /\ q \in DOMAIN up /\ up[q] = h /\ h \in Pid
    BY <1>2, <2>1 DEF Tree
  <2> QED
    BY <1>1, <1>2, <2>2
<1>4. Tree(F, level, above)
  BY <1>2, <1>3 DEF Tree
<1> QED
  BY <1>1, <1>4 DEF above

-----------------------------------------------------------------------------
(***************************************************************************)
(* The file on disk and the file F it will be once the call has written    *)
(* what it still holds.                                                    *)
(***************************************************************************)

IsFile(f) ==
    /\ f = [p \in DOMAIN f |-> f[p]]
    /\ DOMAIN f = 0..(Cardinality(DOMAIN f) - 1) /\ Cardinality(DOMAIN f) \in Nat
    /\ \A p \in DOMAIN f : Good(f[p])

OnDisk(file, writes, F) ==
    /\ IsFile(file) /\ IsFile(F)
    /\ DOMAIN file \subseteq DOMAIN F
    /\ DOMAIN F \subseteq DOMAIN file \cup {Cardinality(DOMAIN file)}
    /\ \A k \in 1..Len(writes) : writes[k].pid \in DOMAIN F /\ F[writes[k].pid] = writes[k].node
    /\ \A p \in DOMAIN F : \/ p \in DOMAIN file /\ file[p] = F[p]
                           \/ \E k \in 1..Len(writes) : writes[k].pid = p

Write == [pid : Pid, node : Node]

LEMMA Counted ==
    ASSUME NEW n \in Nat
    PROVE  Cardinality(0..(n - 1)) = n
<1>1. 0 \in Int /\ n - 1 \in Int
  OBVIOUS
<1>2. Cardinality(0..(n - 1)) = IF 0 > n - 1 THEN 0 ELSE (n - 1) - 0 + 1
  BY <1>1, FS_Interval
<1> QED
  BY <1>2

LEMMA FileExtent ==
    ASSUME NEW f, IsFile(f)
    PROVE  /\ Cardinality(DOMAIN f) \in Nat /\ Cardinality(DOMAIN f) \notin DOMAIN f
           /\ DOMAIN f \subseteq Pid
BY DEF IsFile, Pid

\* A page of the file, or the one after the last, gets a good node.
LEMMA FilePut ==
    ASSUME NEW f, IsFile(f), NEW p \in DOMAIN f \cup {Cardinality(DOMAIN f)}, NEW node, Good(node)
    PROVE  /\ IsFile(Put(f, p, node))
           /\ DOMAIN Put(f, p, node) = DOMAIN f \cup {p}
           /\ p \in DOMAIN f => DOMAIN Put(f, p, node) = DOMAIN f
<1> DEFINE g == Put(f, p, node)
           n == Cardinality(DOMAIN f)
<1>1. /\ g = [q \in DOMAIN g |-> g[q]] /\ DOMAIN g = DOMAIN f \cup {p}
      /\ \A q \in DOMAIN g : g[q] = IF q = p THEN node ELSE f[q]
  BY DEF Put
<1>2. n \in Nat /\ DOMAIN f = 0..(n - 1)
  BY DEF IsFile
<1> HIDE DEF g, n
<1>3. DOMAIN g = 0..(n - 1) \/ DOMAIN g = 0..((n + 1) - 1)
  <2>1. p \in 0..(n - 1) \/ p = n
    BY <1>2 DEF n
  <2>2. CASE p \in 0..(n - 1)
    BY <1>1, <1>2, <2>2
  <2>3. CASE p = n
    <3>1. DOMAIN g = 0..(n - 1) \cup {n}
      BY <1>1, <1>2, <2>3
    <3>2. 0..(n - 1) \cup {n} = 0..((n + 1) - 1)
      BY <1>2
    <3> QED
      BY <3>1, <3>2
  <2> QED
    BY <2>1, <2>2, <2>3
<1>4. Cardinality(DOMAIN g) \in Nat /\ DOMAIN g = 0..(Cardinality(DOMAIN g) - 1)
  <2>1. Cardinality(0..(n - 1)) = n /\ Cardinality(0..((n + 1) - 1)) = n + 1
    BY <1>2, Counted
  <2> QED
    BY <1>2, <1>3, <2>1
<1>5. \A q \in DOMAIN g : Good(g[q])
  BY <1>1 DEF IsFile
<1>6. IsFile(g)
  BY <1>1, <1>4, <1>5 DEF IsFile
<1> QED
  BY <1>1, <1>6 DEF g

LEMMA Settled ==
    ASSUME NEW file, NEW F, OnDisk(file, <<>>, F)
    PROVE  file = F /\ IsFile(F)
<1>1. DOMAIN file = DOMAIN F /\ \A p \in DOMAIN F : file[p] = F[p]
  BY DEF OnDisk
<1>2. file = [p \in DOMAIN file |-> file[p]] /\ F = [p \in DOMAIN F |-> F[p]] /\ IsFile(F)
  BY DEF OnDisk, IsFile
<1> QED
  BY <1>1, <1>2

LEMMA NothingPlanned ==
    ASSUME NEW F, IsFile(F)
    PROVE  OnDisk(F, <<>>, F)
BY DEF OnDisk

LEMMA OnePlanned ==
    ASSUME NEW F, IsFile(F), NEW p \in DOMAIN F \cup {Cardinality(DOMAIN F)}, NEW x, Good(x)
    PROVE  OnDisk(F, <<[pid |-> p, node |-> x]>>, Put(F, p, x))
<1> DEFINE w == <<[pid |-> p, node |-> x]>>
           G == Put(F, p, x)
<1>1. Len(w) = 1 /\ w[1].pid = p /\ w[1].node = x
  OBVIOUS
<1>2. IsFile(G) /\ DOMAIN G = DOMAIN F \cup {p}
  BY FilePut
<1>3. G[p] = x /\ \A q \in DOMAIN F : q # p => G[q] = F[q]
  BY DEF Put
<1> HIDE DEF w, G
<1>4. OnDisk(F, w, G)
  BY <1>1, <1>2, <1>3 DEF OnDisk
<1> QED
  BY <1>4 DEF w, G

LEMMA TwoPlanned ==
    ASSUME NEW F, IsFile(F), NEW p \in DOMAIN F, NEW q \in DOMAIN F \cup {Cardinality(DOMAIN F)}, p # q,
           NEW x, Good(x), NEW y, Good(y)
    PROVE  OnDisk(F, <<[pid |-> p, node |-> x], [pid |-> q, node |-> y]>>, Put(Put(F, p, x), q, y))
<1> DEFINE w == <<[pid |-> p, node |-> x], [pid |-> q, node |-> y]>>
           H == Put(F, p, x)
           G == Put(H, q, y)
<1>1. Len(w) = 2 /\ w[1].pid = p /\ w[1].node = x /\ w[2].pid = q /\ w[2].node = y
  OBVIOUS
<1>2. IsFile(H) /\ DOMAIN H = DOMAIN F
  BY FilePut
<1>3. H[p] = x /\ \A s \in DOMAIN F : s # p => H[s] = F[s]
  BY DEF Put
<1> HIDE DEF w, H
<1>4. IsFile(G) /\ DOMAIN G = DOMAIN F \cup {q}
  <2>1. q \in DOMAIN H \cup {Cardinality(DOMAIN H)}
    BY <1>2
  <2> HIDE DEF G
  <2>2. IsFile(Put(H, q, y)) /\ DOMAIN Put(H, q, y) = DOMAIN H \cup {q}
    BY <1>2, <2>1, FilePut, ZenonT(30)
  <2> QED
    BY <1>2, <2>2 DEF G
<1>5. G[q] = y /\ \A s \in DOMAIN H : s # q => G[s] = H[s]
  BY DEF Put
<1> HIDE DEF G
<1>6. OnDisk(F, w, G)
  BY <1>1, <1>2, <1>3, <1>4, <1>5 DEF OnDisk
<1> QED
  BY <1>6 DEF w, G, H

LEMMA ThreePlanned ==
    ASSUME NEW F, IsFile(F), NEW p \in DOMAIN F, NEW q \in DOMAIN F, NEW s \in DOMAIN F,
           p # q, p # s, q # s, NEW x, Good(x), NEW y, Good(y), NEW z, Good(z)
    PROVE  OnDisk(F, <<[pid |-> p, node |-> x], [pid |-> q, node |-> y], [pid |-> s, node |-> z]>>,
                  Put(Put(Put(F, p, x), q, y), s, z))
<1> DEFINE w == <<[pid |-> p, node |-> x], [pid |-> q, node |-> y], [pid |-> s, node |-> z]>>
           H == Put(Put(F, p, x), q, y)
           G == Put(H, s, z)
<1>1. /\ Len(w) = 3 /\ w[1].pid = p /\ w[1].node = x /\ w[2].pid = q /\ w[2].node = y
      /\ w[3].pid = s /\ w[3].node = z
  OBVIOUS
<1>2. IsFile(Put(F, p, x)) /\ DOMAIN Put(F, p, x) = DOMAIN F
  BY FilePut
<1>3. IsFile(H) /\ DOMAIN H = DOMAIN F
  BY <1>2, FilePut
<1>4. H[p] = x /\ H[q] = y /\ \A t \in DOMAIN F : t # p /\ t # q => H[t] = F[t]
  BY PutTwice
<1> HIDE DEF w, H
<1>5. IsFile(G) /\ DOMAIN G = DOMAIN F
  BY <1>3, FilePut, ZenonT(30)
<1>6. G[s] = z /\ \A t \in DOMAIN H : t # s => G[t] = H[t]
  BY DEF Put
<1> HIDE DEF G
<1>7. OnDisk(F, w, G)
  BY <1>1, <1>3, <1>4, <1>5, <1>6 DEF OnDisk
<1> QED
  BY <1>7 DEF w, G, H

\* Writing the next page does not change the file to come.
LEMMA OneWritten ==
    ASSUME NEW file, NEW writes \in Seq(Write), writes # <<>>, NEW F, OnDisk(file, writes, F)
    PROVE  OnDisk(Put(file, Head(writes).pid, Head(writes).node), Tail(writes), F)
<1> DEFINE w == Head(writes)
           more == Tail(writes)
           new == Put(file, w.pid, w.node)
<1>1. /\ w = writes[1] /\ Len(writes) \in Nat /\ Len(writes) >= 1 /\ Len(more) = Len(writes) - 1
      /\ \A k \in 1..Len(more) : more[k] = writes[k + 1]
  OBVIOUS
<1>2. w.pid \in DOMAIN F /\ F[w.pid] = w.node /\ w.pid \in DOMAIN file \cup {Cardinality(DOMAIN file)}
  BY <1>1 DEF OnDisk
<1>3. Good(w.node) /\ IsFile(file)
  BY <1>2 DEF OnDisk, IsFile
<1> HIDE DEF w
<1>4. IsFile(new) /\ DOMAIN new = DOMAIN file \cup {w.pid}
  BY <1>2, <1>3, FilePut
<1>5. new[w.pid] = w.node /\ \A q \in DOMAIN file : q # w.pid => new[q] = file[q]
  BY DEF Put
<1>6. DOMAIN new \subseteq DOMAIN F
  BY <1>2, <1>4 DEF OnDisk
<1>7. DOMAIN F \subseteq DOMAIN new \cup {Cardinality(DOMAIN new)}
  <2>1. CASE w.pid \in DOMAIN file
    <3>1. DOMAIN new = DOMAIN file
      BY <1>4, <2>1
    <3> QED
      BY <3>1 DEF OnDisk
  <2>2. CASE w.pid \notin DOMAIN file
    <3>1. w.pid = Cardinality(DOMAIN file)
      BY <1>2, <2>2
    <3> QED
      BY <1>4, <3>1 DEF OnDisk
  <2> QED
    BY <2>1, <2>2
<1> HIDE DEF new, more
<1>8. \A k \in 1..Len(more) : more[k].pid \in DOMAIN F /\ F[more[k].pid] = more[k].node
  <2>1. \A k \in 1..Len(more) : k + 1 \in 1..Len(writes)
    BY <1>1
  <2> QED
    BY <1>1, <2>1 DEF OnDisk
<1>9. \A p \in DOMAIN F : \/ p \in DOMAIN new /\ new[p] = F[p]
                          \/ \E k \in 1..Len(more) : more[k].pid = p
  <2>1. SUFFICES ASSUME NEW p \in DOMAIN F, p # w.pid
                 PROVE  (p \in DOMAIN new /\ new[p] = F[p]) \/ \E k \in 1..Len(more) : more[k].pid = p
    BY <1>2, <1>4, <1>5
  <2>2. CASE p \in DOMAIN file /\ file[p] = F[p]
    BY <1>4, <1>5, <2>1, <2>2
  <2>3. CASE \E k \in 1..Len(writes) : writes[k].pid = p
    <3>1. PICK k \in 1..Len(writes) : writes[k].pid = p
      BY <2>3
    <3>2. k # 1
      BY <1>1, <2>1, <3>1
    <3>3. k - 1 \in 1..Len(more) /\ (k - 1) + 1 = k
      BY <1>1, <3>2
    <3>4. more[k - 1].pid = p
      BY <1>1, <3>1, <3>3
    <3> QED
      BY <3>3, <3>4
  <2> QED
    BY <2>2, <2>3 DEF OnDisk
<1>10. OnDisk(new, more, F)
  <2>1. IsFile(F)
    BY DEF OnDisk
  <2> QED
    BY <1>4, <1>6, <1>7, <1>8, <1>9, <2>1 DEF OnDisk
<1> QED
  BY <1>10 DEF new, more, w

-----------------------------------------------------------------------------
(***************************************************************************)
(* A call in progress: what its stack frames say of the file.              *)
(***************************************************************************)

Steps == {"idle", "descend", "insert", "insert_up", "remove", "leave_leaf", "separate", "underflow",
          "unwind", "finish"}
Frame == [pid : Pid, node : Node, i : Nat]
Call == [do : Steps, kind : {"none", "insert", "remove"}, ix : Index \cup {None}, key : Int, rid : Int,
         from : Pid \cup {None}, root : Pid \cup {None}, at : Pid \cup {None},
         path : Seq(Frame), writes : Seq(Write), up : Int, child : Pid \cup {None}]

\* The roots as the catalog will name them, R, are roots of the file.
Rooted(R, up) ==
    /\ DOMAIN R = Index
    /\ \A ix \in Index : R[ix] \in DOMAIN up /\ up[R[ix]] = None
    /\ \A ix, jx \in Index : R[ix] = R[jx] => ix = jx

\* The page whose underflow the call is about to see to.
Mending(o, p) == o.do \in {"underflow", "unwind"} /\ o.path # <<>> /\ p = Last(o.path).pid

\* Every child has keys enough; the one to be mended lacks one.
Filled(F, up, o) ==
    \A p \in DOMAIN up : up[p] # None =>
        \/ Len(F[p].keys) >= MinKeys(F[p])
        \/ Mending(o, p) /\ Len(F[p].keys) + 1 >= MinKeys(F[p])

\* An internal root has a key, until ShrinkRoot if the call has taken the last.
RootsFilled(F, R, o) ==
    \A ix \in Index :
        \/ F[R[ix]].leaf
        \/ Len(F[R[ix]].keys) >= 1
        \/ o.do = "unwind" /\ Len(o.path) <= 1 /\ ix = o.ix

\* The frame holds its node as it is, and p is the child it names.
Follows(F, frame, p) ==
    /\ frame.node = F[frame.pid]
    /\ frame.i \in 1..Len(F[frame.pid].children)
    /\ F[frame.pid].children[frame.i] = p

\* The frames are a branch of the tree, from the root down.
Branch(F, level, up, root, path) ==
    /\ \A k \in 1..Len(path) : path[k].pid \in DOMAIN up /\ level[path[k].pid] + k = level[root] + 1
    /\ path # <<>> => path[1].pid = root
    /\ \A k \in 1..(Len(path) - 1) : Follows(F, path[k], path[k + 1].pid)

TopRead(F, o) ==
    /\ o.path # <<>>
    /\ Last(o.path).node = F[Last(o.path).pid]

\* descend: at is the root or the child the last frame names.
Arrives(F, level, up, o) ==
    /\ o.at \in DOMAIN up
    /\ level[o.at] + Len(o.path) = level[o.root]
    /\ IF o.path = <<>> THEN o.at = o.root ELSE Follows(F, Last(o.path), o.at)

\* insert_up: the new page, as high as the one that was split, has no parent yet.
Carries(F, level, up, R, o) ==
    /\ o.up \in Key
    /\ o.child \in DOMAIN up /\ up[o.child] = None
    /\ \A ix \in Index : R[ix] # o.child
    /\ level[o.child] + Len(o.path) = level[o.root]
    /\ Len(F[o.child].keys) >= MinKeys(F[o.child])
    /\ IF o.path = <<>> THEN Len(F[o.root].keys) >= MinKeys(F[o.root])
       ELSE TopRead(F, o) /\ Last(o.path).i \in 1..Len(F[Last(o.path).pid].children)

Progress(F, level, up, R, o) ==
    /\ Branch(F, level, up, o.root, o.path)
    /\ o.do = "descend" => Arrives(F, level, up, o)
    /\ o.do \in {"insert", "remove"} => TopRead(F, o) /\ F[Last(o.path).pid].leaf
    /\ o.do = "insert_up" => Carries(F, level, up, R, o)
    /\ o.do = "leave_leaf" => o.path # <<>>
    /\ o.do = "separate" => /\ TopRead(F, o) /\ F[Last(o.path).pid].keys # <<>>
                            /\ Len(o.path) > 1 /\ o.path[Len(o.path) - 1].i > 1
    /\ o.do = "underflow" => /\ TopRead(F, o) /\ Len(o.path) > 1
                             /\ Len(F[Last(o.path).pid].keys) < MinKeys(F[Last(o.path).pid])

\* Who calls, and with what.
Called(R, rooted, o) ==
    IF o.do = "idle" THEN o = Idle
    ELSE /\ o.ix \in Index /\ o.key \in Key /\ o.rid \in Rid
         /\ o.kind \in {"insert", "remove"}
         /\ o.from = rooted[o.ix] /\ o.root = R[o.ix]

Sound(F, level, up, R, o) ==
    /\ Tree(F, level, up)
    /\ Rooted(R, up)
    /\ Filled(F, up, o)
    /\ RootsFilled(F, R, o)
    /\ o.do # "idle" => Progress(F, level, up, R, o)

\* The roots when the call will have returned.
Root(c) == [ix \in Index |-> IF op[c].do # "idle" /\ op[c].ix = ix THEN op[c].root ELSE roots[ix]]

Types ==
    /\ op \in [Client -> Call]
    /\ roots \in [Index -> Pid]
    /\ entered \in [Index -> [Key -> Seq(Rid)]]

IInv(c) ==
    /\ Types
    /\ Called(Root(c), roots, op[c])
    /\ \E F, level, up : OnDisk(pages, op[c].writes, F) /\ Sound(F, level, up, Root(c), op[c])

-----------------------------------------------------------------------------
(* Branches of the tree. *)

LEMMA BranchLevels ==
    ASSUME NEW F, NEW level, NEW up, Tree(F, level, up), NEW root, NEW path \in Seq(Frame),
           Branch(F, level, up, root, path), NEW j \in 1..Len(path), NEW k \in 1..Len(path), j < k
    PROVE  level[path[j].pid] > level[path[k].pid] /\ path[j].pid # path[k].pid
<1>1. /\ path[j].pid \in DOMAIN up /\ level[path[j].pid] + j = level[root] + 1
      /\ path[k].pid \in DOMAIN up /\ level[path[k].pid] + k = level[root] + 1
  BY DEF Branch
<1>2. level[path[j].pid] \in Nat /\ level[path[k].pid] \in Nat /\ j \in Nat /\ k \in Nat
  BY <1>1 DEF Tree
<1>3. \A a, b, x, y \in Nat : a + x = b + y /\ x < y => a > b
  OBVIOUS
<1>4. level[path[j].pid] > level[path[k].pid]
  BY <1>1, <1>2, <1>3
<1> QED
  BY <1>2, <1>4

\* Two frames that follow each other are a parent and a child of its.
LEMMA BranchParent ==
    ASSUME NEW F, NEW level, NEW up, Tree(F, level, up), NEW root, NEW path \in Seq(Frame),
           Branch(F, level, up, root, path), NEW k \in 1..(Len(path) - 1)
    PROVE  /\ k \in 1..Len(path) /\ k + 1 \in 1..Len(path)
           /\ path[k].pid \in DOMAIN up /\ path[k + 1].pid \in DOMAIN up
           /\ path[k].i \in 1..Len(F[path[k].pid].children)
           /\ F[path[k].pid].children[path[k].i] = path[k + 1].pid
           /\ path[k + 1].pid \in Kids(F[path[k].pid])
           /\ up[path[k + 1].pid] = path[k].pid
           /\ level[path[k + 1].pid] + 1 = level[path[k].pid]
           /\ path[k].pid \in Pid /\ up[path[k + 1].pid] # None
           /\ ~ F[path[k].pid].leaf
<1>1. k \in 1..Len(path) /\ k + 1 \in 1..Len(path)
  OBVIOUS
<1>2. path[k].pid \in DOMAIN up /\ path[k + 1].pid \in DOMAIN up /\ Follows(F, path[k], path[k + 1].pid)
  BY <1>1 DEF Branch
<1>3. /\ path[k].i \in 1..Len(F[path[k].pid].children)
      /\ F[path[k].pid].children[path[k].i] = path[k + 1].pid
  BY <1>2 DEF Follows
<1>4. path[k + 1].pid \in Kids(F[path[k].pid])
  BY <1>3 DEF Kids
<1>5. /\ up[path[k + 1].pid] = path[k].pid
      /\ level[path[k + 1].pid] + 1 = level[path[k].pid]
      /\ path[k].pid \in DOMAIN F /\ path[k + 1].pid \in DOMAIN F
  BY <1>2, <1>4 DEF Tree
<1>6. /\ level[path[k].pid] \in Nat /\ level[path[k + 1].pid] \in Nat
      /\ F[path[k].pid].leaf = (level[path[k].pid] = 0) /\ path[k].pid \in Pid
  BY <1>5 DEF Tree
<1>7. level[path[k].pid] # 0
  BY <1>5, <1>6
<1>8. path[k].pid # None
  BY <1>6 DEF Pid, None
<1> QED
  BY <1>1, <1>2, <1>3, <1>4, <1>5, <1>6, <1>7, <1>8

\* What is left of a branch, its last node changed or not, where nothing
\* above the last node has changed.
LEMMA BranchKept ==
    ASSUME NEW F, NEW level, NEW up, NEW root, NEW path \in Seq(Frame), Branch(F, level, up, root, path),
           NEW G, NEW height, NEW above, NEW more \in Seq(Frame), Len(more) <= Len(path),
           \A k \in 1..Len(more) : more[k].pid = path[k].pid,
           \A k \in 1..(Len(more) - 1) : more[k] = path[k] /\ G[path[k].pid] = F[path[k].pid],
           \A k \in 1..Len(more) : path[k].pid \in DOMAIN above /\ height[path[k].pid] = level[path[k].pid],
           height[root] = level[root]
    PROVE  Branch(G, height, above, root, more)
<1>1. Len(more) \in Nat /\ Len(path) \in Nat
  OBVIOUS
<1>2. \A k \in 1..Len(more) : k \in 1..Len(path)
  BY <1>1
<1>3. \A k \in 1..Len(more) : more[k].pid \in DOMAIN above /\ height[more[k].pid] + k = height[root] + 1
  BY <1>2 DEF Branch
<1>4. more # <<>> => more[1].pid = root
  <2>1. SUFFICES ASSUME more # <<>> PROVE more[1].pid = root
    OBVIOUS
  <2>2. 1 \in 1..Len(more) /\ path # <<>>
    BY <1>1, <2>1
  <2> QED
    BY <2>2 DEF Branch
<1>5. ASSUME NEW k \in 1..(Len(more) - 1) PROVE Follows(G, more[k], more[k + 1].pid)
  <2>1. k \in 1..(Len(path) - 1) /\ k \in 1..Len(more) /\ k + 1 \in 1..Len(more)
    BY <1>1
  <2>2. Follows(F, path[k], path[k + 1].pid) /\ more[k] = path[k] /\ more[k + 1].pid = path[k + 1].pid
        /\ G[path[k].pid] = F[path[k].pid]
    BY <2>1 DEF Branch
  <2> QED
    BY <2>2 DEF Follows
<1> QED
  BY <1>3, <1>4, <1>5 DEF Branch

\* The last frame taken away.
LEMMA PathFront ==
    ASSUME NEW path \in Seq(Frame), path # <<>>
    PROVE  /\ Len(path) \in Nat /\ Len(path) >= 1 /\ Len(path) \in 1..Len(path)
           /\ Front(path) \in Seq(Frame) /\ Len(Front(path)) = Len(path) - 1
           /\ Len(Front(path)) <= Len(path)
           /\ \A k \in 1..Len(Front(path)) : Front(path)[k] = path[k] /\ k \in 1..(Len(path) - 1)
           /\ Last(path) = path[Len(path)] /\ Last(path) \in Frame
<1>1. /\ Len(path) \in Nat /\ Len(path) >= 1
      /\ Front(path) \in Seq(Frame) /\ Len(Front(path)) = Len(path) - 1
      /\ \A k \in 1..(Len(path) - 1) : Front(path)[k] = path[k]
      /\ Last(path) = path[Len(path)] /\ Last(path) \in Frame
  BY FrontProperties
<1> QED
  BY <1>1

LEMMA FrontLast ==
    ASSUME NEW path \in Seq(Frame), Len(path) > 1
    PROVE  /\ path # <<>> /\ Front(path) # <<>> /\ Last(Front(path)) = path[Len(path) - 1]
           /\ Len(path) - 1 \in 1..Len(path) /\ Len(path) - 1 \in 1..(Len(path) - 1)
<1>1. Len(path) \in Nat /\ path # <<>>
  OBVIOUS
<1>2. Front(path) \in Seq(Frame) /\ Len(Front(path)) = Len(path) - 1
      /\ \A k \in 1..Len(Front(path)) : Front(path)[k] = path[k]
  BY <1>1, PathFront
<1>3. Len(path) - 1 \in 1..Len(path) /\ Len(path) - 1 \in 1..(Len(path) - 1) /\ Len(path) - 1 \in 1..Len(Front(path))
  BY <1>1, <1>2
<1>4. Front(path) # <<>>
  BY <1>1, <1>2
<1> QED
  BY <1>1, <1>2, <1>3, <1>4 DEF Last

\* The node of the last frame replaced.
Renewed(path, node) == [path EXCEPT ![Len(path)].node = node]

LEMMA RenewedProperties ==
    ASSUME NEW path \in Seq(Frame), path # <<>>, NEW node \in Node
    PROVE  /\ Renewed(path, node) \in Seq(Frame) /\ Renewed(path, node) # <<>>
           /\ Len(Renewed(path, node)) = Len(path)
           /\ \A k \in 1..Len(path) : Renewed(path, node)[k].pid = path[k].pid /\ Renewed(path, node)[k].i = path[k].i
           /\ \A k \in 1..(Len(path) - 1) : Renewed(path, node)[k] = path[k]
           /\ Last(Renewed(path, node)).node = node
           /\ Last(Renewed(path, node)).pid = Last(path).pid
<1> DEFINE n == Len(path)
           frame == [path[n] EXCEPT !.node = node]
           more == [path EXCEPT ![n] = frame]
<1>1. n \in Nat /\ n >= 1 /\ n \in 1..n
  OBVIOUS
<1>2. path[n] \in Frame
  BY <1>1, ElementOfSeq
<1>3. frame \in Frame /\ frame.pid = path[n].pid /\ frame.i = path[n].i /\ frame.node = node
  BY <1>2 DEF Frame
<1>4. Renewed(path, node) = more
  BY DEF Renewed
<1> HIDE DEF frame
<1>5. more \in Seq(Frame) /\ Len(more) = n /\ \A j \in 1..n : more[j] = IF j = n THEN frame ELSE path[j]
  BY <1>1, <1>3, ExceptSeq
<1> HIDE DEF more, n
<1>6. more # <<>> /\ Last(more) = frame /\ Last(path) = path[n]
  BY <1>1, <1>5 DEF Last, n
<1>7. \A k \in 1..(n - 1) : k \in 1..n /\ k # n
  BY <1>1
<1> QED
  BY <1>3, <1>4, <1>5, <1>6, <1>7 DEF n

-----------------------------------------------------------------------------
(* One step of a call, on the file and the branch. *)

LEMMA CallParts ==
    ASSUME NEW o \in Call
    PROVE  /\ o.do \in Steps /\ o.path \in Seq(Frame) /\ o.writes \in Seq(Write)
           /\ o.ix \in Index \cup {None} /\ o.root \in Pid \cup {None} /\ o.at \in Pid \cup {None}
           /\ o.child \in Pid \cup {None} /\ o.from \in Pid \cup {None}
           /\ o.key \in Int /\ o.rid \in Int /\ o.up \in Int
BY DEF Call

\* A page of the tree and its children.
LEMMA PageParts ==
    ASSUME NEW F, IsFile(F), NEW level, NEW up, Tree(F, level, up), NEW p \in DOMAIN up
    PROVE  /\ p \in DOMAIN F /\ p \in Pid /\ level[p] \in Nat /\ F[p].leaf = (level[p] = 0)
           /\ Good(F[p]) /\ F[p] \in Node
           /\ F[p].children \in Seq(Pid) /\ Len(F[p].children) \in Nat
           /\ F[p].keys \in Seq(Int) /\ Len(F[p].keys) \in Nat /\ Len(F[p].keys) < Degree
           /\ ~ F[p].leaf => Len(F[p].children) = Len(F[p].keys) + 1
           /\ F[p].leaf => F[p].children = <<>>
           /\ Distinct(F[p].children)
           /\ \A i \in 1..Len(F[p].children) :
                 F[p].children[i] \in Kids(F[p]) /\ F[p].children[i] \in DOMAIN up
                 /\ up[F[p].children[i]] = p /\ level[F[p].children[i]] + 1 = level[p]
                 /\ level[F[p].children[i]] \in Nat
<1>1. p \in DOMAIN F /\ p \in Pid /\ level[p] \in Nat /\ F[p].leaf = (level[p] = 0) /\ Distinct(F[p].children)
  BY DEF Tree
<1>2. Good(F[p])
  BY <1>1 DEF IsFile
<1>3. /\ F[p] \in Node /\ Len(F[p].keys) < Degree
      /\ ~ F[p].leaf => Len(F[p].children) = Len(F[p].keys) + 1
      /\ F[p].leaf => F[p].children = <<>>
  BY <1>2 DEF Good
<1>4. /\ F[p].children \in Seq(Pid) /\ Len(F[p].children) \in Nat
      /\ F[p].keys \in Seq(Int) /\ Len(F[p].keys) \in Nat
  BY <1>3, NodeParts
<1>5. \A i \in 1..Len(F[p].children) :
         F[p].children[i] \in Kids(F[p]) /\ F[p].children[i] \in DOMAIN up
         /\ up[F[p].children[i]] = p /\ level[F[p].children[i]] + 1 = level[p]
         /\ level[F[p].children[i]] \in Nat
  <2>1. SUFFICES ASSUME NEW i \in 1..Len(F[p].children)
                 PROVE  F[p].children[i] \in Kids(F[p]) /\ F[p].children[i] \in DOMAIN up
                        /\ up[F[p].children[i]] = p /\ level[F[p].children[i]] + 1 = level[p]
                        /\ level[F[p].children[i]] \in Nat
    OBVIOUS
  <2>2. F[p].children[i] \in Kids(F[p])
    BY DEF Kids
  <2> QED
    BY <1>1, <2>2 DEF Tree
<1> QED
  BY <1>1, <1>2, <1>3, <1>4, <1>5

LEMMA DescendSound ==
    ASSUME NEW F, IsFile(F), NEW level, NEW up, NEW R, NEW o \in Call, Sound(F, level, up, R, o),
           o.do = "descend", o.kind \in {"insert", "remove"}, o.key \in Key,
           NEW i, i = IF F[o.at].leaf THEN 0 ELSE ChildIndex(F[o.at], o.key),
           NEW o2, o2.path = Append(o.path, [pid |-> o.at, node |-> F[o.at], i |-> i]),
           o2.at = IF F[o.at].leaf THEN None ELSE F[o.at].children[i],
           o2.do = IF F[o.at].leaf THEN o.kind ELSE "descend",
           o2.root = o.root, o2.ix = o.ix
    PROVE  o2.path \in Seq(Frame) /\ o2.at \in Pid \cup {None} /\ Sound(F, level, up, R, o2)
<1> DEFINE frame == [pid |-> o.at, node |-> F[o.at], i |-> i]
           n == Len(o.path)
<1>1. Tree(F, level, up) /\ Branch(F, level, up, o.root, o.path) /\ Arrives(F, level, up, o)
      /\ Rooted(R, up) /\ Filled(F, up, o) /\ RootsFilled(F, R, o)
  BY DEF Sound, Progress
<1>2. o.path \in Seq(Frame) /\ n \in Nat
  BY CallParts
<1>3. o.at \in DOMAIN up /\ level[o.at] + n = level[o.root]
      /\ (IF o.path = <<>> THEN o.at = o.root ELSE Follows(F, Last(o.path), o.at))
  BY <1>1 DEF Arrives
<1>4. /\ F[o.at] \in Node /\ o.at \in Pid /\ level[o.at] \in Nat
      /\ F[o.at].keys \in Seq(Int)
      /\ ~ F[o.at].leaf => Len(F[o.at].children) = Len(F[o.at].keys) + 1
      /\ F[o.at].leaf \in BOOLEAN
  BY <1>1, <1>3, PageParts, NodeParts
<1>5. ~ F[o.at].leaf => i \in 1..Len(F[o.at].children)
  BY <1>4, KeyType, ChildIndexProperties
<1>6. i \in Nat
  <2>1. Len(F[o.at].children) \in Nat
    BY <1>1, <1>3, PageParts
  <2> QED
    BY <1>5, <2>1
<1>7. frame \in Frame
  BY <1>4, <1>6 DEF Frame
<1>8. frame.pid = o.at /\ frame.node = F[o.at] /\ frame.i = i /\ o2.path = Append(o.path, frame)
  OBVIOUS
<1> HIDE DEF frame, n
<1>9. /\ o2.path \in Seq(Frame) /\ Len(o2.path) = n + 1
      /\ \A k \in 1..n : o2.path[k] = o.path[k]
      /\ o2.path[n + 1] = frame /\ o2.path # <<>>
  BY <1>2, <1>7, <1>8, AppendProperties DEF n
<1>10. Last(o2.path) = frame
  BY <1>9 DEF Last
<1>11. Branch(F, level, up, o.root, o2.path)
  <2>1. \A k \in 1..Len(o2.path) : o2.path[k].pid \in DOMAIN up /\ level[o2.path[k].pid] + k = level[o.root] + 1
    <3>1. SUFFICES ASSUME NEW k \in 1..(n + 1)
                   PROVE  o2.path[k].pid \in DOMAIN up /\ level[o2.path[k].pid] + k = level[o.root] + 1
      BY <1>9
    <3>2. CASE k \in 1..n
      <4>1. o.path[k].pid \in DOMAIN up /\ level[o.path[k].pid] + k = level[o.root] + 1
        BY <1>1, <3>2 DEF Branch, n
      <4>2. o2.path[k] = o.path[k]
        BY <1>9, <3>2
      <4> QED
        BY <4>1, <4>2, Zenon
    <3>3. CASE k = n + 1
      <4>1. \A a, b \in Nat : a + (b + 1) = (a + b) + 1
        OBVIOUS
      <4>2. level[o.at] + (n + 1) = level[o.root] + 1
        BY <1>2, <1>3, <1>4, <4>1
      <4> QED
        BY <1>3, <1>8, <1>9, <3>3, <4>2
    <3>4. k \in 1..n \/ k = n + 1
      BY <1>2, <3>1
    <3> QED
      BY <3>2, <3>3, <3>4, Zenon
  <2>2. o2.path[1].pid = o.root
    <3>1. CASE o.path = <<>>
      <4>1. n = 0
        BY <3>1 DEF n
      <4> QED
        BY <1>3, <1>8, <1>9, <3>1, <4>1
    <3>2. CASE o.path # <<>>
      <4>1. 1 \in 1..n
        BY <1>2, <3>2 DEF n
      <4> QED
        BY <1>1, <1>9, <3>2, <4>1 DEF Branch
    <3> QED
      BY <3>1, <3>2
  <2>3. ASSUME NEW k \in 1..(Len(o2.path) - 1) PROVE Follows(F, o2.path[k], o2.path[k + 1].pid)
    <3>1. k \in 1..n
      BY <1>2, <1>9
    <3>2. CASE k = n
      <4>1. o.path # <<>> /\ Last(o.path) = o.path[n]
        BY <1>2, <3>1 DEF Last, n
      <4> QED
        BY <1>3, <1>8, <1>9, <3>1, <3>2, <4>1
    <3>3. CASE k # n
      <4>1. k \in 1..(n - 1) /\ k + 1 \in 1..n
        BY <1>2, <3>1, <3>3
      <4> QED
        BY <1>1, <1>9, <3>1, <4>1 DEF Branch, n
    <3> QED
      BY <3>2, <3>3
  <2> QED
    BY <2>1, <2>2, <2>3 DEF Branch
<1>12. TopRead(F, o2)
  BY <1>8, <1>9, <1>10, SMTT(30) DEF TopRead
<1>13. ~ F[o.at].leaf => Arrives(F, level, up, o2) /\ o2.at \in Pid
  <2>1. SUFFICES ASSUME ~ F[o.at].leaf PROVE Arrives(F, level, up, o2) /\ o2.at \in Pid
    OBVIOUS
  <2>2. /\ o2.at = F[o.at].children[i] /\ o2.at \in DOMAIN up /\ level[o2.at] + 1 = level[o.at]
        /\ level[o2.at] \in Nat
    BY <1>1, <1>3, <1>5, <2>1, PageParts
  <2>3. level[o2.at] + (n + 1) = level[o.root]
    <3>1. \A a, b, x \in Nat : a + 1 = x => a + (b + 1) = x + b
      OBVIOUS
    <3> QED
      BY <1>2, <1>3, <1>4, <2>2, <3>1
  <2>4. Follows(F, frame, o2.at)
    BY <1>5, <1>8, <2>1, <2>2 DEF Follows
  <2>5. o2.at \in Pid
    BY <1>1, <2>2 DEF Tree
  <2> QED
    BY <1>9, <1>10, <2>2, <2>3, <2>4, <2>5 DEF Arrives
<1>14. Progress(F, level, up, R, o2)
  <2>1. CASE F[o.at].leaf
    BY <1>8, <1>10, <1>11, <1>12, <2>1 DEF Progress
  <2>2. CASE ~ F[o.at].leaf
    BY <1>11, <1>13, <2>2 DEF Progress
  <2> QED
    BY <2>1, <2>2
<1>15. Filled(F, up, o2) /\ RootsFilled(F, R, o2)
  BY <1>1 DEF Filled, RootsFilled, Mending
<1> QED
  BY <1>1, <1>9, <1>13, <1>14, <1>15 DEF Sound

\* The frames above the last: pages of the tree, none of them the last one's.
LEMMA AboveTop ==
    ASSUME NEW F, NEW level, NEW up, Tree(F, level, up), NEW root, NEW path \in Seq(Frame),
           Branch(F, level, up, root, path), path # <<>>, NEW k \in 1..(Len(path) - 1)
    PROVE  /\ k \in 1..Len(path) /\ path[k].pid \in DOMAIN up /\ path[k].pid \in DOMAIN F
           /\ path[k].pid # Last(path).pid
           /\ Follows(F, path[k], path[k + 1].pid)
           /\ Front(path)[k] = path[k]
<1>1. /\ Len(path) \in Nat /\ Len(path) \in 1..Len(path) /\ Last(path) = path[Len(path)]
      /\ \A j \in 1..Len(Front(path)) : Front(path)[j] = path[j]
      /\ Len(Front(path)) = Len(path) - 1
  BY PathFront
<1>2. k \in 1..Len(path) /\ k < Len(path)
  BY <1>1
<1>3. path[k].pid # path[Len(path)].pid
  BY <1>1, <1>2, BranchLevels
<1>4. path[k].pid \in DOMAIN up /\ Follows(F, path[k], path[k + 1].pid)
  BY <1>2 DEF Branch
<1>5. path[k].pid \in DOMAIN F
  BY <1>4, TreeDomain
<1> QED
  BY <1>1, <1>2, <1>3, <1>4, <1>5

\* The last frame is a page of the tree.
LEMMA TopParts ==
    ASSUME NEW F, IsFile(F), NEW level, NEW up, Tree(F, level, up), NEW root, NEW path \in Seq(Frame),
           Branch(F, level, up, root, path), path # <<>>, NEW p, p = Last(path).pid
    PROVE  /\ p \in DOMAIN up /\ p \in DOMAIN F /\ p \in Pid /\ p # None
           /\ level[p] \in Nat /\ level[p] + Len(path) = level[root] + 1
           /\ level[root] \in Nat /\ root \in DOMAIN up /\ root \in DOMAIN F
           /\ Good(F[p]) /\ F[p].leaf = (level[p] = 0)
           /\ DOMAIN up \subseteq DOMAIN F /\ DOMAIN level = DOMAIN F
           /\ Len(F[p].keys) \in Nat /\ MinKeys(F[p]) \in Nat /\ MinKeys(F[p]) >= 1
           /\ Len(path) \in Nat /\ Len(path) >= 1
           /\ Len(path) = 1 => p = root
<1>1. /\ Len(path) \in Nat /\ Len(path) \in 1..Len(path) /\ Len(path) >= 1 /\ Last(path) = path[Len(path)]
  BY PathFront
<1>2. /\ p \in DOMAIN up /\ level[p] + Len(path) = level[root] + 1
      /\ root = path[1].pid /\ root \in DOMAIN up
  <2>1. 1 \in 1..Len(path)
    BY <1>1
  <2> QED
    BY <1>1, <2>1 DEF Branch
<1>3. p \in DOMAIN F /\ p \in Pid /\ level[p] \in Nat /\ Good(F[p]) /\ F[p].leaf = (level[p] = 0)
      /\ Len(F[p].keys) \in Nat
  BY <1>2, PageParts
<1>4. root \in DOMAIN F /\ level[root] \in Nat
  BY <1>2, PageParts
<1>5. DOMAIN up \subseteq DOMAIN F /\ DOMAIN level = DOMAIN F
  BY DEF Tree
<1>6. MinKeys(F[p]) \in Nat /\ MinKeys(F[p]) >= 1
  BY <1>3, MinKeysType DEF Good
<1>7. p # None
  BY <1>3 DEF Pid, None
<1> QED
  BY <1>1, <1>2, <1>3, <1>4, <1>5, <1>6, <1>7

\* Nothing has changed above the last two frames, and no page above the last has died.
SameAbove(F, level, root, path, G, height, above) ==
    /\ \A k \in 1..(Len(path) - 2) : G[path[k].pid] = F[path[k].pid]
    /\ \A k \in 1..(Len(path) - 1) : path[k].pid \in DOMAIN above /\ height[path[k].pid] = level[path[k].pid]
    /\ height[root] = level[root]

\* The last frame of a branch taken away, where no page above has changed.
LEMMA BranchFront ==
    ASSUME NEW F, NEW level, NEW up, NEW root, NEW path \in Seq(Frame), path # <<>>,
           Branch(F, level, up, root, path), NEW G, NEW height, NEW above,
           SameAbove(F, level, root, path, G, height, above)
    PROVE  Branch(G, height, above, root, Front(path)) /\ Front(path) \in Seq(Frame)
<1>0. /\ \A k \in 1..(Len(path) - 2) : G[path[k].pid] = F[path[k].pid]
      /\ \A k \in 1..(Len(path) - 1) : path[k].pid \in DOMAIN above /\ height[path[k].pid] = level[path[k].pid]
      /\ height[root] = level[root]
  BY DEF SameAbove
<1> DEFINE more == Front(path)
           n == Len(path)
<1>1. /\ n \in Nat /\ n >= 1 /\ more \in Seq(Frame) /\ Len(more) = n - 1
      /\ \A k \in 1..(n - 1) : more[k] = path[k]
  BY PathFront
<1>2. /\ \A k \in 1..n : path[k].pid \in DOMAIN up /\ level[path[k].pid] + k = level[root] + 1
      /\ path[1].pid = root
      /\ \A k \in 1..(n - 1) : Follows(F, path[k], path[k + 1].pid)
  BY <1>1 DEF Branch
<1> HIDE DEF more, n
<1>3. ASSUME NEW k \in 1..Len(more)
      PROVE  more[k].pid \in DOMAIN above /\ height[more[k].pid] + k = height[root] + 1
  <2>1. k \in 1..(n - 1) /\ k \in 1..n
    BY <1>1
  <2>2. path[k].pid \in DOMAIN above /\ height[path[k].pid] = level[path[k].pid]
    BY <1>0, <2>1 DEF n
  <2> QED
    BY <1>0, <1>1, <1>2, <2>1, <2>2
<1>4. more # <<>> => more[1].pid = root
  <2>1. SUFFICES ASSUME more # <<>> PROVE more[1].pid = root
    OBVIOUS
  <2>2. 1 \in 1..(n - 1)
    BY <1>1, <2>1
  <2> QED
    BY <1>1, <1>2, <2>2
<1>5. ASSUME NEW k \in 1..(Len(more) - 1) PROVE Follows(G, more[k], more[k + 1].pid)
  <2>1. k \in 1..(n - 1) /\ k + 1 \in 1..(n - 1) /\ k \in 1..(n - 2)
    BY <1>1
  <2>2. /\ more[k] = path[k] /\ more[k + 1] = path[k + 1] /\ Follows(F, path[k], path[k + 1].pid)
        /\ G[path[k].pid] = F[path[k].pid]
    BY <1>0, <1>1, <1>2, <2>1 DEF n
  <2> QED
    BY <2>2 DEF Follows
<1>6. Branch(G, height, above, root, more)
  BY <1>3, <1>4, <1>5 DEF Branch
<1> QED
  BY <1>1, <1>6 DEF more

\* The last frame of a branch with another node in it.
LEMMA BranchRenewed ==
    ASSUME NEW F, NEW level, NEW up, NEW root, NEW path \in Seq(Frame), path # <<>>,
           Branch(F, level, up, root, path), NEW node \in Node, NEW G,
           \A k \in 1..(Len(path) - 1) : G[path[k].pid] = F[path[k].pid]
    PROVE  Branch(G, level, up, root, Renewed(path, node))
<1> DEFINE more == Renewed(path, node)
<1>1. /\ more \in Seq(Frame) /\ more # <<>> /\ Len(more) = Len(path) /\ Len(path) \in Nat
      /\ \A k \in 1..Len(path) : more[k].pid = path[k].pid
      /\ \A k \in 1..(Len(path) - 1) : more[k] = path[k]
  BY RenewedProperties
<1>2. /\ \A k \in 1..Len(path) : path[k].pid \in DOMAIN up /\ level[path[k].pid] + k = level[root] + 1
      /\ path[1].pid = root
      /\ \A k \in 1..(Len(path) - 1) : Follows(F, path[k], path[k + 1].pid)
  BY DEF Branch
<1> HIDE DEF more
<1>3. \A k \in 1..Len(more) : more[k].pid \in DOMAIN up /\ level[more[k].pid] + k = level[root] + 1
  BY <1>1, <1>2
<1>4. more[1].pid = root
  <2>1. 1 \in 1..Len(path)
    BY <1>1
  <2> QED
    BY <1>1, <1>2, <2>1
<1>5. ASSUME NEW k \in 1..(Len(more) - 1) PROVE Follows(G, more[k], more[k + 1].pid)
  <2>1. k \in 1..(Len(path) - 1) /\ k + 1 \in 1..Len(path)
    BY <1>1
  <2>2. more[k] = path[k] /\ more[k + 1].pid = path[k + 1].pid /\ Follows(F, path[k], path[k + 1].pid)
        /\ G[path[k].pid] = F[path[k].pid]
    BY <1>1, <1>2, <2>1
  <2> QED
    BY <2>2 DEF Follows
<1>6. Branch(G, level, up, root, more)
  BY <1>3, <1>4, <1>5 DEF Branch
<1> QED
  BY <1>6 DEF more

\* The tree H of an insertion whose top page p has become node, which may
\* have too many keys: only a page that is no root of the catalog, and has
\* keys enough, has got another parent.
Prepared(F, level, up, R, p, node, above) ==
    /\ Tree(Put(F, p, node), level, above)
    /\ node.leaf = F[p].leaf
    /\ DOMAIN above = DOMAIN up
    /\ \A q \in DOMAIN up :
          \/ above[q] = up[q]
          \/ Len(F[q].keys) >= MinKeys(F[q]) /\ \A ix \in Index : R[ix] # q

\* insertRecursive where the node keeps less than Degree keys.
LEMMA StoreSound ==
    ASSUME NEW F, IsFile(F), NEW level, NEW up, NEW R, NEW o \in Call, Sound(F, level, up, R, o),
           o.do \in {"insert", "insert_up"}, o.path # <<>>,
           NEW p, p = Last(o.path).pid, NEW node, Good(node), Len(node.keys) >= Len(F[p].keys),
           NEW above, Prepared(F, level, up, R, p, node, above),
           NEW o2, o2.do = "finish", o2.path = o.path, o2.root = o.root, o2.ix = o.ix
    PROVE  Sound(Put(F, p, node), level, above, R, o2)
<1> DEFINE G == Put(F, p, node)
           n == Len(o.path)
<1>1. Tree(F, level, up) /\ Branch(F, level, up, o.root, o.path)
      /\ Rooted(R, up) /\ Filled(F, up, o) /\ RootsFilled(F, R, o)
  BY DEF Sound, Progress
<1>2. o.path \in Seq(Frame) /\ n \in Nat /\ n \in 1..n /\ Last(o.path) = o.path[n]
  BY CallParts, PathFront
<1>3. p \in DOMAIN up
  BY <1>1, <1>2, TopParts
<1>4. /\ Tree(G, level, above) /\ node.leaf = F[p].leaf /\ DOMAIN above = DOMAIN up
      /\ \A q \in DOMAIN up :
            \/ above[q] = up[q]
            \/ Len(F[q].keys) >= MinKeys(F[q]) /\ \A ix \in Index : R[ix] # q
  BY DEF Prepared
<1>5. p \in DOMAIN F /\ Good(F[p]) /\ DOMAIN up \subseteq DOMAIN F
  BY <1>1, <1>2, TopParts
<1>6. G[p] = node /\ \A q \in DOMAIN F : q # p => G[q] = F[q]
  BY <1>5 DEF Put
<1> HIDE DEF G, n
<1>7. /\ Len(node.keys) \in Nat /\ Len(F[p].keys) \in Nat
      /\ MinKeys(node) = MinKeys(F[p]) /\ MinKeys(node) \in Nat
  BY <1>4, <1>5, NodeParts, MinKeysType DEF Good, MinKeys
<1>8. Branch(G, level, above, o.root, o.path)
  <2>1. ASSUME NEW k \in 1..(n - 1) PROVE G[o.path[k].pid] = F[o.path[k].pid]
    <3>1. o.path[k].pid # p /\ o.path[k].pid \in DOMAIN F
      BY <1>1, <1>2, <2>1, AboveTop DEF n
    <3> QED
      BY <1>6, <3>1
  <2>2. \A k \in 1..n : o.path[k].pid \in DOMAIN above
    BY <1>1, <1>4 DEF Branch, n
  <2>3. n <= n
    BY <1>2
  <2> QED
    BY <1>1, <1>2, <2>1, <2>2, <2>3, BranchKept DEF n
<1>9. Rooted(R, above)
  BY <1>1, <1>4 DEF Rooted
<1>10. Filled(G, above, o2)
  <2>1. SUFFICES ASSUME NEW q \in DOMAIN above, above[q] # None
                 PROVE  Len(G[q].keys) >= MinKeys(G[q])
    BY DEF Filled
  <2>2. Len(F[q].keys) >= MinKeys(F[q])
    BY <1>1, <1>4, <2>1 DEF Filled, Mending
  <2>3. CASE q = p
    BY <1>6, <1>7, <2>2, <2>3
  <2>4. CASE q # p
    BY <1>4, <1>5, <1>6, <2>1, <2>2, <2>4
  <2> QED
    BY <2>3, <2>4
<1>11. RootsFilled(G, R, o2)
  <2>1. SUFFICES ASSUME NEW ix \in Index PROVE G[R[ix]].leaf \/ Len(G[R[ix]].keys) >= 1
    BY DEF RootsFilled
  <2>2. F[R[ix]].leaf \/ Len(F[R[ix]].keys) >= 1
    BY <1>1 DEF RootsFilled
  <2>3. R[ix] \in DOMAIN F
    BY <1>1, <1>5 DEF Rooted
  <2>4. CASE R[ix] = p
    BY <1>4, <1>6, <1>7, <2>2, <2>4
  <2>5. CASE R[ix] # p
    BY <1>6, <2>2, <2>3, <2>5
  <2> QED
    BY <2>4, <2>5
<1>12. Progress(G, level, above, R, o2)
  BY <1>8 DEF Progress
<1> QED
  BY <1>4, <1>9, <1>10, <1>11, <1>12 DEF Sound, G

\* insertRecursive where the node splits.
LEMMA SplitSound ==
    ASSUME NEW F, IsFile(F), NEW level, NEW up, NEW R, NEW o \in Call, Sound(F, level, up, R, o),
           o.do \in {"insert", "insert_up"}, o.path # <<>>,
           NEW p, p = Last(o.path).pid, NEW node,
           NEW above, Prepared(F, level, up, R, p, node, above),
           NEW left, Good(left), left.leaf = node.leaf, Len(left.keys) >= MinKeys(left), Distinct(left.children),
           NEW right, Good(right), right.leaf = node.leaf, Len(right.keys) >= MinKeys(right),
           Distinct(right.children),
           Kids(left) \cup Kids(right) \subseteq Kids(node), Kids(left) \cap Kids(right) = {},
           NEW new, new = Cardinality(DOMAIN F),
           NEW o2, o2.do = "insert_up", o2.path = Front(o.path), o2.root = o.root, o2.ix = o.ix,
           o2.up \in Key, o2.child = new
    PROVE  \E height, over : Sound(Put(Put(F, p, left), new, right), height, over, R, o2)
<1> DEFINE H == Put(F, p, node)
           G == Put(Put(F, p, left), new, right)
           blank == [leaf |-> node.leaf, children |-> <<>>]
           K == Put(H, new, blank)
           height == Put(level, new, level[p])
           wider == Put(above, new, None)
           n == Len(o.path)
<1>1. Tree(F, level, up) /\ Branch(F, level, up, o.root, o.path)
      /\ Rooted(R, up) /\ Filled(F, up, o) /\ RootsFilled(F, R, o)
  BY DEF Sound, Progress
<1>2. /\ o.path \in Seq(Frame) /\ n \in Nat /\ n \in 1..n /\ n >= 1 /\ Last(o.path) = o.path[n]
      /\ Front(o.path) \in Seq(Frame) /\ Len(Front(o.path)) = n - 1
      /\ \A k \in 1..(n - 1) : Front(o.path)[k] = o.path[k]
  BY CallParts, PathFront
<1>3. p \in DOMAIN up /\ level[p] + n = level[o.root] + 1 /\ level[o.root] \in Nat /\ o.root \in DOMAIN F
  BY <1>1, <1>2, TopParts
<1>4. /\ Tree(H, level, above) /\ node.leaf = F[p].leaf /\ DOMAIN above = DOMAIN up
      /\ \A q \in DOMAIN up :
            \/ above[q] = up[q]
            \/ Len(F[q].keys) >= MinKeys(F[q]) /\ \A ix \in Index : R[ix] # q
  BY DEF Prepared
<1>5. /\ p \in DOMAIN F /\ p \in Pid /\ DOMAIN up \subseteq DOMAIN F /\ DOMAIN level = DOMAIN F
      /\ level[p] \in Nat /\ F[p].leaf = (level[p] = 0)
  BY <1>1, <1>2, TopParts
<1>6. new \in Pid /\ new \notin DOMAIN F /\ new # p /\ new \notin DOMAIN up
  BY <1>5, FileExtent DEF Pid
<1>7. DOMAIN H = DOMAIN F
  BY <1>5 DEF Put
<1>8. Tree(K, height, wider)
  <2>1. blank.leaf = (level[p] = 0) /\ blank.children = <<>>
    BY <1>4, <1>5
  <2> HIDE DEF blank, H, height, wider, K
  <2> QED
    BY <1>4, <1>5, <1>6, <1>7, <2>1, TreeExtended DEF K, height, wider
<1>9. /\ DOMAIN wider = DOMAIN up \cup {new} /\ wider[new] = None /\ \A q \in DOMAIN up : wider[q] = above[q]
      /\ DOMAIN height = DOMAIN F \cup {new} /\ height[new] = level[p]
      /\ \A q \in DOMAIN F : height[q] = level[q]
  BY <1>4, <1>5, <1>6 DEF Put
<1>10. K[p].leaf = node.leaf /\ K[new].leaf = node.leaf /\ Kids(K[p]) = Kids(node)
  BY <1>5, <1>6 DEF Put
<1>11. Put(Put(K, p, left), new, right) = G
  BY <1>5, <1>6 DEF Put
<1> HIDE DEF H, G, blank, K, height, wider, n
<1>12. PICK over : /\ Tree(G, height, over)
                   /\ DOMAIN over = DOMAIN up \cup {new}
                   /\ \A q \in DOMAIN up \cup {new} :
                         over[q] # wider[q] => wider[q] \in {p, new} /\ over[q] \in {p, new}
  <2>1. /\ p \in DOMAIN wider /\ new \in DOMAIN wider /\ height[p] = height[new]
        /\ Kids(left) \cup Kids(right) \subseteq Kids(K[p]) \cup Kids(K[new])
    BY <1>3, <1>5, <1>9, <1>10
  <2>2. \E over : /\ Tree(Put(Put(K, p, left), new, right), height, over)
                  /\ DOMAIN over = DOMAIN wider
                  /\ \A q \in DOMAIN wider :
                        over[q] # wider[q] => wider[q] \in {p, new} /\ over[q] \in {p, new}
    BY <1>6, <1>8, <1>10, <2>1, TreeShared
  <2> QED
    BY <1>9, <1>11, <2>2
<1>13. /\ G[p] = left /\ G[new] = right
       /\ \A q \in DOMAIN F : q # p => G[q] = F[q]
  BY <1>5, <1>6 DEF G, Put
<1>14. p # None /\ new # None
  BY <1>5, <1>6 DEF Pid, None
<1>15. over[new] = None
  BY <1>9, <1>12, <1>14
<1>16. Rooted(R, over)
  BY <1>1, <1>4, <1>9, <1>12, <1>14 DEF Rooted
<1>17. Filled(G, over, o2)
  <2>1. SUFFICES ASSUME NEW q \in DOMAIN over, over[q] # None
                 PROVE  Len(G[q].keys) >= MinKeys(G[q])
    BY DEF Filled
  <2>2. CASE q = p \/ q = new
    BY <1>13, <2>2
  <2>3. CASE q # p /\ q # new
    <3>1. q \in DOMAIN up /\ above[q] # None
      BY <1>9, <1>12, <1>14, <2>1, <2>3
    <3>2. Len(F[q].keys) >= MinKeys(F[q])
      BY <1>1, <1>4, <3>1 DEF Filled, Mending
    <3>3. G[q] = F[q]
      BY <1>5, <1>13, <2>3, <3>1
    <3> QED
      BY <3>2, <3>3
  <2> QED
    BY <2>2, <2>3
<1>18. Len(left.keys) >= 1
  <2>1. left \in Node
    BY DEF Good
  <2>2. MinKeys(left) \in Nat /\ MinKeys(left) >= 1 /\ Len(left.keys) \in Nat
    BY <2>1, MinKeysType, NodeParts
  <2> QED
    BY <2>2
<1>19. RootsFilled(G, R, o2)
  <2>1. SUFFICES ASSUME NEW ix \in Index PROVE G[R[ix]].leaf \/ Len(G[R[ix]].keys) >= 1
    BY DEF RootsFilled
  <2>2. F[R[ix]].leaf \/ Len(F[R[ix]].keys) >= 1
    BY <1>1 DEF RootsFilled
  <2>3. R[ix] \in DOMAIN F
    BY <1>1, <1>5 DEF Rooted
  <2>4. CASE R[ix] = p
    BY <1>13, <1>18, <2>4
  <2>5. CASE R[ix] # p
    BY <1>13, <2>2, <2>3, <2>5
  <2> QED
    BY <2>4, <2>5
<1>20. ASSUME NEW k \in 1..(n - 1)
       PROVE  /\ k \in 1..n /\ o.path[k].pid \in DOMAIN F /\ G[o.path[k].pid] = F[o.path[k].pid]
              /\ Follows(F, o.path[k], o.path[k + 1].pid)
  <2>1. /\ k \in 1..n /\ o.path[k].pid \in DOMAIN F /\ o.path[k].pid # p
        /\ Follows(F, o.path[k], o.path[k + 1].pid)
    BY <1>1, <1>2, <1>20, AboveTop DEF n
  <2> QED
    BY <1>13, <2>1
<1>22. Branch(G, height, over, o.root, Front(o.path))
  <2>1. \A k \in 1..(n - 2) : G[o.path[k].pid] = F[o.path[k].pid]
    <3>1. \A k \in 1..(n - 2) : k \in 1..(n - 1)
      BY <1>2
    <3> QED
      BY <1>20, <3>1
  <2>2. ASSUME NEW k \in 1..(n - 1)
        PROVE  o.path[k].pid \in DOMAIN over /\ height[o.path[k].pid] = level[o.path[k].pid]
    <3>1. o.path[k].pid \in DOMAIN up /\ o.path[k].pid \in DOMAIN F
      BY <1>1, <1>2, <2>2, AboveTop DEF n
    <3> QED
      BY <1>9, <1>12, <3>1
  <2>3. height[o.root] = level[o.root]
    BY <1>3, <1>9
  <2>4. /\ \A k \in 1..(Len(o.path) - 2) : G[o.path[k].pid] = F[o.path[k].pid]
        /\ \A k \in 1..(Len(o.path) - 1) :
              o.path[k].pid \in DOMAIN over /\ height[o.path[k].pid] = level[o.path[k].pid]
    BY <2>1, <2>2 DEF n
  <2>5. Branch(F, level, up, o.root, o.path) /\ o.path \in Seq(Frame)
    BY <1>1, <1>2
  <2> QED
    BY <2>3, <2>4, <2>5, BranchFront DEF SameAbove
<1>23. Carries(G, height, over, R, o2)
  <2>1. new \in DOMAIN over /\ over[new] = None
    BY <1>12, <1>15
  <2>2. \A ix \in Index : R[ix] # new
    BY <1>1, <1>6 DEF Rooted
  <2>3. height[new] + Len(Front(o.path)) = height[o.root]
    <3>1. \A a, b, x \in Nat : a + b = x + 1 => a + (b - 1) = x
      OBVIOUS
    <3>2. level[p] + (n - 1) = level[o.root]
      BY <1>2, <1>3, <1>5, <3>1
    <3>3. height[o.root] = level[o.root] /\ height[new] = level[p] /\ Len(Front(o.path)) = n - 1
      BY <1>2, <1>3, <1>9
    <3> QED
      BY <3>2, <3>3, Zenon
  <2>4. CASE n = 1
    <3>1. Front(o.path) = <<>>
      BY <1>2, <2>4
    <3>2. o.root = p
      BY <1>1, <1>2, <2>4 DEF Branch, n
    <3> QED
      BY <1>13, <2>1, <2>2, <2>3, <3>1, <3>2 DEF Carries
  <2>5. CASE n > 1
    <3>1. Front(o.path) # <<>> /\ Last(Front(o.path)) = o.path[n - 1] /\ n - 1 \in 1..(n - 1)
      BY <1>2, <2>5, FrontLast DEF n
    <3>2. /\ o.path[n - 1].node = F[o.path[n - 1].pid]
          /\ o.path[n - 1].i \in 1..Len(F[o.path[n - 1].pid].children)
          /\ G[o.path[n - 1].pid] = F[o.path[n - 1].pid]
      BY <1>20, <3>1 DEF Follows
    <3>3. TopRead(G, o2) /\ Last(o2.path).i \in 1..Len(G[Last(o2.path).pid].children)
      BY <3>1, <3>2 DEF TopRead
    <3> QED
      BY <1>13, <2>1, <2>2, <2>3, <3>1, <3>3 DEF Carries
  <2> QED
    BY <1>2, <2>4, <2>5
<1>24. Progress(G, height, over, R, o2)
  BY <1>22, <1>23 DEF Progress
<1> QED
  BY <1>12, <1>16, <1>17, <1>19, <1>24 DEF Sound, G

\* What Begin makes of the call.
Starts(R, ix, o2) ==
    o2.do = "descend" /\ o2.path = <<>> /\ o2.ix = ix /\ o2.root = R[ix] /\ o2.at = R[ix]

\* The call begins at the root.
LEMMA BeginSound ==
    ASSUME NEW F, NEW level, NEW up, NEW R, NEW o, Sound(F, level, up, R, o), o.do = "idle",
           NEW ix \in Index, NEW o2, Starts(R, ix, o2)
    PROVE  Sound(F, level, up, R, o2) /\ R[ix] \in Pid
<1> USE DEF Starts
<1>1. Tree(F, level, up) /\ Rooted(R, up) /\ Filled(F, up, o) /\ RootsFilled(F, R, o)
  BY DEF Sound
<1>2. R[ix] \in DOMAIN up /\ R[ix] \in Pid /\ level[R[ix]] \in Nat
  <2>1. R[ix] \in DOMAIN up
    BY <1>1 DEF Rooted
  <2> QED
    BY <1>1, <2>1, TreeDomain
<1>3. Branch(F, level, up, o2.root, o2.path)
  BY DEF Branch
<1>4. Arrives(F, level, up, o2)
  BY <1>2 DEF Arrives
<1>5. Progress(F, level, up, R, o2)
  BY <1>3, <1>4 DEF Progress
<1>6. Filled(F, up, o2) /\ RootsFilled(F, R, o2)
  BY <1>1 DEF Filled, RootsFilled, Mending
<1> QED
  BY <1>1, <1>2, <1>5, <1>6 DEF Sound

\* An entry more in a leaf.
LEMMA LeafPrepared ==
    ASSUME NEW F, IsFile(F), NEW level, NEW up, NEW R, Tree(F, level, up), NEW p \in DOMAIN up, F[p].leaf,
           NEW key \in Key, NEW rid \in Rid, NEW node, node = WithEntry(F[p], key, rid)
    PROVE  /\ Prepared(F, level, up, R, p, node, up)
           /\ node \in Node /\ node.leaf /\ node.children = <<>> /\ Len(node.rids) = Len(node.keys)
           /\ Len(node.keys) >= Len(F[p].keys) /\ Len(node.keys) <= Degree
<1>1. p \in DOMAIN F /\ Good(F[p]) /\ F[p].children = <<>> /\ Len(F[p].keys) \in Nat /\ Len(F[p].keys) < Degree
  BY PageParts
<1>2. /\ node \in Node /\ node.leaf /\ node.children = <<>> /\ Len(node.rids) = Len(node.keys)
      /\ Len(node.keys) \in {Len(F[p].keys), Len(F[p].keys) + 1}
  BY <1>1, WithEntryNode
<1>3. node.leaf = F[p].leaf
  <2>1. F[p].leaf \in BOOLEAN /\ node.leaf \in BOOLEAN
    BY <1>1, <1>2, NodeParts DEF Good
  <2> QED
    BY <1>2, <2>1
<1>4. Tree(Put(F, p, node), level, up)
  BY <1>1, <1>2, <1>3, TreeRewritten
<1>5. Prepared(F, level, up, R, p, node, up)
  BY <1>3, <1>4 DEF Prepared
<1>6. Len(node.keys) >= Len(F[p].keys) /\ Len(node.keys) <= Degree
  BY <1>1, <1>2, DegreeHalves
<1> QED
  BY <1>2, <1>5, <1>6

\* A child more in an internal node.
LEMMA ParentPrepared ==
    ASSUME NEW F, IsFile(F), NEW level, NEW up, NEW R, Tree(F, level, up), NEW p \in DOMAIN up,
           NEW child \in DOMAIN up, up[child] = None, level[child] + 1 = level[p],
           Len(F[child].keys) >= MinKeys(F[child]), \A ix \in Index : R[ix] # child,
           NEW i \in 1..Len(F[p].children), NEW key \in Key, NEW node, node = WithChild(F[p], i, key, child)
    PROVE  /\ Prepared(F, level, up, R, p, node, Put(up, child, p))
           /\ node \in Node /\ ~ node.leaf /\ Len(node.children) = Len(node.keys) + 1
           /\ Distinct(node.children)
           /\ Len(node.keys) >= Len(F[p].keys) /\ Len(node.keys) <= Degree
<1>1. /\ p \in DOMAIN F /\ Good(F[p]) /\ Len(F[p].keys) \in Nat /\ Len(F[p].keys) < Degree
      /\ F[p].children \in Seq(Pid) /\ Distinct(F[p].children) /\ Len(F[p].children) \in Nat
      /\ level[p] \in Nat /\ F[p].leaf = (level[p] = 0)
      /\ \A j \in 1..Len(F[p].children) : up[F[p].children[j]] = p
  BY PageParts, SMTT(30)
<1>2. child \in Pid /\ level[child] \in Nat /\ p \in Pid
  BY TreeDomain
<1>3. ~ F[p].leaf
  <2>1. level[p] # 0
    BY <1>1, <1>2
  <2> QED
    BY <1>1, <2>1
<1>4. /\ node \in Node /\ ~ node.leaf /\ node.children = InsertAt(F[p].children, i + 1, child)
      /\ Len(node.keys) = Len(F[p].keys) + 1 /\ Len(node.children) = Len(F[p].children) + 1
  BY <1>1, <1>2, <1>3, WithChildNode
<1>5. \A j \in 1..Len(F[p].children) : F[p].children[j] # child
  BY <1>1, <1>2, SMTT(30) DEF Pid, None
<1> DEFINE at == i + 1
<1>6. at \in 1..(Len(F[p].children) + 1) /\ node.children = InsertAt(F[p].children, at, child)
  BY <1>1, <1>4
<1> HIDE DEF at
<1>7. Distinct(node.children)
  BY <1>1, <1>2, <1>5, <1>6, DistinctInsertAt
<1>8. Kids(node) \subseteq Kids(F[p]) \cup {child}
  <2> DEFINE s == F[p].children
  <2>1. s \in Seq(Pid) /\ at \in 1..(Len(s) + 1) /\ node.children = InsertAt(s, at, child)
    BY <1>1, <1>6
  <2>2. s = F[p].children
    OBVIOUS
  <2> HIDE DEF s
  <2>3. /\ Len(InsertAt(s, at, child)) = Len(s) + 1
        /\ \A j \in 1..(Len(s) + 1) :
              InsertAt(s, at, child)[j] = IF j < at THEN s[j] ELSE IF j = at THEN child ELSE s[j - 1]
    BY <1>2, <2>1, InsertAtProperties
  <2>4. /\ Len(InsertAt(F[p].children, at, child)) = Len(F[p].children) + 1
        /\ \A j \in 1..(Len(F[p].children) + 1) :
              node.children[j] = IF j < at THEN F[p].children[j] ELSE IF j = at THEN child
                                 ELSE F[p].children[j - 1]
    BY <2>1, <2>2, <2>3
  <2>5. SUFFICES ASSUME NEW j \in 1..(Len(F[p].children) + 1)
                 PROVE  node.children[j] \in Kids(F[p]) \cup {child}
    BY <1>4 DEF Kids
  <2>6. CASE j < at
    BY <1>1, <1>6, <2>4, <2>6 DEF Kids
  <2>7. CASE j = at
    BY <2>4, <2>7
  <2>8. CASE j > at
    <3>1. j - 1 \in 1..Len(F[p].children)
      BY <1>1, <1>6, <2>8
    <3>2. node.children[j] = F[p].children[j - 1]
      BY <1>1, <1>6, <2>4, <2>8
    <3> QED
      BY <3>1, <3>2 DEF Kids
  <2> QED
    BY <1>1, <1>6, <2>6, <2>7, <2>8
<1>9. node.leaf = F[p].leaf
  <2>1. F[p].leaf \in BOOLEAN /\ node.leaf \in BOOLEAN
    BY <1>1, <1>4, NodeParts DEF Good
  <2> QED
    BY <1>3, <1>4, <2>1
<1>10. Tree(Put(F, p, node), level, Put(up, child, p))
  BY <1>7, <1>8, <1>9, TreeAdopted
<1>11. /\ DOMAIN Put(up, child, p) = DOMAIN up
       /\ \A q \in DOMAIN up : q # child => Put(up, child, p)[q] = up[q]
  BY DEF Put
<1>12. Prepared(F, level, up, R, p, node, Put(up, child, p))
  BY <1>9, <1>10, <1>11 DEF Prepared
<1>13. Len(F[p].children) = Len(F[p].keys) + 1
  BY <1>1, <1>3 DEF Good
<1>14. Len(node.keys) >= Len(F[p].keys) /\ Len(node.keys) <= Degree /\ Len(node.children) = Len(node.keys) + 1
  BY <1>1, <1>4, <1>13, DegreeHalves
<1> QED
  BY <1>4, <1>7, <1>12, <1>14

\* The halves of a node share out its children.
LEMMA SplitChildren ==
    ASSUME NEW node, node.children \in Seq(Pid), Distinct(node.children), NEW m \in Nat,
           m + 1 <= Len(node.children),
           NEW left, left.children = SubSeq(node.children, 1, m + 1),
           NEW right, right.children = SubSeq(node.children, m + 2, Len(node.children))
    PROVE  /\ Distinct(left.children) /\ Distinct(right.children)
           /\ Kids(left) \cup Kids(right) \subseteq Kids(node)
           /\ Kids(left) \cap Kids(right) = {}
<1> DEFINE s == node.children
           n == Len(node.children)
           a == m + 1
           b == m + 2
<1>1. s \in Seq(Pid) /\ n \in Nat /\ Distinct(s) /\ n = Len(s)
  OBVIOUS
<1>2. left.children = SubSeq(s, 1, a) /\ right.children = SubSeq(s, b, n)
  OBVIOUS
<1>3. /\ 1 \in 1..(n + 1) /\ a \in (1 - 1)..n /\ b \in 1..(n + 1) /\ n \in (b - 1)..n
      /\ a \in 1..n /\ b = a + 1
  BY <1>1
<1> HIDE DEF s, n, a, b
<1>4. Distinct(left.children) /\ Distinct(right.children)
  BY <1>1, <1>2, <1>3, DistinctPart
<1>5. /\ Len(left.children) = a /\ \A i \in 1..a : left.children[i] = s[i]
      /\ Len(right.children) = n - a /\ \A i \in 1..(n - a) : right.children[i] = s[i + a]
  <2>1. 1 \in Int /\ a \in Int /\ b \in Int /\ n \in Int
    BY <1>1, <1>3
  <2>2. Len(left.children) = a /\ \A i \in 1..a : left.children[i] = s[i]
    BY <1>1, <1>2, <1>3, <2>1
  <2>3. Len(right.children) = n - a /\ \A i \in 1..(n - a) : right.children[i] = s[i + a]
    <3>1. /\ Len(right.children) = n - b + 1
          /\ \A i \in 1..(n - b + 1) : right.children[i] = s[b + i - 1]
      <4>1. \A i \in b..n : s[i] \in Pid
        BY <1>1, <1>3
      <4>2. /\ Len(SubSeq(s, b, n)) = IF b <= n THEN n - b + 1 ELSE 0
            /\ \A i \in 1..(n - b + 1) : SubSeq(s, b, n)[i] = s[b + i - 1]
        BY <2>1, <4>1, SubSeqProperties
      <4>3. (IF b <= n THEN n - b + 1 ELSE 0) = n - b + 1
        BY <1>1, <1>3
      <4> QED
        BY <1>2, <4>2, <4>3
    <3>2. n - b + 1 = n - a /\ \A i \in 1..(n - a) : b + i - 1 = i + a
      BY <1>1, <1>3
    <3> QED
      BY <3>1, <3>2
  <2> QED
    BY <2>2, <2>3
<1>6. Kids(node) = {s[i] : i \in 1..n}
  BY DEF Kids, s, n
<1>7. Kids(left) = {s[i] : i \in 1..a}
  BY <1>5, ZenonT(30) DEF Kids
<1>8. \A i \in 1..(n - a) : i + a \in 1..n /\ i + a > a
  BY <1>1, <1>3
<1>9. ASSUME NEW q \in Kids(right) PROVE \E i \in 1..n : q = s[i] /\ i > a
  BY <1>5, <1>8, ZenonT(30) DEF Kids
<1>10. \A i \in 1..a : i \in 1..n /\ i <= a
  BY <1>1, <1>3
<1>11. Kids(left) \cup Kids(right) \subseteq Kids(node)
  BY <1>6, <1>7, <1>9, <1>10
<1>12. Kids(left) \cap Kids(right) = {}
  <2>1. SUFFICES ASSUME NEW i \in 1..a, NEW j \in 1..n, j > a, s[i] = s[j] PROVE FALSE
    BY <1>7, <1>9
  <2>2. i = j
    BY <1>1, <1>10, <2>1 DEF Distinct
  <2> QED
    BY <1>1, <1>3, <2>1, <2>2
<1> QED
  BY <1>4, <1>11, <1>12

\* The halves of an internal node.
LEMMA InternalHalves ==
    ASSUME NEW node \in Node, ~ node.leaf, Len(node.keys) = Degree, Len(node.children) = Degree + 1,
           Distinct(node.children), NEW new \in Pid, NEW half, half = Split(node, new)
    PROVE  /\ Good(half.left) /\ ~ half.left.leaf /\ Len(half.left.keys) >= MinKeys(half.left)
           /\ Distinct(half.left.children)
           /\ Good(half.right) /\ ~ half.right.leaf /\ Len(half.right.keys) >= MinKeys(half.right)
           /\ Distinct(half.right.children)
           /\ Kids(half.left) \cup Kids(half.right) \subseteq Kids(node)
           /\ Kids(half.left) \cap Kids(half.right) = {}
           /\ half.up \in Key
<1> DEFINE m == Degree \div 2
           left == half.left
           right == half.right
<1>1. /\ Good(left) /\ ~ left.leaf /\ left.children = SubSeq(node.children, 1, m + 1)
      /\ Good(right) /\ ~ right.leaf /\ right.children = SubSeq(node.children, m + 2, Degree + 1)
      /\ Len(left.keys) >= MinKeys(left) /\ Len(right.keys) >= MinKeys(right)
      /\ half.up \in Key
  BY SplitInternal
<1>2. m \in Nat /\ m + 1 <= Degree + 1
  BY DegreeHalves
<1> HIDE DEF m, left, right
<1>3. node.children \in Seq(Pid)
  BY NodeParts
<1>4. right.children = SubSeq(node.children, m + 2, Len(node.children)) /\ m + 1 <= Len(node.children)
  BY <1>1, <1>2
<1>5. left.children = SubSeq(node.children, 1, m + 1)
  BY <1>1
<1>6. /\ Distinct(left.children) /\ Distinct(right.children)
      /\ Kids(left) \cup Kids(right) \subseteq Kids(node)
      /\ Kids(left) \cap Kids(right) = {}
  BY <1>2, <1>3, <1>4, <1>5, SplitChildren
<1> QED
  BY <1>1, <1>6 DEF left, right

\* A node that may have become too large, and may then be split.
Grown(F, p, node) ==
    /\ node \in Node
    /\ Len(node.keys) >= Len(F[p].keys) /\ Len(node.keys) <= Degree
    /\ IF node.leaf THEN Len(node.rids) = Len(node.keys) /\ node.children = <<>>
       ELSE Len(node.children) = Len(node.keys) + 1
    /\ Distinct(node.children)

\* What StoreOrSplit makes of the call.
Stores(F, o, o2, p, node, new, half) ==
    /\ p = Last(o.path).pid /\ new = Cardinality(DOMAIN F) /\ half = Split(node, new)
    /\ o2.root = o.root /\ o2.ix = o.ix
    /\ IF Len(node.keys) < Degree
       THEN /\ o2.do = "finish" /\ o2.path = o.path
            /\ o2.writes = <<[pid |-> p, node |-> node]>>
       ELSE /\ o2.do = "insert_up" /\ o2.path = Front(o.path) /\ o2.up = half.up /\ o2.child = new
            /\ o2.writes = <<[pid |-> p, node |-> half.left], [pid |-> new, node |-> half.right]>>

\* StoreOrSplit, with what it leaves to write.
LEMMA StoreOrSplitSound ==
    ASSUME NEW F, IsFile(F), NEW level, NEW up, NEW R, NEW o \in Call, Sound(F, level, up, R, o),
           o.do \in {"insert", "insert_up"}, o.path # <<>>, NEW p, NEW node, NEW new, NEW half, NEW o2,
           Stores(F, o, o2, p, node, new, half), Grown(F, p, node),
           NEW above, Prepared(F, level, up, R, p, node, above)
    PROVE  /\ o2.path \in Seq(Frame) /\ o2.writes \in Seq(Write)
           /\ Len(node.keys) >= Degree => o2.up \in Key /\ new \in Pid
           /\ \E G, height, over : OnDisk(F, o2.writes, G) /\ Sound(G, height, over, R, o2)
<1> USE DEF Grown, Stores
<1>1. Tree(F, level, up) /\ Branch(F, level, up, o.root, o.path) /\ o.path \in Seq(Frame)
  BY CallParts DEF Sound, Progress
<1>2. p \in DOMAIN F /\ p \in Pid
  BY <1>1, TopParts
<1>3. Front(o.path) \in Seq(Frame)
  BY <1>1, PathFront
<1>4. /\ Len(node.keys) \in Nat /\ node.children \in Seq(Pid) /\ node.leaf \in BOOLEAN /\ Degree \in Nat
      /\ Len(node.rids) \in Nat /\ Len(node.children) \in Nat
  BY NodeParts, DegreeHalves
<1>5. CASE Len(node.keys) < Degree
  <2>1. Good(node)
    BY <1>5 DEF Good
  <2>2. Sound(Put(F, p, node), level, above, R, o2)
    BY <1>5, <2>1, StoreSound
  <2>3. OnDisk(F, o2.writes, Put(F, p, node))
    BY <1>2, <1>5, <2>1, OnePlanned
  <2>4. o2.writes \in Seq(Write)
    <3>1. [pid |-> p, node |-> node] \in Write
      BY <1>2 DEF Write
    <3>2. <<[pid |-> p, node |-> node]>> \in Seq(Write)
      BY <3>1
    <3>3. o2.writes = <<[pid |-> p, node |-> node]>>
      BY <1>5
    <3> QED
      BY <3>2, <3>3, Zenon
  <2> QED
    BY <1>1, <1>4, <1>5, <2>2, <2>3, <2>4
<1>6. CASE ~(Len(node.keys) < Degree)
  <2>1. Len(node.keys) = Degree
    BY <1>4, <1>6
  <2>2. new \in Pid /\ new \notin DOMAIN F /\ p # new
    BY <1>2, FileExtent DEF Pid
  <2> DEFINE left == half.left
             right == half.right
  <2>3. /\ Good(left) /\ left.leaf = node.leaf /\ Len(left.keys) >= MinKeys(left) /\ Distinct(left.children)
        /\ Good(right) /\ right.leaf = node.leaf /\ Len(right.keys) >= MinKeys(right) /\ Distinct(right.children)
        /\ Kids(left) \cup Kids(right) \subseteq Kids(node) /\ Kids(left) \cap Kids(right) = {}
        /\ half.up \in Key
    <3>1. CASE node.leaf
      <4>1. /\ Good(left) /\ left.leaf /\ Len(left.keys) >= MinKeys(left)
            /\ Good(right) /\ right.leaf /\ Len(right.keys) >= MinKeys(right)
            /\ half.up \in Key
        BY <2>1, <2>2, <3>1, SplitLeaf
      <4>2. left.children = <<>> /\ right.children = <<>> /\ left.leaf \in BOOLEAN /\ right.leaf \in BOOLEAN
        BY <4>1, NodeParts DEF Good
      <4>3. Kids(left) = {} /\ Kids(right) = {} /\ Distinct(left.children) /\ Distinct(right.children)
        BY <4>2 DEF Kids, Distinct
      <4> QED
        BY <1>4, <3>1, <4>1, <4>2, <4>3
    <3>2. CASE ~ node.leaf
      <4>1. Len(node.children) = Degree + 1
        BY <2>1, <3>2
      <4>2. /\ Good(left) /\ ~ left.leaf /\ Len(left.keys) >= MinKeys(left) /\ Distinct(left.children)
            /\ Good(right) /\ ~ right.leaf /\ Len(right.keys) >= MinKeys(right) /\ Distinct(right.children)
            /\ Kids(left) \cup Kids(right) \subseteq Kids(node) /\ Kids(left) \cap Kids(right) = {}
            /\ half.up \in Key
        BY <2>1, <2>2, <3>2, <4>1, InternalHalves
      <4>3. left.leaf \in BOOLEAN /\ right.leaf \in BOOLEAN
        BY <4>2, NodeParts DEF Good
      <4> QED
        BY <1>4, <3>2, <4>2, <4>3
    <3> QED
      BY <3>1, <3>2
  <2>4. /\ o2.do = "insert_up" /\ o2.path = Front(o.path) /\ o2.up \in Key /\ o2.child = new
        /\ o2.writes = <<[pid |-> p, node |-> left], [pid |-> new, node |-> right]>>
    BY <1>6, <2>3
  <2> HIDE DEF left, right
  <2>5. \E height, over : Sound(Put(Put(F, p, left), new, right), height, over, R, o2)
    BY <2>3, <2>4, SplitSound
  <2>6. OnDisk(F, o2.writes, Put(Put(F, p, left), new, right))
    BY <1>2, <2>2, <2>3, <2>4, TwoPlanned
  <2>7. o2.writes \in Seq(Write)
    <3>1. left \in Node /\ right \in Node
      BY <2>3 DEF Good
    <3>2. [pid |-> p, node |-> left] \in Write /\ [pid |-> new, node |-> right] \in Write
      BY <1>2, <2>2, <3>1 DEF Write
    <3> QED
      BY <2>4, <3>2
  <2> QED
    BY <1>3, <2>2, <2>4, <2>5, <2>6, <2>7
<1> QED
  BY <1>5, <1>6

\* What GrowRoot makes of the call.
Grows(F, o, o2, ix, new, node) ==
    /\ new = Cardinality(DOMAIN F) /\ node = Internal(<<o.up>>, <<o.root, o.child>>)
    /\ o2.do = "finish" /\ o2.path = <<>> /\ o2.root = new /\ o2.ix = ix
    /\ o2.writes = <<[pid |-> new, node |-> node]>>

\* insert after a split of the root.
LEMMA GrowRootSound ==
    ASSUME NEW F, IsFile(F), NEW level, NEW up, NEW R, NEW o \in Call, Sound(F, level, up, R, o),
           o.do = "insert_up", o.path = <<>>, NEW ix \in Index, R[ix] = o.root,
           NEW new, NEW node, NEW o2, Grows(F, o, o2, ix, new, node)
    PROVE  /\ o2.writes \in Seq(Write) /\ new \in Pid
           /\ \E G, height, over : OnDisk(F, o2.writes, G) /\ Sound(G, height, over, [R EXCEPT ![ix] = new], o2)
<1> USE DEF Grows
<1>1. /\ Tree(F, level, up) /\ Rooted(R, up) /\ Filled(F, up, o) /\ RootsFilled(F, R, o)
      /\ Carries(F, level, up, R, o)
  BY DEF Sound, Progress
<1> DEFINE root == o.root
           child == o.child
<1>2. /\ o.up \in Key /\ child \in DOMAIN up /\ up[child] = None /\ \A jx \in Index : R[jx] # child
      /\ level[child] = level[root] /\ Len(F[child].keys) >= MinKeys(F[child])
      /\ Len(F[root].keys) >= MinKeys(F[root])
  <2>1. /\ o.up \in Key /\ child \in DOMAIN up /\ up[child] = None /\ \A jx \in Index : R[jx] # child
        /\ level[child] + Len(<<>>) = level[root] /\ Len(F[child].keys) >= MinKeys(F[child])
        /\ Len(F[root].keys) >= MinKeys(F[root])
    BY <1>1 DEF Carries
  <2>2. level[child] \in Nat /\ Len(<<>>) = 0
    BY <1>1, <2>1, TreeDomain
  <2> QED
    BY <2>1, <2>2
<1>3. root \in DOMAIN up /\ up[root] = None /\ root # child
  BY <1>1, <1>2 DEF Rooted
<1>4. root \in Pid /\ child \in Pid /\ level[root] \in Nat /\ root \in DOMAIN F /\ child \in DOMAIN F
      /\ DOMAIN up \subseteq DOMAIN F
  BY <1>1, <1>2, <1>3, TreeDomain DEF Tree
<1>5. new \in Pid /\ new \notin DOMAIN F /\ new # None
  BY FileExtent DEF Pid, None
<1>6. /\ Good(node) /\ node.leaf = FALSE /\ node.children = <<root, child>> /\ Len(node.keys) = 1
  <2>1. <<o.up>> \in Seq(Key) /\ Len(<<o.up>>) = 1
    BY <1>2
  <2>2. <<root, child>> \in Seq(Pid) /\ Len(<<root, child>>) = 2
    BY <1>4
  <2>3. <<>> \in Seq(Seq(Rid))
    OBVIOUS
  <2>4. node \in Node
    BY <2>1, <2>2, <2>3 DEF Node, Internal
  <2>5. 1 < Degree
    BY DegreeHalves
  <2> QED
    BY <2>1, <2>2, <2>4, <2>5 DEF Good, Internal
<1>7. node \in Node
  BY <1>6 DEF Good
<1> HIDE DEF root, child
<1> DEFINE blank == [leaf |-> FALSE, children |-> <<>>]
           one == [leaf |-> FALSE, children |-> <<root>>]
           F0 == Put(F, new, blank)
           F1 == Put(F0, new, one)
           G == Put(F, new, node)
           height == Put(level, new, level[root] + 1)
           up0 == Put(up, new, None)
           up1 == Put(up0, root, new)
           over == Put(up1, child, new)
           S == [R EXCEPT ![ix] = new]
<1>8. /\ DOMAIN height = DOMAIN F \cup {new} /\ height[new] = level[root] + 1
      /\ \A q \in DOMAIN F : height[q] = level[q]
  BY <1>1, <1>5 DEF Put, Tree
<1>9. /\ DOMAIN up0 = DOMAIN up \cup {new} /\ up0[new] = None /\ \A q \in DOMAIN up : up0[q] = up[q]
  BY <1>4, <1>5 DEF Put
<1>10. /\ DOMAIN up1 = DOMAIN up \cup {new} /\ up1[new] = None /\ up1[root] = new
       /\ \A q \in DOMAIN up : q # root => up1[q] = up[q]
  BY <1>3, <1>4, <1>5, <1>9 DEF Put
<1>11. /\ DOMAIN over = DOMAIN up \cup {new} /\ over[new] = None /\ over[root] = new /\ over[child] = new
       /\ \A q \in DOMAIN up : q # root /\ q # child => over[q] = up[q]
  BY <1>2, <1>3, <1>4, <1>5, <1>10 DEF Put
<1>12. Put(F1, new, node) = G
  BY DEF Put
<1>13. F0[new] = blank /\ F1[new] = one
  BY DEF Put
<1>14. /\ blank.leaf = FALSE /\ blank.children = <<>> /\ one.leaf = FALSE /\ one.children = <<root>>
  OBVIOUS
<1>15. /\ Kids(blank) = {} /\ Kids(one) = {root} /\ Kids(node) = {root, child}
       /\ Distinct(one.children) /\ Distinct(node.children)
  BY <1>3, <1>6, <1>14 DEF Kids, Distinct
<1>16. level[root] + 1 \in Nat /\ level[root] + 1 # 0
  BY <1>4
<1> HIDE DEF blank, one
<1>17. Tree(F0, height, up0)
  <2>1. blank.leaf = (level[root] + 1 = 0)
    BY <1>14, <1>16
  <2> DEFINE m == level[root] + 1
  <2>2. m \in Nat /\ blank.leaf = (m = 0)
    BY <1>16, <2>1
  <2> HIDE DEF m
  <2>3. Tree(Put(F, new, blank), Put(level, new, m), Put(up, new, None))
    BY <1>1, <1>5, <1>14, <2>2, TreeExtended
  <2> QED
    BY <2>3 DEF m
<1> HIDE DEF F0, F1, G, height, up0, up1, over, S
<1>18. Tree(F1, height, up1)
  <2>1. /\ new \in DOMAIN up0 /\ root \in DOMAIN up0 /\ up0[root] = None /\ height[root] + 1 = height[new]
        /\ one.leaf = F0[new].leaf /\ Kids(one) \subseteq Kids(F0[new]) \cup {root}
    BY <1>3, <1>4, <1>8, <1>9, <1>13, <1>14, <1>15
  <2> QED
    BY <1>15, <1>17, <2>1, TreeAdopted DEF F1, up1
<1>19. Tree(G, height, over)
  <2>1. /\ new \in DOMAIN up1 /\ child \in DOMAIN up1 /\ up1[child] = None /\ height[child] + 1 = height[new]
        /\ node.leaf = F1[new].leaf /\ Kids(node) \subseteq Kids(F1[new]) \cup {child}
    BY <1>2, <1>3, <1>4, <1>6, <1>8, <1>10, <1>13, <1>14, <1>15
  <2>2. Tree(Put(F1, new, node), height, Put(up1, child, new))
    BY <1>15, <1>18, <2>1, TreeAdopted
  <2> QED
    BY <1>12, <2>2 DEF over
<1>20. G[new] = node /\ \A q \in DOMAIN F : G[q] = F[q]
  BY <1>5 DEF G, Put
<1>21. /\ DOMAIN S = Index /\ S[ix] = new /\ \A jx \in Index : jx # ix => S[jx] = R[jx]
  BY <1>1 DEF S, Rooted
<1>22. Rooted(S, over)
  <2>1. \A jx \in Index : jx # ix => S[jx] \in DOMAIN up /\ up[S[jx]] = None /\ S[jx] # root /\ S[jx] # child
    BY <1>1, <1>2, <1>21 DEF Rooted, root
  <2>2. \A jx \in Index : jx # ix => S[jx] # new
    BY <1>4, <1>5, <2>1
  <2> QED
    BY <1>1, <1>11, <1>21, <2>1, <2>2 DEF Rooted
<1>23. Filled(G, over, o2)
  <2>1. SUFFICES ASSUME NEW q \in DOMAIN over, over[q] # None
                 PROVE  Len(G[q].keys) >= MinKeys(G[q])
    BY DEF Filled
  <2>2. q \in DOMAIN up /\ q # new
    BY <1>11, <2>1
  <2>3. Len(F[q].keys) >= MinKeys(F[q])
    <3>1. CASE q = root \/ q = child
      BY <1>2, <3>1 DEF root, child
    <3>2. CASE q # root /\ q # child
      BY <1>1, <1>11, <2>1, <2>2, <3>2 DEF Filled, Mending
    <3> QED
      BY <3>1, <3>2
  <2> QED
    BY <1>4, <1>20, <2>2, <2>3
<1>24. RootsFilled(G, S, o2)
  <2>1. SUFFICES ASSUME NEW jx \in Index PROVE G[S[jx]].leaf \/ Len(G[S[jx]].keys) >= 1
    BY DEF RootsFilled
  <2>2. CASE jx = ix
    BY <1>6, <1>20, <1>21, <2>2
  <2>3. CASE jx # ix
    <3>1. F[R[jx]].leaf \/ Len(F[R[jx]].keys) >= 1
      BY <1>1 DEF RootsFilled
    <3> QED
      BY <1>1, <1>4, <1>20, <1>21, <2>3, <3>1 DEF Rooted
  <2> QED
    BY <2>2, <2>3
<1>25. Progress(G, height, over, S, o2)
  BY DEF Progress, Branch
<1>26. Sound(G, height, over, S, o2)
  BY <1>19, <1>22, <1>23, <1>24, <1>25 DEF Sound
<1>27. OnDisk(F, o2.writes, G)
  BY <1>6, OnePlanned DEF G
<1>28. o2.writes \in Seq(Write)
  <2>1. [pid |-> new, node |-> node] \in Write
    BY <1>5, <1>7 DEF Write
  <2> QED
    BY <2>1
<1> QED
  BY <1>5, <1>26, <1>27, <1>28 DEF S

LEMMA SoundParts ==
    ASSUME NEW F, NEW level, NEW up, NEW R, NEW o \in Call, Sound(F, level, up, R, o), o.do # "idle"
    PROVE  /\ Tree(F, level, up) /\ Rooted(R, up) /\ Filled(F, up, o) /\ RootsFilled(F, R, o)
           /\ Branch(F, level, up, o.root, o.path) /\ o.path \in Seq(Frame)
BY CallParts DEF Sound, Progress

\* The call returns to the parent of a node that has keys enough.
LEMMA PopSound ==
    ASSUME NEW F, IsFile(F), NEW level, NEW up, NEW R, NEW o \in Call, Sound(F, level, up, R, o),
           o.do \in {"remove", "leave_leaf", "unwind"}, o.path # <<>>, o.ix \in Index, R[o.ix] = o.root,
           NEW p, p = Last(o.path).pid, o.do = "unwind" => p = o.root \/ Len(F[p].keys) >= MinKeys(F[p]),
           NEW o2, o2.do = "unwind", o2.path = Front(o.path), o2.root = o.root, o2.ix = o.ix
    PROVE  o2.path \in Seq(Frame) /\ Sound(F, level, up, R, o2)
<1>1. /\ Tree(F, level, up) /\ Rooted(R, up) /\ Filled(F, up, o) /\ RootsFilled(F, R, o)
      /\ Branch(F, level, up, o.root, o.path) /\ o.path \in Seq(Frame)
  BY SoundParts
<1>2. Branch(F, level, up, o.root, Front(o.path)) /\ Front(o.path) \in Seq(Frame)
  <2>1. \A k \in 1..(Len(o.path) - 2) : F[o.path[k].pid] = F[o.path[k].pid]
    OBVIOUS
  <2>2. \A k \in 1..(Len(o.path) - 1) : o.path[k].pid \in DOMAIN up /\ level[o.path[k].pid] = level[o.path[k].pid]
    BY <1>1, AboveTop
  <2> QED
    BY <1>1, <2>1, <2>2, BranchFront DEF SameAbove
<1>3. Progress(F, level, up, R, o2)
  BY <1>2 DEF Progress
<1>4. Filled(F, up, o2)
  <2>1. SUFFICES ASSUME NEW q \in DOMAIN up, up[q] # None PROVE Len(F[q].keys) >= MinKeys(F[q])
    BY DEF Filled
  <2>2. CASE o.do = "unwind" /\ q = p
    BY <1>1, <2>1, <2>2 DEF Rooted
  <2>3. CASE ~(o.do = "unwind" /\ q = p)
    BY <1>1, <2>1, <2>3 DEF Filled, Mending
  <2> QED
    BY <2>2, <2>3
<1>5. RootsFilled(F, R, o2)
  <2>1. Len(o.path) <= 1 => Len(o2.path) <= 1
    BY <1>1, PathFront
  <2> QED
    BY <1>1, <2>1 DEF RootsFilled
<1> QED
  BY <1>1, <1>2, <1>3, <1>4, <1>5 DEF Sound

\* What RemoveFromLeaf makes of a call that has found its entry.
Takes(o, o2, p, node) ==
    /\ p = Last(o.path).pid
    /\ o2.root = o.root /\ o2.ix = o.ix /\ o2.path = Renewed(o.path, node)
    /\ o2.writes = <<[pid |-> p, node |-> node]>>
    /\ o2.do = IF p = o.root THEN "leave_leaf"
               ELSE IF Len(node.keys) < MinKeys(node) THEN "underflow"
               ELSE IF o.path[Len(o.path) - 1].i > 1 THEN "separate"
               ELSE "leave_leaf"

\* deleteEntry has taken an entry out of the leaf.
LEMMA LeafWritten ==
    ASSUME NEW F, IsFile(F), NEW level, NEW up, NEW R, NEW o \in Call, Sound(F, level, up, R, o),
           o.do = "remove", o.ix \in Index, R[o.ix] = o.root,
           NEW p, NEW node, Good(node), node.leaf, Len(node.keys) + 1 >= Len(F[p].keys),
           NEW o2, Takes(o, o2, p, node)
    PROVE  /\ o2.path \in Seq(Frame) /\ o2.writes \in Seq(Write)
           /\ OnDisk(F, o2.writes, Put(F, p, node)) /\ Sound(Put(F, p, node), level, up, R, o2)
<1> USE DEF Takes
<1> DEFINE G == Put(F, p, node)
           n == Len(o.path)
           more == Renewed(o.path, node)
<1>1. /\ Tree(F, level, up) /\ Rooted(R, up) /\ Filled(F, up, o) /\ RootsFilled(F, R, o)
      /\ Branch(F, level, up, o.root, o.path) /\ o.path \in Seq(Frame)
  BY SoundParts
<1>2. o.path # <<>> /\ F[p].leaf
  BY DEF Sound, Progress, TopRead
<1>3. /\ p \in DOMAIN up /\ p \in DOMAIN F /\ p \in Pid /\ Good(F[p])
      /\ DOMAIN up \subseteq DOMAIN F /\ n \in Nat /\ n >= 1
      /\ Len(F[p].keys) \in Nat /\ MinKeys(F[p]) \in Nat /\ MinKeys(F[p]) >= 1
      /\ n = 1 => p = o.root
  BY <1>1, <1>2, TopParts
<1>4. node \in Node /\ node.children = <<>> /\ F[p].children = <<>> /\ node.leaf = F[p].leaf
      /\ MinKeys(node) = MinKeys(F[p]) /\ Len(node.keys) \in Nat
  <2>1. node \in Node /\ F[p] \in Node /\ node.children = <<>> /\ F[p].children = <<>>
    BY <1>2, <1>3 DEF Good
  <2>2. node.leaf = TRUE /\ F[p].leaf = TRUE /\ Len(node.keys) \in Nat
    BY <1>2, <2>1, NodeParts
  <2> QED
    BY <2>1, <2>2 DEF MinKeys
<1>5. /\ more \in Seq(Frame) /\ more # <<>> /\ Len(more) = n
      /\ \A k \in 1..n : more[k].pid = o.path[k].pid /\ more[k].i = o.path[k].i
      /\ \A k \in 1..(n - 1) : more[k] = o.path[k]
      /\ Last(more).node = node /\ Last(more).pid = p
  BY <1>1, <1>2, <1>4, RenewedProperties
<1>6. Tree(G, level, up)
  BY <1>1, <1>3, <1>4, TreeRewritten
<1>7. G[p] = node /\ \A q \in DOMAIN F : q # p => G[q] = F[q]
  BY <1>3 DEF Put
<1> HIDE DEF more, G
<1>8. Branch(G, level, up, o.root, more)
  <2>1. \A k \in 1..(n - 1) : o.path[k].pid \in DOMAIN F /\ o.path[k].pid # p
    BY <1>1, <1>2, AboveTop
  <2>2. \A k \in 1..(Len(o.path) - 1) : G[o.path[k].pid] = F[o.path[k].pid]
    BY <1>7, <2>1
  <2>3. Branch(G, level, up, o.root, Renewed(o.path, node))
    BY <1>1, <1>2, <1>4, <2>2, BranchRenewed, Zenon
  <2> QED
    BY <2>3 DEF more
<1>9. o2.path = more /\ o2.path # <<>> /\ TopRead(G, o2) /\ Last(o2.path).pid = p
  BY <1>5, <1>7 DEF TopRead, more
<1>10. p # o.root => n > 1 /\ n - 1 \in 1..n
  <2> HIDE DEF n
  <2>1. n \in Nat /\ n >= 1 /\ n # 1 => n > 1 /\ n - 1 \in 1..n
    OBVIOUS
  <2> QED
    BY <1>3, <2>1
<1>11. Progress(G, level, up, R, o2)
  <2>1. o2.do = "separate" => /\ G[p].keys # <<>> /\ Len(o2.path) > 1
                              /\ o2.path[Len(o2.path) - 1].i > 1
    <3>1. SUFFICES ASSUME o2.do = "separate" PROVE G[p].keys # <<>> /\ n > 1 /\ more[n - 1].i > 1
      BY <1>5, <1>9
    <3>2. p # o.root /\ ~(Len(node.keys) < MinKeys(node)) /\ o.path[n - 1].i > 1
      BY <3>1
    <3>3. node.keys # <<>>
      BY <1>3, <1>4, <3>2
    <3> QED
      BY <1>5, <1>7, <1>10, <3>2, <3>3
  <2>2. o2.do = "underflow" => Len(o2.path) > 1 /\ Len(G[p].keys) < MinKeys(G[p])
    BY <1>5, <1>7, <1>9, <1>10
  <2>3. o2.do \in {"leave_leaf", "underflow", "separate"}
    OBVIOUS
  <2> QED
    BY <1>8, <1>9, <2>1, <2>2, <2>3 DEF Progress
<1>12. Filled(G, up, o2)
  <2>1. SUFFICES ASSUME NEW q \in DOMAIN up, up[q] # None
                 PROVE  \/ Len(G[q].keys) >= MinKeys(G[q])
                        \/ Mending(o2, q) /\ Len(G[q].keys) + 1 >= MinKeys(G[q])
    BY DEF Filled
  <2>2. Len(F[q].keys) >= MinKeys(F[q])
    BY <1>1, <2>1 DEF Filled, Mending
  <2>3. CASE q # p
    BY <1>3, <1>7, <2>2, <2>3
  <2>4. CASE q = p
    <3>1. p # o.root
      BY <1>1, <2>1, <2>4 DEF Rooted
    <3>2. Len(node.keys) + 1 >= MinKeys(node)
      BY <1>3, <1>4, <2>2, <2>4
    <3>3. CASE Len(node.keys) < MinKeys(node)
      <4>1. Mending(o2, p)
        BY <1>9, <3>1, <3>3 DEF Mending
      <4> QED
        BY <1>7, <2>4, <3>2, <4>1
    <3>4. CASE ~(Len(node.keys) < MinKeys(node))
      BY <1>3, <1>4, <1>7, <2>4, <3>4
    <3> QED
      BY <3>3, <3>4
  <2> QED
    BY <2>3, <2>4
<1>13. RootsFilled(G, R, o2)
  <2>1. SUFFICES ASSUME NEW ix \in Index PROVE G[R[ix]].leaf \/ Len(G[R[ix]].keys) >= 1
    BY DEF RootsFilled
  <2>2. F[R[ix]].leaf \/ Len(F[R[ix]].keys) >= 1
    BY <1>1 DEF RootsFilled
  <2>3. R[ix] \in DOMAIN F
    BY <1>1, <1>3 DEF Rooted
  <2> QED
    BY <1>7, <2>2, <2>3
<1>14. Sound(G, level, up, R, o2)
  BY <1>1, <1>6, <1>11, <1>12, <1>13 DEF Sound
<1>15. OnDisk(F, o2.writes, G)
  BY <1>3, OnePlanned DEF G
<1>16. o2.writes \in Seq(Write)
  <2>1. [pid |-> p, node |-> node] \in Write
    BY <1>3, <1>4 DEF Write
  <2> QED
    BY <2>1
<1> QED
  BY <1>5, <1>9, <1>14, <1>15, <1>16 DEF G

\* The last frame but one: the parent of the last.
LEMMA ParentParts ==
    ASSUME NEW F, IsFile(F), NEW level, NEW up, Tree(F, level, up), NEW root, NEW path \in Seq(Frame),
           Branch(F, level, up, root, path), NEW n, n = Len(path), n > 1,
           NEW p, p = Last(path).pid, NEW q, q = path[n - 1].pid, NEW i, i = path[n - 1].i
    PROVE  /\ n \in Nat /\ n - 1 \in 1..n /\ path # <<>> /\ Front(path) # <<>> /\ Last(Front(path)).pid = q
           /\ Len(Front(path)) = n - 1
           /\ q \in DOMAIN up /\ q \in DOMAIN F /\ q \in Pid /\ q # None /\ q # p
           /\ p \in DOMAIN up /\ p \in DOMAIN F /\ p \in Pid
           /\ ~ F[q].leaf /\ Good(F[q])
           /\ i \in 1..Len(F[q].children) /\ F[q].children[i] = p /\ up[p] = q
           /\ level[p] + 1 = level[q] /\ level[p] \in Nat /\ level[q] \in Nat
           /\ up[q] = None => n = 2
           /\ n = 2 => q = root
<1>1. /\ n \in Nat /\ n - 1 \in 1..n /\ n - 1 \in 1..(n - 1) /\ n \in 1..n /\ (n - 1) + 1 = n
      /\ path # <<>> /\ Front(path) # <<>> /\ Last(Front(path)) = path[n - 1] /\ Last(path) = path[n]
      /\ Len(Front(path)) = n - 1
  <2>1. n \in Nat
    OBVIOUS
  <2>2. n - 1 \in 1..n /\ n - 1 \in 1..(n - 1) /\ n \in 1..n /\ (n - 1) + 1 = n
    BY <2>1
  <2>3. /\ path # <<>> /\ Front(path) # <<>> /\ Last(Front(path)) = path[n - 1]
    BY FrontLast
  <2>4. Last(path) = path[n] /\ Len(Front(path)) = n - 1
    BY <2>3, PathFront
  <2> QED
    BY <2>1, <2>2, <2>3, <2>4
<1> DEFINE k == n - 1
<1>2. k \in 1..(Len(path) - 1) /\ k + 1 = n
  BY <1>1
<1>3. q = path[k].pid /\ i = path[k].i /\ p = path[n].pid
  BY <1>1
<1> HIDE DEF k
<1>4. /\ path[k].pid \in DOMAIN up /\ path[n].pid \in DOMAIN up
      /\ path[k].i \in 1..Len(F[path[k].pid].children)
      /\ F[path[k].pid].children[path[k].i] = path[n].pid
      /\ up[path[n].pid] = path[k].pid
      /\ level[path[n].pid] + 1 = level[path[k].pid]
      /\ ~ F[path[k].pid].leaf
  BY <1>2, BranchParent
<1>5. q \in DOMAIN F /\ q \in Pid /\ level[q] \in Nat /\ Good(F[q])
  BY <1>3, <1>4, PageParts
<1>6. p \in DOMAIN F /\ p \in Pid /\ level[p] \in Nat
  BY <1>3, <1>4, PageParts
<1>7. q # p /\ q # None
  BY <1>3, <1>4, <1>5, <1>6 DEF Pid, None
<1>8. up[q] = None => n = 2
  <2>1. SUFFICES ASSUME n # 2 PROVE up[q] # None
    OBVIOUS
  <2> DEFINE j == n - 2
  <2>2. j \in 1..(Len(path) - 1) /\ j + 1 = k
    BY <1>1, <2>1 DEF k
  <2> HIDE DEF j
  <2>3. up[path[k].pid] # None
    <3>1. Follows(F, path[j], path[k].pid) /\ path[j].pid \in DOMAIN up
      <4>1. Follows(F, path[j], path[j + 1].pid)
        BY <2>2 DEF Branch
      <4>2. j \in 1..Len(path)
        BY <2>2, SMTT(30)
      <4>3. path[j].pid \in DOMAIN up
        BY <4>2, SMTT(30) DEF Branch
      <4> QED
        BY <2>2, <4>1, <4>3
    <3>2. path[k].pid \in Kids(F[path[j].pid])
      BY <3>1 DEF Follows, Kids
    <3>3. up[path[k].pid] = path[j].pid
      BY <3>1, <3>2 DEF Tree
    <3>4. path[j].pid \in Pid
      BY <3>1, TreeDomain
    <3> QED
      BY <3>3, <3>4 DEF Pid, None
  <2> QED
    BY <1>3, <2>3
<1>9. n = 2 => q = root
  BY <1>2, <1>3, <1>1 DEF Branch
<1> QED
  BY <1>1, <1>3, <1>4, <1>5, <1>6, <1>7, <1>8, <1>9

\* The frames above the last but one.
LEMMA AboveParent ==
    ASSUME NEW F, NEW level, NEW up, Tree(F, level, up), NEW root, NEW path \in Seq(Frame),
           Branch(F, level, up, root, path), NEW n, n = Len(path), NEW k \in 1..(n - 2),
           NEW q, q = path[n - 1].pid
    PROVE  /\ path[k].pid \in DOMAIN up /\ path[k].pid \in DOMAIN F
           /\ path[k].pid # q /\ level[path[k].pid] > level[q]
<1> DEFINE m == n - 1
<1>1. k \in 1..Len(path) /\ m \in 1..Len(path) /\ k < m /\ q = path[m].pid
  <2>1. Len(path) \in Nat
    OBVIOUS
  <2> QED
    BY <2>1
<1> HIDE DEF m
<1>2. level[path[k].pid] > level[path[m].pid] /\ path[k].pid # path[m].pid
  BY <1>1, BranchLevels
<1>3. path[k].pid \in DOMAIN up
  BY <1>1 DEF Branch
<1>4. path[k].pid \in DOMAIN F
  BY <1>3, TreeDomain
<1> QED
  BY <1>1, <1>2, <1>3, <1>4

\* A parent with a new separator.
LEMMA NewSeparator ==
    ASSUME NEW parent, Good(parent), ~ parent.leaf, NEW s \in 1..Len(parent.keys), NEW key \in Key,
           NEW node, node = WithSeparator(parent, s, key)
    PROVE  /\ Good(node) /\ ~ node.leaf /\ Len(node.keys) = Len(parent.keys) /\ node.children = parent.children
           /\ node.leaf = parent.leaf /\ MinKeys(node) = MinKeys(parent)
<1>1. Good(node) /\ ~ node.leaf /\ Len(node.keys) = Len(parent.keys) /\ node.children = parent.children
  BY WithSeparatorNode, ZenonT(30)
<1>2. node.leaf \in BOOLEAN /\ parent.leaf \in BOOLEAN
  BY <1>1, NodeParts, SMTT(30) DEF Good
<1> QED
  BY <1>1, <1>2 DEF MinKeys

\* The leaf has a new first key, the parent a new separator.
LEMMA SeparateSound ==
    ASSUME NEW F, IsFile(F), NEW level, NEW up, NEW R, NEW o \in Call, Sound(F, level, up, R, o),
           o.do = "separate", o.ix \in Index, R[o.ix] = o.root,
           NEW n, n = Len(o.path), NEW p, p = Last(o.path).pid,
           NEW q, q = o.path[n - 1].pid, NEW i, i = o.path[n - 1].i,
           NEW node, node = WithSeparator(F[q], i - 1, Last(o.path).node.keys[1]),
           NEW o2, o2.root = o.root, o2.ix = o.ix, o2.path = Front(o.path), o2.do = "unwind",
           o2.writes = <<[pid |-> q, node |-> node]>>
    PROVE  /\ o2.path \in Seq(Frame) /\ o2.writes \in Seq(Write)
           /\ OnDisk(F, o2.writes, Put(F, q, node)) /\ Sound(Put(F, q, node), level, up, R, o2)
<1> DEFINE G == Put(F, q, node)
<1>1. /\ Tree(F, level, up) /\ Rooted(R, up) /\ Filled(F, up, o) /\ RootsFilled(F, R, o)
      /\ Branch(F, level, up, o.root, o.path) /\ o.path \in Seq(Frame)
  BY SoundParts
<1>2. Last(o.path).node = F[p] /\ F[p].keys # <<>> /\ n > 1 /\ i > 1
  BY DEF Sound, Progress, TopRead
<1>3. /\ n \in Nat /\ o.path # <<>> /\ Front(o.path) # <<>> /\ Last(Front(o.path)).pid = q
      /\ q \in DOMAIN up /\ q \in DOMAIN F /\ q \in Pid /\ p \in DOMAIN up
      /\ ~ F[q].leaf /\ Good(F[q])
      /\ i \in 1..Len(F[q].children)
  <2>0. Tree(F, level, up) /\ Branch(F, level, up, o.root, o.path) /\ o.path \in Seq(Frame)
    BY <1>1
  <2>1. n > 1
    BY <1>2
  <2>2. n \in Nat /\ o.path # <<>>
    BY <2>0, <2>1, ParentParts
  <2>3. q \in DOMAIN up /\ q \in DOMAIN F /\ q \in Pid /\ p \in DOMAIN up
    BY <2>0, <2>1, ParentParts
  <2>4. i \in 1..Len(F[q].children)
    BY <2>0, <2>1, ParentParts
  <2> QED
    BY <2>0, <2>1, ParentParts
<1>4. F[p].keys[1] \in Key
  <2>1. F[p] \in Node
    BY <1>1, <1>3, PageParts
  <2>2. F[p].keys \in Seq(Key)
    BY <2>1, NodeParts
  <2> QED
    BY <1>2, <2>2
<1> DEFINE s == i - 1
           key == F[p].keys[1]
<1>5. s \in 1..Len(F[q].keys)
  <2>1. Len(F[q].children) = Len(F[q].keys) + 1 /\ Len(F[q].keys) \in Nat
    <3>1. F[q] \in Node /\ Len(F[q].children) = Len(F[q].keys) + 1
      BY <1>3, Zenon DEF Good
    <3> QED
      BY <3>1, NodeParts
  <2> QED
    BY <1>2, <1>3, <2>1, SMTT(20)
<1>6. node = WithSeparator(F[q], s, key) /\ key \in Key
  BY <1>2, <1>4, SMTT(30)
<1> HIDE DEF s, key, G
<1>7. /\ Good(node) /\ ~ node.leaf /\ Len(node.keys) = Len(F[q].keys) /\ node.children = F[q].children
      /\ node.leaf = F[q].leaf /\ MinKeys(node) = MinKeys(F[q])
  BY <1>3, <1>5, <1>6, NewSeparator, Zenon, ZenonT(30)
<1>9. Tree(G, level, up)
  BY <1>1, <1>3, <1>7, TreeRewritten, SMTT(30) DEF G
<1>10. /\ \A x \in DOMAIN F : G[x].leaf = F[x].leaf /\ Len(G[x].keys) = Len(F[x].keys)
                              /\ MinKeys(G[x]) = MinKeys(F[x])
       /\ \A x \in DOMAIN F : x # q => G[x] = F[x]
  BY <1>3, <1>7, ZenonT(30) DEF G, Put
<1>11. DOMAIN up \subseteq DOMAIN F
  BY <1>1 DEF Tree
<1>12. Filled(G, up, o2)
  <2>1. SUFFICES ASSUME NEW x \in DOMAIN up, up[x] # None PROVE Len(G[x].keys) >= MinKeys(G[x])
    BY DEF Filled
  <2>2. Len(F[x].keys) >= MinKeys(F[x])
    BY <1>1, <2>1 DEF Filled, Mending
  <2> QED
    BY <1>10, <1>11, <2>2
<1>13. RootsFilled(G, R, o2)
  <2>1. SUFFICES ASSUME NEW ix \in Index PROVE G[R[ix]].leaf \/ Len(G[R[ix]].keys) >= 1
    BY DEF RootsFilled
  <2>2. F[R[ix]].leaf \/ Len(F[R[ix]].keys) >= 1
    BY <1>1 DEF RootsFilled
  <2>3. R[ix] \in DOMAIN F
    BY <1>1, <1>11 DEF Rooted
  <2> QED
    BY <1>10, <2>2, <2>3
<1>14. Branch(G, level, up, o.root, Front(o.path)) /\ Front(o.path) \in Seq(Frame)
  <2>1. \A k \in 1..(Len(o.path) - 2) : G[o.path[k].pid] = F[o.path[k].pid]
    <3>1. SUFFICES ASSUME NEW k \in 1..(n - 2) PROVE G[o.path[k].pid] = F[o.path[k].pid]
      BY <3>1
    <3>2. Tree(F, level, up) /\ Branch(F, level, up, o.root, o.path) /\ o.path \in Seq(Frame)
      BY <1>1
    <3>3. o.path[k].pid \in DOMAIN F /\ o.path[k].pid # q
      BY <3>2, AboveParent, SMTT(30)
    <3> QED
      BY <1>10, <3>3
  <2>2. \A k \in 1..(Len(o.path) - 1) : o.path[k].pid \in DOMAIN up /\ level[o.path[k].pid] = level[o.path[k].pid]
    BY <1>1, <1>3, AboveTop
  <2> QED
    BY <1>1, <1>3, <2>1, <2>2, BranchFront DEF SameAbove
<1>15. Progress(G, level, up, R, o2)
  BY <1>14 DEF Progress
<1>16. Sound(G, level, up, R, o2)
  BY <1>1, <1>9, <1>12, <1>13, <1>15 DEF Sound
<1>17. OnDisk(F, o2.writes, G)
  BY <1>3, <1>7, OnePlanned DEF G
<1>18. o2.writes \in Seq(Write)
  <2>1. [pid |-> q, node |-> node] \in Write
    BY <1>3, <1>7 DEF Write, Good
  <2> QED
    BY <2>1, SMTT(30)
<1> QED
  BY <1>14, <1>16, <1>17, <1>18, ZenonT(30) DEF G

\* What Unwind makes of the call where the node of the last frame is too small.
Rereads(F, o, o2, p) ==
    /\ p = Last(o.path).pid
    /\ o2.root = o.root /\ o2.ix = o.ix /\ o2.path = Renewed(o.path, F[p]) /\ o2.do = "underflow"

\* Back from a child, the node itself has too few keys now.
LEMMA RereadSound ==
    ASSUME NEW F, IsFile(F), NEW level, NEW up, NEW R, NEW o \in Call, Sound(F, level, up, R, o),
           o.do = "unwind", o.path # <<>>, o.ix \in Index, R[o.ix] = o.root,
           NEW p, p # o.root, Len(F[p].keys) < MinKeys(F[p]), NEW o2, Rereads(F, o, o2, p)
    PROVE  o2.path \in Seq(Frame) /\ Sound(F, level, up, R, o2)
<1> USE DEF Rereads
<1>1. /\ Tree(F, level, up) /\ Rooted(R, up) /\ Filled(F, up, o) /\ RootsFilled(F, R, o)
      /\ Branch(F, level, up, o.root, o.path) /\ o.path \in Seq(Frame)
  BY SoundParts
<1>2. /\ F[p] \in Node /\ Len(o.path) \in Nat /\ Len(o.path) > 1
  <2>1. Good(F[p]) /\ Len(o.path) \in Nat /\ Len(o.path) >= 1 /\ (Len(o.path) = 1 => p = o.root)
    BY <1>1, TopParts
  <2>2. F[p] \in Node
    BY <2>1 DEF Good
  <2>3. \A m \in Nat : m >= 1 /\ m # 1 => m > 1
    OBVIOUS
  <2> QED
    BY <2>1, <2>2, <2>3
<1>3. /\ o2.path \in Seq(Frame) /\ o2.path # <<>> /\ Len(o2.path) = Len(o.path)
      /\ Last(o2.path).node = F[p] /\ Last(o2.path).pid = p
  BY <1>1, <1>2, RenewedProperties
<1>4. Branch(F, level, up, o.root, o2.path)
  <2>1. \A k \in 1..(Len(o.path) - 1) : F[o.path[k].pid] = F[o.path[k].pid]
    OBVIOUS
  <2> QED
    BY <1>1, <1>2, <2>1, BranchRenewed
<1>5. TopRead(F, o2)
  BY <1>3 DEF TopRead
<1>6. Progress(F, level, up, R, o2)
  BY <1>2, <1>3, <1>4, <1>5 DEF Progress
<1>7. Filled(F, up, o2)
  BY <1>1, <1>3 DEF Filled, Mending
<1>8. RootsFilled(F, R, o2)
  BY <1>1, <1>2 DEF RootsFilled
<1> QED
  BY <1>1, <1>3, <1>6, <1>7, <1>8 DEF Sound

\* What ShrinkRoot makes of the call.
Shrinks(F, o, o2, ix, child) ==
    /\ child = IF ~ F[o.root].leaf /\ F[o.root].keys = <<>> THEN F[o.root].children[1] ELSE o.root
    /\ o2.root = child /\ o2.ix = ix /\ o2.path = <<>> /\ o2.do = "finish"

\* remove: the root, which may have lost its last key.
LEMMA ShrinkRootSound ==
    ASSUME NEW F, IsFile(F), NEW level, NEW up, NEW R, NEW o \in Call, Sound(F, level, up, R, o),
           o.do = "unwind", o.path = <<>>, NEW ix \in Index, o.ix = ix, R[ix] = o.root,
           NEW child, NEW o2, Shrinks(F, o, o2, ix, child)
    PROVE  /\ child \in Pid
           /\ \E above : Sound(F, level, above, [R EXCEPT ![ix] = child], o2)
<1> USE DEF Shrinks
<1> DEFINE p == o.root
           S == [R EXCEPT ![ix] = child]
<1>1. /\ Tree(F, level, up) /\ Rooted(R, up) /\ Filled(F, up, o) /\ RootsFilled(F, R, o)
  BY SoundParts
<1>2. p \in DOMAIN up /\ up[p] = None
  BY <1>1 DEF Rooted
<1>3. /\ p \in DOMAIN F /\ p \in Pid /\ level[p] \in Nat
      /\ F[p].children \in Seq(Pid) /\ Len(F[p].children) \in Nat
      /\ F[p].keys \in Seq(Int) /\ Len(F[p].keys) \in Nat /\ F[p].leaf = (level[p] = 0)
      /\ ~ F[p].leaf => Len(F[p].children) = Len(F[p].keys) + 1
      /\ \A i \in 1..Len(F[p].children) :
            F[p].children[i] \in Kids(F[p]) /\ F[p].children[i] \in DOMAIN up /\ up[F[p].children[i]] = p
  BY <1>1, <1>2, PageParts
<1>4. /\ DOMAIN S = Index /\ S[ix] = child /\ \A jx \in Index : jx # ix => S[jx] = R[jx]
  BY <1>1 DEF Rooted
<1>5. \A above : Progress(F, level, above, S, o2)
  BY DEF Progress, Branch
<1>6. ~ Mending(o, p) /\ \A x : ~ Mending(o, x) /\ ~ Mending(o2, x)
  BY DEF Mending
<1>7. CASE ~ F[p].leaf /\ F[p].keys = <<>>
  <2>1. child = F[p].children[1] /\ Len(F[p].children) = 1 /\ 1 \in 1..Len(F[p].children)
    BY <1>3, <1>7
  <2>2. child \in Kids(F[p]) /\ child \in DOMAIN up /\ up[child] = p
    BY <1>3, <2>1
  <2>3. child \in Pid /\ p # None
    BY <1>1, <1>3, <2>2, TreeDomain DEF Pid, None
  <2> HIDE DEF p, S
  <2> DEFINE above == WithoutRoot(up, p, child)
  <2>4. /\ Tree(F, level, above) /\ DOMAIN above = DOMAIN up \ {p}
        /\ child \in DOMAIN above /\ above[child] = None
        /\ \A q \in DOMAIN above : q # child => above[q] = up[q]
    <3>1. Tree(F, level, above) /\ child # p
      BY <1>1, <1>2, <2>2, TreeShrunk
    <3> QED
      BY <2>2, <3>1 DEF WithoutRoot
  <2> HIDE DEF above
  <2>5. \A jx \in Index : jx # ix => R[jx] # p /\ R[jx] # child
    BY <1>1, <2>2, <2>3 DEF Rooted, p
  <2>6. Rooted(S, above)
    <3>1. \A jx \in Index : S[jx] \in DOMAIN above /\ above[S[jx]] = None
      BY <1>1, <1>4, <2>4, <2>5 DEF Rooted
    <3>2. \A jx, kx \in Index : S[jx] = S[kx] => jx = kx
      BY <1>1, <1>4, <2>5 DEF Rooted
    <3> QED
      BY <1>4, <3>1, <3>2 DEF Rooted
  <2>7. Filled(F, above, o2)
    BY <1>1, <1>6, <2>4 DEF Filled
  <2>8. RootsFilled(F, S, o2)
    <3>1. SUFFICES ASSUME NEW jx \in Index PROVE F[S[jx]].leaf \/ Len(F[S[jx]].keys) >= 1
      BY DEF RootsFilled
    <3>2. CASE jx = ix
      <4>1. Len(F[child].keys) >= MinKeys(F[child])
        BY <1>1, <1>6, <2>2, <2>3 DEF Filled
      <4>2. F[child] \in Node
        BY <1>1, <2>2, PageParts
      <4>3. MinKeys(F[child]) >= 1 /\ MinKeys(F[child]) \in Nat /\ Len(F[child].keys) \in Nat
        BY <4>2, MinKeysType, NodeParts
      <4> QED
        BY <1>4, <3>2, <4>1, <4>3
    <3>3. CASE jx # ix
      BY <1>1, <1>4, <3>3 DEF RootsFilled
    <3> QED
      BY <3>2, <3>3
  <2>9. Sound(F, level, above, S, o2)
    BY <1>5, <2>4, <2>6, <2>7, <2>8 DEF Sound
  <2> QED
    BY <2>3, <2>9 DEF S
<1>8. CASE F[p].leaf \/ F[p].keys # <<>>
  <2>1. child = p
    BY <1>8
  <2>2. \A jx \in Index : S[jx] = R[jx]
    BY <1>4, <2>1
  <2> HIDE DEF p, S
  <2>3. Filled(F, up, o2)
    BY <1>1, <1>6 DEF Filled
  <2>4. RootsFilled(F, S, o2)
    <3>1. F[R[ix]].leaf \/ Len(F[R[ix]].keys) >= 1
      BY <1>3, <1>8 DEF p
    <3> QED
      BY <1>1, <2>2, <3>1 DEF RootsFilled
  <2>5. Rooted(S, up)
    BY <1>1, <1>4, <2>2 DEF Rooted
  <2>6. Sound(F, level, up, S, o2)
    BY <1>1, <1>5, <2>3, <2>4, <2>5 DEF Sound
  <2> QED
    BY <1>3, <2>1, <2>6 DEF S
<1> QED
  BY <1>7, <1>8

\* The call has returned.
LEMMA FinishSound ==
    ASSUME NEW F, NEW level, NEW up, NEW R, NEW o, Sound(F, level, up, R, o), o.do = "finish"
    PROVE  Sound(F, level, up, R, Idle)
BY DEF Sound, Filled, RootsFilled, Mending, Idle

\* The neighbours of an underflow: children of one parent q, both in the tree.
LEMMA Neighbours ==
    ASSUME NEW F, IsFile(F), NEW level, NEW up, Tree(F, level, up), NEW q \in DOMAIN up,
           NEW l \in Kids(F[q])
    PROVE  /\ l \in DOMAIN up /\ l \in DOMAIN F /\ l \in Pid /\ up[l] = q /\ level[l] + 1 = level[q] /\ l # q
           /\ q \in DOMAIN F /\ q \in Pid /\ q # None /\ up[l] # None
           /\ level[l] \in Nat /\ level[q] \in Nat
<1>1. l \in DOMAIN up /\ up[l] = q /\ level[l] + 1 = level[q]
  BY DEF Tree
<1>2. l \in DOMAIN F /\ l \in Pid /\ q \in DOMAIN F /\ q \in Pid /\ level[l] \in Nat /\ level[q] \in Nat
  BY <1>1, TreeDomain
<1>3. q # None
  BY <1>2 DEF Pid, None
<1> QED
  BY <1>1, <1>2, <1>3

\* Nothing has changed above q, and no page from there up has died.
Keeps(F, level, up, q, G, above) ==
    /\ \A x \in DOMAIN F : level[x] > level[q] => G[x] = F[x]
    /\ \A x \in DOMAIN up : level[x] >= level[q] => x \in DOMAIN above

\* The parent is the root if it has no parent itself.
LEMMA RootParent ==
    ASSUME NEW F, IsFile(F), NEW level, NEW up, Tree(F, level, up), NEW root, NEW path \in Seq(Frame),
           Branch(F, level, up, root, path), Len(path) > 1, up[path[Len(path) - 1].pid] = None
    PROVE  Len(path) = 2 /\ path[Len(path) - 1].pid = root
<1> DEFINE n == Len(path)
           q == path[n - 1].pid
<1> HIDE DEF n, q
<1>1. n = Len(path) /\ q = path[n - 1].pid /\ up[q] = None
  BY DEF n, q
<1>2. up[q] = None => n = 2
  BY <1>1, ParentParts
<1>3. n = 2
  BY <1>1, <1>2
<1>4. path # <<>>
  BY <1>1, ParentParts
<1>5. path[1].pid = root
  BY <1>4 DEF Branch
<1> QED
  BY <1>1, <1>3, <1>5

\* The frames that are left, where nothing has changed above the parent q.
LEMMA ParentBranch ==
    ASSUME NEW F, IsFile(F), NEW level, NEW up, Tree(F, level, up), NEW root, NEW path \in Seq(Frame),
           Branch(F, level, up, root, path), NEW n, n = Len(path), n > 1, NEW q, q = path[n - 1].pid,
           NEW G, NEW above, Keeps(F, level, up, q, G, above)
    PROVE  Branch(G, level, above, root, Front(path)) /\ Front(path) \in Seq(Frame)
<1>1. n \in Nat /\ path # <<>> /\ q \in DOMAIN up /\ level[q] \in Nat
  BY ParentParts
<1>2. ASSUME NEW k \in 1..(n - 2)
      PROVE  /\ path[k].pid \in DOMAIN up /\ path[k].pid \in DOMAIN F /\ level[path[k].pid] > level[q]
             /\ level[path[k].pid] \in Nat
  <2>1. path[k].pid \in DOMAIN up /\ path[k].pid \in DOMAIN F /\ level[path[k].pid] > level[q]
    BY AboveParent
  <2> QED
    BY <2>1, TreeDomain
<1>3. \A k \in 1..(Len(path) - 2) : G[path[k].pid] = F[path[k].pid]
  BY <1>2 DEF Keeps
<1>4. \A k \in 1..(Len(path) - 1) : path[k].pid \in DOMAIN above
  <2>1. SUFFICES ASSUME NEW k \in 1..(n - 1) PROVE path[k].pid \in DOMAIN above
    OBVIOUS
  <2>2. CASE k \in 1..(n - 2)
    <3>1. \A a, b \in Nat : a > b => a >= b
      OBVIOUS
    <3> QED
      BY <1>1, <1>2, <2>2, <3>1 DEF Keeps
  <2>3. CASE k = n - 1
    <3>1. level[q] >= level[q]
      BY <1>1
    <3> QED
      BY <1>1, <2>3, <3>1 DEF Keeps
  <2>4. k \in 1..(n - 2) \/ k = n - 1
    BY <1>1, <2>1
  <2> QED
    BY <2>2, <2>3, <2>4, Zenon
<1>5. SameAbove(F, level, root, path, G, level, above)
  BY <1>3, <1>4 DEF SameAbove
<1> QED
  BY <1>1, <1>5, BranchFront

\* What a loan makes of two neighbours l and r.
Lent(l, r, left, right) ==
    /\ left.leaf = l.leaf /\ Distinct(left.children) /\ Len(left.keys) >= MinKeys(left)
    /\ right.leaf = r.leaf /\ Distinct(right.children) /\ Len(right.keys) >= MinKeys(right)
    /\ Kids(left) \cup Kids(right) \subseteq Kids(l) \cup Kids(r)
    /\ Kids(left) \cap Kids(right) = {}

\* What a merge of r into l makes of l and of the parent q.
Joined(F, q, l, r, left, node) ==
    /\ left.leaf = F[l].leaf /\ Distinct(left.children) /\ Len(left.keys) >= MinKeys(left)
    /\ Kids(left) \subseteq Kids(F[l]) \cup Kids(F[r])
    /\ node.leaf = F[q].leaf /\ Distinct(node.children) /\ Kids(node) \subseteq Kids(F[q]) \ {r}
    /\ Len(node.keys) \in Nat /\ Len(node.keys) + 1 = Len(F[q].keys)

\* The parent with another separator.
Reseparated(parent, node) ==
    node.leaf = parent.leaf /\ node.children = parent.children /\ Len(node.keys) = Len(parent.keys)

\* The underflow of the node p with the parent q.
Mends(R, o, p, q) ==
    /\ o.do = "underflow" /\ o.ix \in Index /\ R[o.ix] = o.root
    /\ p = Last(o.path).pid /\ q = o.path[Len(o.path) - 1].pid

\* What the call goes on with: the frame of the node is left.
Unwinds(o, o2) == o2.root = o.root /\ o2.ix = o.ix /\ o2.path = Front(o.path) /\ o2.do = "unwind"

\* A neighbour lends a key, and with it a child.
LEMMA LoanSound ==
    ASSUME NEW F, IsFile(F), NEW level, NEW up, NEW R, NEW o \in Call, Sound(F, level, up, R, o),
           NEW p, NEW q, Mends(R, o, p, q),
           NEW l \in Kids(F[q]), NEW r \in Kids(F[q]), l # r, p \in {l, r},
           NEW left, NEW right, Lent(F[l], F[r], left, right),
           NEW node, Reseparated(F[q], node), NEW o2, Unwinds(o, o2)
    PROVE  /\ o2.path \in Seq(Frame)
           /\ \E above : Sound(Put(Put(Put(F, l, left), r, right), q, node), level, above, R, o2)
<1> USE DEF Reseparated, Unwinds
<1>0. PICK n : n = Len(o.path)
  OBVIOUS
<1>0a. /\ o.do = "underflow" /\ o.ix \in Index /\ R[o.ix] = o.root
       /\ p = Last(o.path).pid /\ q = o.path[n - 1].pid
  BY <1>0 DEF Mends
<1> USE <1>0, <1>0a
<1> DEFINE H == Put(Put(F, l, left), r, right)
           G == Put(H, q, node)
<1>1. /\ Tree(F, level, up) /\ Rooted(R, up) /\ Filled(F, up, o) /\ RootsFilled(F, R, o)
      /\ Branch(F, level, up, o.root, o.path) /\ o.path \in Seq(Frame)
  BY SoundParts
<1>2. n > 1
  BY DEF Sound, Progress
<1>3. /\ n \in Nat /\ o.path # <<>> /\ q \in DOMAIN up /\ q # p
  BY <1>1, <1>2, ParentParts
<1>4. /\ l \in DOMAIN up /\ l \in DOMAIN F /\ l \in Pid /\ up[l] = q /\ level[l] + 1 = level[q] /\ l # q
      /\ q \in DOMAIN F /\ q \in Pid /\ q # None /\ level[l] \in Nat /\ level[q] \in Nat
  BY <1>1, <1>3, Neighbours
<1>5. r \in DOMAIN up /\ r \in DOMAIN F /\ r \in Pid /\ up[r] = q /\ level[r] + 1 = level[q] /\ r # q
      /\ level[r] \in Nat
  BY <1>1, <1>3, Neighbours
<1>6. level[l] = level[r]
  BY <1>4, <1>5
<1>7. DOMAIN up \subseteq DOMAIN F
  BY <1>1 DEF Tree
<1>8. PICK above : /\ Tree(H, level, above)
                   /\ DOMAIN above = DOMAIN up
                   /\ \A x \in DOMAIN up : above[x] # up[x] => up[x] \in {l, r} /\ above[x] \in {l, r}
  BY <1>1, <1>4, <1>5, <1>6, TreeShared, SMTT(30) DEF Lent
<1>9. H[q] = F[q] /\ q \in DOMAIN H
  BY <1>4, <1>5 DEF Put
<1>10. Tree(G, level, above)
  BY <1>8, <1>9, TreeRewritten
<1>11. /\ G[l] = left /\ G[r] = right /\ G[q] = node
       /\ \A x \in DOMAIN F : x # l /\ x # r /\ x # q => G[x] = F[x]
  BY <1>4, <1>5 DEF Put
<1> HIDE DEF H, G
<1>12. l # None /\ r # None
  BY <1>4, <1>5 DEF Pid, None
<1>13. MinKeys(node) = MinKeys(F[q])
  BY DEF MinKeys
<1>14. Rooted(R, above)
  BY <1>1, <1>8, <1>12 DEF Rooted
<1>15. Filled(G, above, o2)
  <2>1. SUFFICES ASSUME NEW x \in DOMAIN above, above[x] # None PROVE Len(G[x].keys) >= MinKeys(G[x])
    BY DEF Filled
  <2>2. CASE x = l \/ x = r
    BY <1>11, <2>2 DEF Lent
  <2>3. CASE x # l /\ x # r
    <3>1. x \in DOMAIN up /\ up[x] # None
      BY <1>8, <1>12, <2>1
    <3>2. ~ Mending(o, x)
      BY <2>3 DEF Mending
    <3>3. Len(F[x].keys) >= MinKeys(F[x])
      BY <1>1, <3>1, <3>2 DEF Filled
    <3>4. CASE x = q
      BY <1>11, <1>13, <3>3, <3>4
    <3>5. CASE x # q
      BY <1>7, <1>11, <2>3, <3>1, <3>3, <3>5
    <3> QED
      BY <3>4, <3>5
  <2> QED
    BY <2>2, <2>3
<1>16. RootsFilled(G, R, o2)
  <2>1. SUFFICES ASSUME NEW ix \in Index PROVE G[R[ix]].leaf \/ Len(G[R[ix]].keys) >= 1
    BY DEF RootsFilled
  <2>2. F[R[ix]].leaf \/ Len(F[R[ix]].keys) >= 1
    BY <1>1 DEF RootsFilled
  <2>3. R[ix] \in DOMAIN F /\ R[ix] # l /\ R[ix] # r
    BY <1>1, <1>4, <1>5, <1>7 DEF Rooted
  <2>4. CASE R[ix] = q
    BY <1>11, <2>2, <2>4
  <2>5. CASE R[ix] # q
    BY <1>11, <2>2, <2>3, <2>5
  <2> QED
    BY <2>4, <2>5
<1>17. Branch(G, level, above, o.root, Front(o.path)) /\ Front(o.path) \in Seq(Frame)
  <2>1. \A a, b, d \in Nat : a > b /\ d + 1 = b => a # d /\ a # b
    OBVIOUS
  <2>2. ASSUME NEW x \in DOMAIN F, level[x] > level[q] PROVE G[x] = F[x]
    <3>1. level[x] \in Nat
      BY <1>1, <2>2 DEF Tree
    <3>2. level[x] # level[l] /\ level[x] # level[r] /\ level[x] # level[q]
      BY <1>4, <1>5, <2>1, <2>2, <3>1
    <3> QED
      BY <1>11, <3>2
  <2>3. Keeps(F, level, up, q, G, above)
    BY <1>8, <2>2 DEF Keeps
  <2> QED
    BY <1>1, <1>2, <2>3, ParentBranch
<1>18. Progress(G, level, above, R, o2)
  BY <1>17 DEF Progress
<1>19. Sound(G, level, above, R, o2)
  BY <1>10, <1>14, <1>15, <1>16, <1>18 DEF Sound
<1> QED
  BY <1>17, <1>19 DEF G, H

\* r is merged into l; the parent has a key and a child less.
LEMMA MergeSound ==
    ASSUME NEW F, IsFile(F), NEW level, NEW up, NEW R, NEW o \in Call, Sound(F, level, up, R, o),
           NEW p, NEW q, Mends(R, o, p, q),
           NEW l \in Kids(F[q]), NEW r \in Kids(F[q]), l # r, p \in {l, r},
           NEW left, NEW node, Joined(F, q, l, r, left, node),
           NEW o2, Unwinds(o, o2)
    PROVE  /\ o2.path \in Seq(Frame)
           /\ \E above : Sound(Put(Put(F, l, left), q, node), level, above, R, o2)
<1> USE DEF Unwinds
<1>0. PICK n : n = Len(o.path)
  OBVIOUS
<1>0a. /\ o.do = "underflow" /\ o.ix \in Index /\ R[o.ix] = o.root
       /\ p = Last(o.path).pid /\ q = o.path[n - 1].pid
  BY <1>0 DEF Mends
<1> USE <1>0, <1>0a
<1> DEFINE G == Put(Put(F, l, left), q, node)
<1>1. /\ Tree(F, level, up) /\ Rooted(R, up) /\ Filled(F, up, o) /\ RootsFilled(F, R, o)
      /\ Branch(F, level, up, o.root, o.path) /\ o.path \in Seq(Frame)
  BY SoundParts
<1>2. n > 1
  BY DEF Sound, Progress
<1>3. /\ n \in Nat /\ o.path # <<>> /\ q \in DOMAIN up /\ q # p
      /\ Front(o.path) # <<>> /\ Last(Front(o.path)).pid = q /\ Len(Front(o.path)) = n - 1
  <2>1. n \in Nat /\ o.path # <<>> /\ q \in DOMAIN up /\ q # p
    BY <1>1, <1>2, ParentParts
  <2>2. Front(o.path) # <<>> /\ Last(Front(o.path)).pid = q /\ Len(Front(o.path)) = n - 1
    BY <1>1, <1>2, ParentParts, SMTT(30)
  <2> QED
    BY <2>1, <2>2
<1>4a. q \in DOMAIN up
  BY <1>3
<1>4. /\ l \in DOMAIN up /\ l \in DOMAIN F /\ l \in Pid /\ up[l] = q /\ level[l] + 1 = level[q] /\ l # q
      /\ q \in DOMAIN F /\ q \in Pid /\ q # None /\ level[l] \in Nat /\ level[q] \in Nat
  BY <1>1, <1>4a, Neighbours
<1>5. r \in DOMAIN up /\ r \in DOMAIN F /\ r \in Pid /\ up[r] = q /\ level[r] + 1 = level[q] /\ r # q
      /\ level[r] \in Nat
  BY <1>1, <1>4a, Neighbours
<1>6. DOMAIN up \subseteq DOMAIN F
  BY <1>1 DEF Tree
<1> DEFINE above == WithoutPage(up, l, r, left)
<1>7. /\ Tree(G, level, above)
      /\ DOMAIN above = DOMAIN up \ {r}
      /\ \A x \in DOMAIN above : above[x] # up[x] => up[x] = r /\ above[x] = l
  <2>1. Tree(G, level, above)
    BY <1>1, <1>3, TreeMerged DEF Joined
  <2>2. DOMAIN above = DOMAIN up \ {r}
    BY DEF WithoutPage
  <2>3. ASSUME NEW x \in DOMAIN up, x # r PROVE above[x] = up[x] \/ (up[x] = r /\ above[x] = l)
    BY <1>1, <1>4, <1>5, <2>3, WithoutPageParts DEF Joined
  <2> QED
    BY <2>1, <2>2, <2>3
<1> HIDE DEF above
<1>8. /\ G[l] = left /\ G[q] = node
      /\ \A x \in DOMAIN F : x # l /\ x # q => G[x] = F[x]
  BY <1>4 DEF Put
<1>9. MinKeys(node) = MinKeys(F[q]) /\ Len(node.keys) \in Nat /\ Len(node.keys) + 1 = Len(F[q].keys)
  BY DEF MinKeys, Joined
<1>10. l # None /\ r # None
  BY <1>4, <1>5 DEF Pid, None
<1>11. Mending(o2, q)
  BY <1>3 DEF Mending
<1> HIDE DEF G
<1>12. Rooted(R, above)
  <2>1. \A ix \in Index : R[ix] # r
    BY <1>1, <1>4, <1>5 DEF Rooted
  <2> QED
    BY <1>1, <1>7, <1>10, <2>1 DEF Rooted
<1>13. Filled(G, above, o2)
  <2>1. SUFFICES ASSUME NEW x \in DOMAIN above, above[x] # None
                 PROVE  \/ Len(G[x].keys) >= MinKeys(G[x])
                        \/ Mending(o2, x) /\ Len(G[x].keys) + 1 >= MinKeys(G[x])
    BY DEF Filled
  <2>2. CASE x = l
    BY <1>8, <2>2 DEF Joined
  <2>3. CASE x # l
    <3>1. x \in DOMAIN up /\ up[x] # None /\ x # r
      BY <1>7, <1>10, <2>1
    <3>2. ~ Mending(o, x)
      BY <2>3, <3>1 DEF Mending
    <3>3. Len(F[x].keys) >= MinKeys(F[x])
      BY <1>1, <3>1, <3>2 DEF Filled
    <3>4. CASE x = q
      BY <1>8, <1>9, <1>11, <3>3, <3>4
    <3>5. CASE x # q
      BY <1>6, <1>8, <2>3, <3>1, <3>3, <3>5
    <3> QED
      BY <3>4, <3>5
  <2> QED
    BY <2>2, <2>3
<1>14. RootsFilled(G, R, o2)
  <2>1. SUFFICES ASSUME NEW ix \in Index
                 PROVE  \/ G[R[ix]].leaf
                        \/ Len(G[R[ix]].keys) >= 1
                        \/ o2.do = "unwind" /\ Len(o2.path) <= 1 /\ ix = o2.ix
    BY DEF RootsFilled
  <2>2. F[R[ix]].leaf \/ Len(F[R[ix]].keys) >= 1
    BY <1>1 DEF RootsFilled
  <2>3. R[ix] \in DOMAIN F /\ R[ix] # l /\ up[R[ix]] = None
    BY <1>1, <1>4, <1>6 DEF Rooted
  <2>4. CASE R[ix] = q
    <3>1. n = 2 /\ q = o.root
      <4>1. up[q] = None
        BY <2>3, <2>4
      <4>2. Len(o.path) > 1 /\ up[o.path[Len(o.path) - 1].pid] = None
        BY <1>2, <4>1
      <4>3. Len(o.path) = 2 /\ o.path[Len(o.path) - 1].pid = o.root
        BY <1>1, <4>2, RootParent
      <4> QED
        BY <4>3
    <3>2. ix = o.ix
      BY <1>1, <2>4, <3>1 DEF Rooted
    <3>3. Len(o2.path) <= 1
      BY <1>3, <3>1
    <3> QED
      BY <3>2, <3>3
  <2>5. CASE R[ix] # q
    BY <1>8, <2>2, <2>3, <2>5
  <2> QED
    BY <2>4, <2>5
<1>15. Branch(G, level, above, o.root, Front(o.path)) /\ Front(o.path) \in Seq(Frame)
  <2>1. \A a, b, d \in Nat : (a > b /\ d + 1 = b => a # d /\ a # b) /\ (a >= b /\ d + 1 = b => a # d)
    OBVIOUS
  <2>2. ASSUME NEW x \in DOMAIN F, level[x] > level[q] PROVE G[x] = F[x]
    <3>1. level[x] \in Nat
      BY <1>1, <2>2 DEF Tree
    <3>2. level[x] # level[l] /\ level[x] # level[q]
      BY <1>4, <2>1, <2>2, <3>1
    <3> QED
      BY <1>8, <3>2
  <2>3. ASSUME NEW x \in DOMAIN up, level[x] >= level[q] PROVE x \in DOMAIN above
    <3>1. level[x] \in Nat
      BY <1>1, <2>3 DEF Tree
    <3>2. level[x] # level[r]
      BY <1>4, <1>5, <2>1, <2>3, <3>1
    <3> QED
      BY <1>7, <3>2
  <2>4. Keeps(F, level, up, q, G, above)
    BY <2>2, <2>3 DEF Keeps
  <2> QED
    BY <1>1, <1>2, <2>4, ParentBranch
<1>16. Progress(G, level, above, R, o2)
  BY <1>15 DEF Progress
<1>17. Sound(G, level, above, R, o2)
  BY <1>7, <1>12, <1>13, <1>14, <1>16 DEF Sound
<1> QED
  BY <1>15, <1>17 DEF G

LEMMA PidFront ==
    ASSUME NEW s, s \in Seq(Pid), s # <<>>
    PROVE  Len(Front(s)) = Len(s) - 1 /\ \A i \in 1..(Len(s) - 1) : Front(s)[i] = s[i]
BY FrontProperties

\* The last child goes over to the right neighbour.
LEMMA ChildFromLeft ==
    ASSUME NEW l, l.children \in Seq(Pid), l.children # <<>>, Distinct(l.children),
           NEW r, r.children \in Seq(Pid), Distinct(r.children), Kids(l) \cap Kids(r) = {},
           NEW left, left.children = Front(l.children),
           NEW right, right.children = <<Last(l.children)>> \o r.children
    PROVE  /\ Distinct(left.children) /\ Distinct(right.children)
           /\ Kids(left) \cup Kids(right) \subseteq Kids(l) \cup Kids(r)
           /\ Kids(left) \cap Kids(right) = {}
<1> DEFINE a == l.children
           b == r.children
           m == Len(a)
           k == Len(b)
           front == left.children
           back == right.children
<1> HIDE DEF a
<1>0. a = l.children /\ a \in Seq(Pid) /\ a # <<>> /\ front = Front(a)
  BY DEF a
<1> HIDE DEF front
<1>1. /\ m \in Nat /\ m >= 1 /\ Len(front) = m - 1 /\ \A i \in 1..(m - 1) : front[i] = a[i]
      /\ Last(a) = a[m] /\ Last(a) \in Pid
  <2>1. Len(Front(a)) = Len(a) - 1 /\ \A i \in 1..(Len(a) - 1) : Front(a)[i] = a[i]
    BY <1>0, PidFront, Zenon
  <2>2. Last(a) = a[Len(a)]
    BY DEF Last
  <2>3. Len(a) \in Nat /\ Len(a) >= 1 /\ a[Len(a)] \in Pid
    BY <1>0
  <2> QED
    BY <1>0, <2>1, <2>2, <2>3, Zenon
<1> USE DEF a, front
<1>2. k \in Nat
  OBVIOUS
<1>3. Len(back) = k + 1 /\ \A i \in 1..(k + 1) : back[i] = IF i = 1 THEN a[m] ELSE b[i - 1]
  BY <1>1, PrependProperties
<1>4. /\ \A i, j \in 1..m : a[i] = a[j] => i = j
      /\ \A i, j \in 1..k : b[i] = b[j] => i = j
      /\ \A i \in 1..m, j \in 1..k : a[i] # b[j]
  BY ZenonT(30) DEF Distinct, Kids
<1>5. /\ Kids(l) = {a[i] : i \in 1..m} /\ Kids(r) = {b[i] : i \in 1..k}
      /\ Kids(left) = {front[i] : i \in 1..(m - 1)} /\ Kids(right) = {back[i] : i \in 1..(k + 1)}
  <2>1. Kids(l) = {a[i] : i \in 1..m} /\ Kids(r) = {b[i] : i \in 1..k}
    BY Zenon DEF Kids
  <2>2. Kids(left) = {front[i] : i \in 1..Len(front)} /\ Kids(right) = {back[i] : i \in 1..Len(back)}
    BY Zenon DEF Kids
  <2> QED
    BY <1>1, <1>3, <2>1, <2>2, Zenon
<1>6. /\ \A x \in Nat : x \in 1..(m - 1) => x \in 1..m /\ x # m
      /\ \A x \in Nat : x \in 1..(k + 1) /\ x # 1 => x - 1 \in 1..k
      /\ m \in 1..m
  BY <1>1, <1>2
<1> HIDE DEF a, b, m, k, front, back
<1>7. Distinct(front)
  <2>1. SUFFICES ASSUME NEW i \in 1..(m - 1), NEW j \in 1..(m - 1), front[i] = front[j] PROVE i = j
    BY <1>1, <1>4, <1>6 DEF Distinct
  <2>2. i \in 1..m /\ j \in 1..m
    BY <1>1, <2>1
  <2>3. a[i] = a[j]
    BY <1>1, <2>1
  <2> QED
    BY <1>4, <2>2, <2>3
<1>8. Distinct(back)
  <2>1. SUFFICES ASSUME NEW i \in 1..(k + 1), NEW j \in 1..(k + 1), back[i] = back[j] PROVE i = j
    BY <1>3 DEF Distinct
  <2>2. CASE i = 1 /\ j = 1
    BY <2>2
  <2>3. CASE i = 1 /\ j # 1
    BY <1>3, <1>4, <1>6, <2>1, <2>3
  <2>4. CASE i # 1 /\ j = 1
    BY <1>3, <1>4, <1>6, <2>1, <2>4
  <2>5. CASE i # 1 /\ j # 1
    <3>1. i - 1 \in 1..k /\ j - 1 \in 1..k /\ b[i - 1] = b[j - 1]
      BY <1>2, <1>3, <1>6, <2>1, <2>5
    <3>2. i - 1 = j - 1
      BY <1>4, <3>1
    <3> QED
      BY <3>2
  <2> QED
    BY <2>2, <2>3, <2>4, <2>5
<1>9. ASSUME NEW x \in Kids(left) PROVE x \in Kids(l) /\ x \notin Kids(right)
  <2>1. PICK i \in 1..(m - 1) : x = front[i]
    BY <1>5
  <2>2. i \in 1..m /\ i # m /\ x = a[i]
    BY <1>1, <1>6, <2>1
  <2>3. ASSUME NEW j \in 1..(k + 1) PROVE back[j] # x
    <3>1. CASE j = 1
      BY <1>3, <1>4, <1>6, <2>2, <3>1
    <3>2. CASE j # 1
      BY <1>3, <1>4, <1>6, <2>2, <3>2
    <3> QED
      BY <3>1, <3>2
  <2> QED
    BY <1>5, <2>2, <2>3
<1>10. ASSUME NEW x \in Kids(right) PROVE x \in Kids(l) \cup Kids(r)
  <2>1. PICK j \in 1..(k + 1) : x = back[j]
    BY <1>5
  <2>2. CASE j = 1
    BY <1>3, <1>5, <1>6, <2>1, <2>2
  <2>3. CASE j # 1
    BY <1>3, <1>5, <1>6, <2>1, <2>3
  <2> QED
    BY <2>2, <2>3
<1> QED
  BY <1>7, <1>8, <1>9, <1>10 DEF front, back

\* The first child goes over to the left neighbour.
LEMMA ChildFromRight ==
    ASSUME NEW l, l.children \in Seq(Pid), Distinct(l.children),
           NEW r, r.children \in Seq(Pid), r.children # <<>>, Distinct(r.children), Kids(l) \cap Kids(r) = {},
           NEW left, left.children = Append(l.children, r.children[1]),
           NEW right, right.children = Tail(r.children)
    PROVE  /\ Distinct(left.children) /\ Distinct(right.children)
           /\ Kids(left) \cup Kids(right) \subseteq Kids(l) \cup Kids(r)
           /\ Kids(left) \cap Kids(right) = {}
<1> DEFINE a == l.children
           b == r.children
           m == Len(a)
           k == Len(b)
           front == left.children
           back == right.children
<1>1. /\ k \in Nat /\ k >= 1 /\ Len(back) = k - 1 /\ \A i \in 1..(k - 1) : back[i] = b[i + 1]
      /\ b[1] \in Pid
  BY TailProperties
<1>2. m \in Nat
  OBVIOUS
<1>3. Len(front) = m + 1 /\ \A i \in 1..(m + 1) : front[i] = IF i <= m THEN a[i] ELSE b[1]
  BY <1>1, AppendOne
<1>4. /\ \A i, j \in 1..m : a[i] = a[j] => i = j
      /\ \A i, j \in 1..k : b[i] = b[j] => i = j
      /\ \A i \in 1..m, j \in 1..k : a[i] # b[j]
  BY DEF Distinct, Kids
<1>5. /\ Kids(l) = {a[i] : i \in 1..m} /\ Kids(r) = {b[i] : i \in 1..k}
      /\ Kids(left) = {front[i] : i \in 1..(m + 1)} /\ Kids(right) = {back[i] : i \in 1..(k - 1)}
  BY <1>1, <1>3 DEF Kids
<1>6. /\ \A x \in Nat : x \in 1..(k - 1) => x + 1 \in 1..k /\ x + 1 # 1
      /\ \A x \in Nat : x \in 1..(m + 1) /\ x <= m => x \in 1..m
      /\ \A x \in Nat : x \in 1..(m + 1) /\ ~ (x <= m) => x = m + 1
      /\ 1 \in 1..k
  BY <1>1, <1>2
<1> HIDE DEF a, b, m, k, front, back
<1>7. Distinct(back)
  <2>1. SUFFICES ASSUME NEW i \in 1..(k - 1), NEW j \in 1..(k - 1), back[i] = back[j] PROVE i = j
    BY <1>1 DEF Distinct
  <2>2. i + 1 = j + 1
    BY <1>1, <1>4, <1>6, <2>1
  <2> QED
    BY <2>2
<1>8. Distinct(front)
  <2>1. SUFFICES ASSUME NEW i \in 1..(m + 1), NEW j \in 1..(m + 1), front[i] = front[j] PROVE i = j
    BY <1>3 DEF Distinct
  <2>2. CASE i <= m /\ j <= m
    BY <1>3, <1>4, <1>6, <2>1, <2>2
  <2>3. CASE i <= m /\ ~ (j <= m)
    BY <1>3, <1>4, <1>6, <2>1, <2>3
  <2>4. CASE ~ (i <= m) /\ j <= m
    BY <1>3, <1>4, <1>6, <2>1, <2>4
  <2>5. CASE ~ (i <= m) /\ ~ (j <= m)
    BY <1>6, <2>5
  <2> QED
    BY <2>2, <2>3, <2>4, <2>5
<1>9. ASSUME NEW x \in Kids(right) PROVE x \in Kids(r) /\ x \notin Kids(left)
  <2>1. PICK i \in 1..(k - 1) : x = back[i]
    BY <1>5
  <2>2. i + 1 \in 1..k /\ i + 1 # 1 /\ x = b[i + 1]
    BY <1>1, <1>6, <2>1
  <2>3. ASSUME NEW j \in 1..(m + 1) PROVE front[j] # x
    <3>1. CASE j <= m
      BY <1>3, <1>4, <1>6, <2>2, <3>1
    <3>2. CASE ~ (j <= m)
      BY <1>3, <1>4, <1>6, <2>2, <3>2
    <3> QED
      BY <3>1, <3>2
  <2> QED
    BY <1>5, <2>2, <2>3
<1>10. ASSUME NEW x \in Kids(left) PROVE x \in Kids(l) \cup Kids(r)
  <2>1. PICK j \in 1..(m + 1) : x = front[j]
    BY <1>5
  <2>2. CASE j <= m
    BY <1>3, <1>5, <1>6, <2>1, <2>2
  <2>3. CASE ~ (j <= m)
    BY <1>3, <1>5, <1>6, <2>1, <2>3
  <2> QED
    BY <2>2, <2>3
<1> QED
  BY <1>7, <1>8, <1>9, <1>10 DEF front, back

\* All children of both in one node, and one child less in another.
LEMMA ChildrenJoined ==
    ASSUME NEW l, l.children \in Seq(Pid), Distinct(l.children),
           NEW r, r.children \in Seq(Pid), Distinct(r.children), Kids(l) \cap Kids(r) = {},
           NEW left, left.children = l.children \o r.children
    PROVE  Distinct(left.children) /\ Kids(left) \subseteq Kids(l) \cup Kids(r)
<1> DEFINE a == l.children
           b == r.children
           m == Len(a)
           k == Len(b)
           all == left.children
<1>0. a \in Seq(Pid) /\ b \in Seq(Pid) /\ all = a \o b
  OBVIOUS
<1> HIDE DEF a, b, all
<1>1. /\ m \in Nat /\ k \in Nat /\ Len(all) = m + k
      /\ \A i \in 1..(m + k) : all[i] = IF i <= m THEN a[i] ELSE b[i - m]
  BY <1>0, ConcatProperties
<1> USE DEF a, b, all
<1>2. \A i \in 1..m, j \in 1..k : a[i] # b[j]
  BY DEF Kids
<1>3. Distinct(all)
  BY <1>2, DistinctConcat
<1>4. /\ Kids(l) = {a[i] : i \in 1..m} /\ Kids(r) = {b[i] : i \in 1..k} /\ Kids(left) = {all[i] : i \in 1..(m + k)}
  BY <1>1 DEF Kids
<1> HIDE DEF a, b, m, k, all
<1>5. /\ \A x \in Nat : x \in 1..(m + k) /\ x <= m => x \in 1..m
      /\ \A x \in Nat : x \in 1..(m + k) /\ ~ (x <= m) => x - m \in 1..k
  <2>1. m \in Nat /\ k \in Nat
    BY <1>1
  <2> QED
    BY <2>1
<1>6. ASSUME NEW x \in Kids(left) PROVE x \in Kids(l) \cup Kids(r)
  <2>1. PICK i \in 1..(m + k) : x = all[i]
    BY <1>4
  <2>2. CASE i <= m
    BY <1>1, <1>4, <1>5, <2>1, <2>2
  <2>3. CASE ~ (i <= m)
    BY <1>1, <1>4, <1>5, <2>1, <2>3
  <2> QED
    BY <2>2, <2>3
<1> QED
  BY <1>3, <1>6 DEF all

LEMMA ChildRemoved ==
    ASSUME NEW node, node.children \in Seq(Pid), Distinct(node.children), NEW j \in 1..Len(node.children),
           NEW new, new.children = RemoveAt(node.children, j)
    PROVE  Distinct(new.children) /\ Kids(new) \subseteq Kids(node) \ {node.children[j]}
<1> DEFINE a == node.children
           m == Len(a)
           less == new.children
<1>1. /\ m \in Nat /\ Len(less) = m - 1
      /\ \A i \in 1..(m - 1) : less[i] = a[IF i < j THEN i ELSE i + 1]
  BY RemoveAtProperties, SMTT(30)
<1>2. Distinct(less)
  BY DistinctRemoveAt
<1>3. \A x, y \in 1..m : a[x] = a[y] => x = y
  BY DEF Distinct
<1>4. Kids(node) = {a[i] : i \in 1..m} /\ Kids(new) = {less[i] : i \in 1..(m - 1)}
  BY <1>1 DEF Kids
<1>5. \A x \in 1..(m - 1) : (IF x < j THEN x ELSE x + 1) \in 1..m /\ (IF x < j THEN x ELSE x + 1) # j
  BY <1>1
<1>6. j \in 1..m
  OBVIOUS
<1> HIDE DEF a, m, less
<1>7. ASSUME NEW x \in Kids(new) PROVE x \in Kids(node) /\ x # a[j]
  <2>1. PICK i \in 1..(m - 1) : x = less[i]
    BY <1>4
  <2>2. PICK h \in 1..m : h # j /\ x = a[h]
    BY <1>1, <1>5, <2>1
  <2> QED
    BY <1>3, <1>4, <1>6, <2>2
<1> QED
  BY <1>2, <1>7 DEF a, less

\* A node without children has no kids.
LEMMA LeafKids ==
    ASSUME NEW node, node.children = <<>>
    PROVE  Kids(node) = {} /\ Distinct(node.children)
<1>1. Len(node.children) = 0
  OBVIOUS
<1>2. 1..0 = {}
  OBVIOUS
<1> QED
  BY <1>1, <1>2 DEF Kids, Distinct

\* Keys and least number of keys.
LEMMA NodeSizes ==
    ASSUME NEW node, Good(node)
    PROVE  /\ node \in Node /\ node.leaf \in BOOLEAN
           /\ Len(node.keys) \in Nat /\ MinKeys(node) \in Nat /\ MinKeys(node) >= 1 /\ MinKeys(node) < Degree
           /\ node.children \in Seq(Pid)
           /\ node.leaf => node.children = <<>>
           /\ ~ node.leaf => node.children # <<>> /\ Len(node.children) = Len(node.keys) + 1
<1>1. node \in Node
  BY DEF Good
<1>2. MinKeys(node) \in Nat /\ MinKeys(node) >= 1 /\ MinKeys(node) < Degree
  BY <1>1, MinKeysType
<1>3. node.leaf \in BOOLEAN /\ Len(node.keys) \in Nat /\ node.children \in Seq(Pid)
  BY <1>1, NodeParts
<1>4. node.leaf => node.children = <<>>
  BY DEF Good
<1>5. ASSUME ~ node.leaf PROVE Len(node.children) = Len(node.keys) + 1 /\ node.children # <<>>
  <2>1. Len(node.children) = Len(node.keys) + 1
    BY <1>5 DEF Good
  <2>2. Len(node.children) # 0
    BY <1>3, <2>1
  <2> QED
    BY <2>1, <2>2
<1> QED
  BY <1>1, <1>2, <1>3, <1>4, <1>5

\* Two nodes of one height without a child in common.
Fits(l, r) ==
    /\ Good(l) /\ Good(r) /\ l.leaf = r.leaf
    /\ Distinct(l.children) /\ Distinct(r.children)
    /\ Kids(l) \cap Kids(r) = {}

LEMMA LoanFromLeft ==
    ASSUME NEW l, NEW r, Fits(l, r),
           Len(l.keys) > MinKeys(l), Len(r.keys) < MinKeys(r),
           Len(r.keys) + 1 >= MinKeys(r), NEW sep \in Key, NEW b, b = FromLeft(l, r, sep)
    PROVE  Lent(l, r, b.left, b.right) /\ Good(b.left) /\ Good(b.right) /\ b.sep \in Key
<1> USE DEF Fits
<1>1. /\ Len(l.keys) \in Nat /\ MinKeys(l) \in Nat /\ MinKeys(l) >= 1
      /\ l.children \in Seq(Pid) /\ (~ l.leaf => l.children # <<>>) /\ l.leaf \in BOOLEAN
  BY NodeSizes
<1>2. Len(r.keys) \in Nat /\ MinKeys(r) \in Nat /\ MinKeys(r) < Degree /\ r.children \in Seq(Pid) /\ Degree \in Nat
  BY NodeSizes, SizesAssumption
<1>3. Len(l.keys) >= 1 /\ Len(r.keys) + 1 < Degree /\ Len(l.keys) - 1 >= MinKeys(l)
  BY <1>1, <1>2
<1>4. CASE l.leaf
  <2>1. /\ Good(b.left) /\ b.left.leaf /\ Len(b.left.keys) = Len(l.keys) - 1
        /\ Good(b.right) /\ b.right.leaf /\ Len(b.right.keys) = Len(r.keys) + 1 /\ b.sep \in Key
    <3>1. r.leaf
      BY <1>4
    <3> QED
      BY <1>3, <1>4, <3>1, FromLeftLeaf
  <2>2. b.left.children = <<>> /\ b.right.children = <<>>
    BY <2>1, NodeSizes
  <2>3. /\ Kids(b.left) = {} /\ Distinct(b.left.children)
        /\ Kids(b.right) = {} /\ Distinct(b.right.children)
    BY <2>2, LeafKids
  <2>4. MinKeys(b.left) = MinKeys(l) /\ MinKeys(b.right) = MinKeys(r)
    BY <1>4, <2>1 DEF MinKeys
  <2>5. b.left.leaf = l.leaf /\ b.right.leaf = r.leaf
    BY <1>1, <1>4, <2>1, NodeSizes
  <2> QED
    BY <1>3, <2>1, <2>3, <2>4, <2>5 DEF Lent
<1>5. CASE ~ l.leaf
  <2>1. /\ Good(b.left) /\ ~ b.left.leaf /\ Len(b.left.keys) = Len(l.keys) - 1
        /\ b.left.children = Front(l.children)
        /\ Good(b.right) /\ ~ b.right.leaf /\ Len(b.right.keys) = Len(r.keys) + 1 /\ b.sep \in Key
        /\ b.right.children = <<Last(l.children)>> \o r.children
    BY <1>3, <1>5, FromLeftInternal, SMTT(30)
  <2> DEFINE left == b.left
             right == b.right
  <2>2. left.children = Front(l.children) /\ right.children = <<Last(l.children)>> \o r.children
    BY <2>1
  <2> HIDE DEF left, right
  <2>3. /\ Distinct(left.children) /\ Distinct(right.children)
        /\ Kids(left) \cup Kids(right) \subseteq Kids(l) \cup Kids(r)
        /\ Kids(left) \cap Kids(right) = {}
    BY <1>1, <1>2, <1>5, <2>2, ChildFromLeft
  <2>4. MinKeys(left) = MinKeys(l) /\ MinKeys(right) = MinKeys(r)
    BY <1>5, <2>1 DEF MinKeys, left, right
  <2>5. left.leaf = l.leaf /\ right.leaf = r.leaf
    BY <1>1, <1>5, <2>1, NodeSizes DEF left, right
  <2>6. Len(left.keys) >= MinKeys(left) /\ Len(right.keys) >= MinKeys(right)
    BY <1>3, <2>1, <2>4 DEF left, right
  <2>7. Lent(l, r, left, right)
    BY <2>3, <2>5, <2>6 DEF Lent
  <2> QED
    BY <2>1, <2>7 DEF left, right
<1> QED
  BY <1>1, <1>4, <1>5

LEMMA LoanFromRight ==
    ASSUME NEW l, NEW r, Fits(l, r),
           Len(r.keys) > MinKeys(r), Len(l.keys) < MinKeys(l),
           Len(l.keys) + 1 >= MinKeys(l), NEW sep \in Key, NEW b, b = FromRight(l, r, sep)
    PROVE  Lent(l, r, b.left, b.right) /\ Good(b.left) /\ Good(b.right) /\ b.sep \in Key
<1> USE DEF Fits
<1>1. /\ Len(r.keys) \in Nat /\ MinKeys(r) \in Nat /\ MinKeys(r) >= 1
      /\ r.children \in Seq(Pid) /\ (~ r.leaf => r.children # <<>>) /\ r.leaf \in BOOLEAN
  BY NodeSizes
<1>2. Len(l.keys) \in Nat /\ MinKeys(l) \in Nat /\ MinKeys(l) < Degree /\ l.children \in Seq(Pid) /\ Degree \in Nat
  BY NodeSizes, SizesAssumption
<1>3. Len(r.keys) >= 2 /\ Len(r.keys) >= 1 /\ Len(l.keys) + 1 < Degree /\ Len(r.keys) - 1 >= MinKeys(r)
  BY <1>1, <1>2
<1>4. CASE l.leaf
  <2>1. /\ Good(b.left) /\ b.left.leaf /\ Len(b.left.keys) = Len(l.keys) + 1
        /\ Good(b.right) /\ b.right.leaf /\ Len(b.right.keys) = Len(r.keys) - 1 /\ b.sep \in Key
    <3>1. r.leaf
      BY <1>4
    <3> QED
      BY <1>3, <1>4, <3>1, FromRightLeaf
  <2>2. b.left.children = <<>> /\ b.right.children = <<>>
    BY <2>1, NodeSizes
  <2>3. /\ Kids(b.left) = {} /\ Distinct(b.left.children)
        /\ Kids(b.right) = {} /\ Distinct(b.right.children)
    BY <2>2, LeafKids
  <2>4. MinKeys(b.left) = MinKeys(l) /\ MinKeys(b.right) = MinKeys(r)
    BY <1>4, <2>1 DEF MinKeys
  <2>5. b.left.leaf = l.leaf /\ b.right.leaf = r.leaf
    BY <1>1, <1>4, <2>1, NodeSizes
  <2> QED
    BY <1>3, <2>1, <2>3, <2>4, <2>5 DEF Lent
<1>5. CASE ~ l.leaf
  <2>1. /\ Good(b.left) /\ ~ b.left.leaf /\ Len(b.left.keys) = Len(l.keys) + 1
        /\ b.left.children = Append(l.children, r.children[1])
        /\ Good(b.right) /\ ~ b.right.leaf /\ Len(b.right.keys) = Len(r.keys) - 1 /\ b.sep \in Key
        /\ b.right.children = Tail(r.children)
    BY <1>3, <1>5, FromRightInternal, SMTT(30)
  <2> DEFINE left == b.left
             right == b.right
  <2>2. left.children = Append(l.children, r.children[1]) /\ right.children = Tail(r.children)
    BY <2>1
  <2> HIDE DEF left, right
  <2>3. /\ Distinct(left.children) /\ Distinct(right.children)
        /\ Kids(left) \cup Kids(right) \subseteq Kids(l) \cup Kids(r)
        /\ Kids(left) \cap Kids(right) = {}
    BY <1>1, <1>2, <1>5, <2>2, ChildFromRight, ZenonT(30)
  <2>4. MinKeys(left) = MinKeys(l) /\ MinKeys(right) = MinKeys(r)
    BY <1>5, <2>1 DEF MinKeys, left, right
  <2>5. left.leaf = l.leaf /\ right.leaf = r.leaf
    BY <1>1, <1>5, <2>1, NodeSizes DEF left, right
  <2>6. Len(left.keys) >= MinKeys(left) /\ Len(right.keys) >= MinKeys(right)
    BY <1>3, <2>1, <2>4 DEF left, right
  <2>7. Lent(l, r, left, right)
    BY <2>3, <2>5, <2>6 DEF Lent
  <2> QED
    BY <2>1, <2>7 DEF left, right
<1> QED
  BY <1>1, <1>4, <1>5

\* Two neighbours of which one is short and the other has nothing to spare.
Sparse(l, r) ==
    /\ Len(l.keys) + Len(r.keys) + 1 <= 2 * MinKeys(l)
    /\ Len(l.keys) >= MinKeys(l) \/ Len(r.keys) >= MinKeys(l)

LEMMA MergedNodes ==
    ASSUME NEW l, NEW r, Fits(l, r),
           Sparse(l, r), NEW sep \in Key, NEW m, m = Merged(l, r, sep)
    PROVE  /\ Good(m) /\ m.leaf = l.leaf /\ Distinct(m.children) /\ Len(m.keys) >= MinKeys(m)
           /\ Kids(m) \subseteq Kids(l) \cup Kids(r)
<1> USE DEF Fits, Sparse
<1>1. Len(l.keys) \in Nat /\ MinKeys(l) \in Nat /\ l.children \in Seq(Pid) /\ l.leaf \in BOOLEAN
  BY NodeSizes
<1>2. Len(r.keys) \in Nat /\ r.children \in Seq(Pid)
  BY NodeSizes
<1>2a. Len(l.keys) + Len(r.keys) >= MinKeys(l) /\ Len(l.keys) + 1 + Len(r.keys) >= MinKeys(l)
  <2>1. \A a, b, h \in Nat : a >= h \/ b >= h => a + b >= h /\ a + 1 + b >= h
    OBVIOUS
  <2> QED
    BY <1>1, <1>2, <2>1
<1>3. CASE l.leaf
  <2>1. Len(l.keys) + Len(r.keys) < Degree
    <3>1. MinKeys(l) = Degree \div 2
      BY <1>3 DEF MinKeys
    <3>2. 2 * (Degree \div 2) <= Degree /\ Degree \div 2 \in Nat /\ Degree \in Nat
      BY DegreeHalves
    <3>3. \A a, b, h, d \in Nat : a + b + 1 <= 2 * h /\ 2 * h <= d => a + b < d
      OBVIOUS
    <3> QED
      BY <1>1, <1>2, <3>1, <3>2, <3>3
  <2>2. Good(m) /\ m.leaf /\ Len(m.keys) = Len(l.keys) + Len(r.keys)
    BY <1>3, <2>1, MergedLeaf
  <2>3. m.children = <<>> /\ m.leaf \in BOOLEAN
    BY <2>2, NodeSizes
  <2>4. Kids(m) = {} /\ Distinct(m.children)
    BY <2>3, LeafKids
  <2>5. MinKeys(m) = MinKeys(l)
    BY <1>3, <2>2 DEF MinKeys
  <2>6. Len(m.keys) >= MinKeys(m)
    BY <1>2a, <2>2, <2>5
  <2>7. m.leaf = l.leaf
    BY <1>1, <1>3, <2>2, <2>3
  <2> QED
    BY <2>2, <2>4, <2>6, <2>7
<1>4. CASE ~ l.leaf
  <2>1. Len(l.keys) + 1 + Len(r.keys) < Degree
    <3>1. MinKeys(l) = (Degree + 1) \div 2 - 1
      BY <1>4 DEF MinKeys
    <3>2. /\ (Degree + 1) \div 2 \in Nat /\ Degree \div 2 \in Nat /\ Degree \in Nat
          /\ (Degree \div 2) + ((Degree + 1) \div 2) = Degree /\ (Degree + 1) \div 2 - 1 <= Degree \div 2
      BY DegreeHalves
    <3>3. \A a, b, h, g, d \in Nat : a + b + 1 <= 2 * (h - 1) /\ g + h = d /\ h - 1 <= g => a + 1 + b < d
      OBVIOUS
    <3>4. Len(l.keys) + Len(r.keys) + 1 <= 2 * ((Degree + 1) \div 2 - 1)
      BY <3>1
    <3> QED
      BY <1>1, <1>2, <3>2, <3>3, <3>4
  <2>2. Good(m) /\ ~ m.leaf /\ Len(m.keys) = Len(l.keys) + 1 + Len(r.keys) /\ m.children = l.children \o r.children
    BY <1>4, <2>1, MergedInternal
  <2>3. Distinct(m.children) /\ Kids(m) \subseteq Kids(l) \cup Kids(r)
    BY <1>1, <1>2, <2>2, ChildrenJoined
  <2>4. MinKeys(m) = MinKeys(l) /\ m.leaf \in BOOLEAN
    BY <1>4, <2>2, NodeSizes DEF MinKeys
  <2>5. Len(m.keys) >= MinKeys(m)
    BY <1>2a, <2>2, <2>4
  <2>6. m.leaf = l.leaf
    BY <1>1, <1>4, <2>2, <2>4
  <2> QED
    BY <2>2, <2>3, <2>5, <2>6
<1> QED
  BY <1>1, <1>3, <1>4

\* The parent with a key and a child less.
LEMMA ParentOfMerged ==
    ASSUME NEW parent, Good(parent), ~ parent.leaf, Distinct(parent.children), NEW s \in 1..Len(parent.keys),
           NEW node, node = WithoutChild(parent, s)
    PROVE  /\ Good(node) /\ node.leaf = parent.leaf /\ Distinct(node.children)
           /\ Kids(node) \subseteq Kids(parent) \ {parent.children[s + 1]}
           /\ Len(node.keys) \in Nat /\ Len(node.keys) + 1 = Len(parent.keys)
<1>1. /\ Good(node) /\ ~ node.leaf /\ Len(node.keys) = Len(parent.keys) - 1
      /\ node.children = RemoveAt(parent.children, s + 1)
  BY WithoutChildNode
<1>2. /\ Len(parent.keys) \in Nat /\ parent.children \in Seq(Pid)
      /\ Len(parent.children) = Len(parent.keys) + 1 /\ parent.leaf \in BOOLEAN
  BY NodeSizes
<1>3. Len(node.keys) \in Nat /\ node.leaf \in BOOLEAN
  BY <1>1, NodeSizes
<1> DEFINE j == s + 1
<1>4. j \in 1..Len(parent.children) /\ node.children = RemoveAt(parent.children, j)
  BY <1>1, <1>2
<1> HIDE DEF j
<1>5. Distinct(node.children) /\ Kids(node) \subseteq Kids(parent) \ {parent.children[j]}
  BY <1>2, <1>4, ChildRemoved
<1> QED
  BY <1>1, <1>2, <1>3, <1>5 DEF j

\* p is one of the two children of q around the separator s.
Beside(F, p, q, s, l, r) ==
    /\ ~ F[q].leaf /\ s \in 1..Len(F[q].keys)
    /\ l = F[q].children[s] /\ r = F[q].children[s + 1]
    /\ p \in {l, r}

\* Two neighbours: children of one parent on either side of a separator.
LEMMA NeighbourNodes ==
    ASSUME NEW F, IsFile(F), NEW level, NEW up, Tree(F, level, up), NEW q \in DOMAIN up,
           NEW p, NEW s, NEW l, NEW r, Beside(F, p, q, s, l, r)
    PROVE  /\ l \in Kids(F[q]) /\ r \in Kids(F[q]) /\ l # r
           /\ l \in DOMAIN F /\ r \in DOMAIN F /\ l # q /\ r # q
           /\ l \in DOMAIN up /\ up[l] # None /\ r \in DOMAIN up /\ up[r] # None
           /\ Fits(F[l], F[r])
<1>0. ~ F[q].leaf /\ s \in 1..Len(F[q].keys) /\ l = F[q].children[s] /\ r = F[q].children[s + 1]
  BY DEF Beside
<1>1. /\ Good(F[q]) /\ Distinct(F[q].children) /\ Len(F[q].keys) \in Nat
      /\ Len(F[q].children) = Len(F[q].keys) + 1
  BY <1>0, PageParts
<1> DEFINE j == s + 1
<1>2. s \in 1..Len(F[q].children) /\ j \in 1..Len(F[q].children) /\ s # j
  BY <1>0, <1>1
<1>3. l = F[q].children[s] /\ r = F[q].children[j]
  BY <1>0
<1> HIDE DEF j
<1>4. l \in Kids(F[q]) /\ r \in Kids(F[q]) /\ l # r
  BY <1>1, <1>2, <1>3 DEF Kids, Distinct
<1>5. /\ l \in DOMAIN up /\ l \in DOMAIN F /\ l # q /\ up[l] # None /\ level[l] + 1 = level[q]
      /\ level[l] \in Nat /\ level[q] \in Nat
  BY <1>4, Neighbours
<1>6. /\ r \in DOMAIN up /\ r \in DOMAIN F /\ r # q /\ up[r] # None /\ level[r] + 1 = level[q]
      /\ level[r] \in Nat
  BY <1>4, Neighbours
<1>7. Good(F[l]) /\ Good(F[r])
  BY <1>5, <1>6 DEF IsFile
<1>8. level[l] = level[r]
  BY <1>5, <1>6
<1>9. F[l].leaf = F[r].leaf
  BY <1>5, <1>6, <1>8 DEF Tree
<1>10. Distinct(F[l].children) /\ Distinct(F[r].children)
  BY <1>5, <1>6 DEF Tree
<1>11. Kids(F[l]) \cap Kids(F[r]) = {}
  <2>1. SUFFICES ASSUME NEW x \in Kids(F[l]), x \in Kids(F[r]) PROVE FALSE
    OBVIOUS
  <2>2. up[x] = l
    BY <1>5 DEF Tree
  <2>3. up[x] = r
    BY <1>6, <2>1 DEF Tree
  <2> QED
    BY <1>4, <2>2, <2>3
<1> QED
  BY <1>4, <1>5, <1>6, <1>7, <1>9, <1>10, <1>11 DEF Fits

LEMMA SeparatorKey ==
    ASSUME NEW node, Good(node), NEW s \in 1..Len(node.keys)
    PROVE  node.keys[s] \in Key
<1>1. node.keys \in Seq(Key)
  BY NodeParts DEF Good
<1> QED
  BY <1>1

\* The pair is the children at s and s + 1.
Turn(F, o, q, i, s, l, r) ==
    /\ i = o.path[Len(o.path) - 1].i
    /\ s = IF i > 1 THEN i - 1 ELSE i
    /\ l = F[q].children[s] /\ r = F[q].children[s + 1]

\* An underflow has a parent with a key, and everybody but the node itself has
\* keys enough.
LEMMA UnderflowParts ==
    ASSUME NEW F, IsFile(F), NEW level, NEW up, NEW R, NEW o \in Call, Sound(F, level, up, R, o),
           NEW p, NEW q, Mends(R, o, p, q), NEW i, NEW s, NEW l, NEW r, Turn(F, o, q, i, s, l, r)
    PROVE  /\ q \in DOMAIN up /\ Beside(F, p, q, s, l, r)
           /\ i \in Nat
           /\ i > 1 => p = r
           /\ ~ (i > 1) => p = l
           /\ Len(F[p].keys) < MinKeys(F[p]) /\ Len(F[p].keys) + 1 >= MinKeys(F[p])
           /\ \A x \in DOMAIN up : up[x] # None /\ x # p => Len(F[x].keys) >= MinKeys(F[x])
<1>0. o.do = "underflow" /\ o.ix \in Index /\ R[o.ix] = o.root /\ p = Last(o.path).pid
  BY DEF Mends
<1> DEFINE n == Len(o.path)
<1> HIDE DEF n
<1>0a. n = Len(o.path) /\ q = o.path[n - 1].pid /\ i = o.path[n - 1].i
  BY DEF n, Mends, Turn
<1>1. /\ Tree(F, level, up) /\ Rooted(R, up) /\ Filled(F, up, o) /\ RootsFilled(F, R, o)
      /\ Branch(F, level, up, o.root, o.path) /\ o.path \in Seq(Frame)
  BY <1>0, SoundParts
<1>2. n > 1 /\ Len(F[p].keys) < MinKeys(F[p])
  BY <1>0, <1>0a DEF Sound, Progress
<1>3. /\ q \in DOMAIN up /\ q \in DOMAIN F /\ q # p /\ q \in Pid
      /\ p \in DOMAIN up /\ p \in DOMAIN F /\ up[p] = q /\ q # None
      /\ ~ F[q].leaf /\ Good(F[q])
      /\ i \in 1..Len(F[q].children) /\ F[q].children[i] = p
  <2>1. Tree(F, level, up) /\ Branch(F, level, up, o.root, o.path) /\ o.path \in Seq(Frame)
    BY <1>1
  <2>2. n = Len(o.path) /\ n > 1 /\ p = Last(o.path).pid /\ q = o.path[n - 1].pid /\ i = o.path[n - 1].i
    BY <1>0, <1>0a, <1>2
  <2> HIDE <1>0, <1>0a, <1>1, <1>2
  <2>3. q \in DOMAIN up /\ q \in DOMAIN F /\ q # p /\ q \in Pid
    BY <2>1, <2>2, ParentParts, SMTT(30)
  <2>4. p \in DOMAIN up /\ p \in DOMAIN F /\ up[p] = q /\ q # None
    BY <2>1, <2>2, ParentParts, SMTT(30)
  <2>5. ~ F[q].leaf /\ Good(F[q])
    BY <2>1, <2>2, ParentParts, SMTT(30)
  <2>6. i \in 1..Len(F[q].children) /\ F[q].children[i] = p
    BY <2>1, <2>2, ParentParts, SMTT(30)
  <2> QED
    BY <2>3, <2>4, <2>5, <2>6
<1>4. \A x \in DOMAIN up : up[x] # None /\ x # p => Len(F[x].keys) >= MinKeys(F[x])
  BY <1>0, <1>1 DEF Filled, Mending
<1>5. Len(F[p].keys) + 1 >= MinKeys(F[p])
  <2>1. Good(F[p])
    BY <1>3 DEF IsFile
  <2>2. Len(F[p].keys) \in Nat /\ MinKeys(F[p]) \in Nat
    BY <2>1, NodeSizes
  <2>3. Len(F[p].keys) >= MinKeys(F[p]) \/ Len(F[p].keys) + 1 >= MinKeys(F[p])
    BY <1>1, <1>3 DEF Filled
  <2> QED
    BY <2>2, <2>3
<1>6. /\ Len(F[q].keys) \in Nat /\ MinKeys(F[q]) \in Nat /\ MinKeys(F[q]) >= 1
      /\ Len(F[q].children) = Len(F[q].keys) + 1
  BY <1>3, NodeSizes
<1>7. Len(F[q].keys) >= 1
  <2>1. CASE up[q] = None
    <3>1. Len(o.path) > 1 /\ up[o.path[Len(o.path) - 1].pid] = None
      BY <1>0a, <1>2, <2>1
    <3>2. o.path[Len(o.path) - 1].pid = o.root
      BY <1>1, <3>1, RootParent
    <3>3. q = R[o.ix]
      BY <1>0, <1>0a, <3>2
    <3> QED
      BY <1>0, <1>1, <1>3, <3>3 DEF RootsFilled
  <2>2. CASE up[q] # None
    <3>1. Len(F[q].keys) >= MinKeys(F[q])
      BY <1>3, <1>4, <2>2
    <3> QED
      BY <1>6, <3>1
  <2> QED
    BY <2>1, <2>2
<1>8. i \in Nat /\ i >= 1 /\ i <= Len(F[q].keys) + 1
  BY <1>3, <1>6
<1>9. s \in 1..Len(F[q].keys) /\ (i > 1 => s + 1 = i) /\ (~ (i > 1) => s = i)
  <2>1. \A a, k \in Nat : a >= 1 /\ a <= k + 1 /\ k >= 1 =>
           /\ (IF a > 1 THEN a - 1 ELSE a) \in 1..k
           /\ a > 1 => (IF a > 1 THEN a - 1 ELSE a) + 1 = a
           /\ ~ (a > 1) => (IF a > 1 THEN a - 1 ELSE a) = a
    OBVIOUS
  <2>2. s = IF i > 1 THEN i - 1 ELSE i
    BY DEF Turn
  <2> QED
    BY <1>6, <1>7, <1>8, <2>1, <2>2
<1>10. ASSUME i > 1 PROVE p = r
  BY <1>3, <1>9, <1>10 DEF Turn
<1>11. ASSUME ~ (i > 1) PROVE p = l
  BY <1>3, <1>9, <1>11 DEF Turn
<1>12. p \in {l, r}
  BY <1>10, <1>11
<1>13. Beside(F, p, q, s, l, r)
  BY <1>3, <1>9, <1>12 DEF Beside, Turn
<1> QED
  BY <1>2, <1>3, <1>4, <1>5, <1>8, <1>10, <1>11, <1>13

\* The order of two writes does not matter.
LEMMA PutSwapped ==
    ASSUME NEW f, NEW p, NEW q, p # q, NEW x, NEW y
    PROVE  Put(Put(f, p, x), q, y) = Put(Put(f, q, y), p, x)
BY DEF Put

\* What a loan writes, the lender first, and what a merge writes.
LoanWrites(w, l, left, r, right, q, node) ==
    \/ w = <<[pid |-> l, node |-> left], [pid |-> r, node |-> right], [pid |-> q, node |-> node]>>
    \/ w = <<[pid |-> r, node |-> right], [pid |-> l, node |-> left], [pid |-> q, node |-> node]>>

MergeWrites(w, l, left, q, node) == w = <<[pid |-> l, node |-> left], [pid |-> q, node |-> node]>>

\* What an underflow writes.
UnderflowWrites(F, i, q, s, l, r, w) ==
    LET sep == F[q].keys[s]
        b == IF i > 1 THEN FromLeft(F[l], F[r], sep) ELSE FromRight(F[l], F[r], sep)
        node == WithSeparator(F[q], s, b.sep)
        lends == IF i > 1 THEN Len(F[l].keys) > MinKeys(F[l]) ELSE Len(F[r].keys) > MinKeys(F[r])
    IN  w = IF lends
            THEN IF i > 1
                 THEN <<[pid |-> l, node |-> b.left], [pid |-> r, node |-> b.right], [pid |-> q, node |-> node]>>
                 ELSE <<[pid |-> r, node |-> b.right], [pid |-> l, node |-> b.left], [pid |-> q, node |-> node]>>
            ELSE <<[pid |-> l, node |-> Merged(F[l], F[r], sep)], [pid |-> q, node |-> WithoutChild(F[q], s)]>>

LEMMA LendsLeft ==
    ASSUME NEW F, NEW i, NEW q, NEW s, NEW l, NEW r, NEW w, UnderflowWrites(F, i, q, s, l, r, w),
           i > 1, Len(F[l].keys) > MinKeys(F[l]), NEW b, b = FromLeft(F[l], F[r], F[q].keys[s])
    PROVE  LoanWrites(w, l, b.left, r, b.right, q, WithSeparator(F[q], s, b.sep))
BY Zenon DEF UnderflowWrites, LoanWrites

LEMMA LendsRight ==
    ASSUME NEW F, NEW i, NEW q, NEW s, NEW l, NEW r, NEW w, UnderflowWrites(F, i, q, s, l, r, w),
           ~ (i > 1), Len(F[r].keys) > MinKeys(F[r]), NEW b, b = FromRight(F[l], F[r], F[q].keys[s])
    PROVE  LoanWrites(w, l, b.left, r, b.right, q, WithSeparator(F[q], s, b.sep))
BY Zenon DEF UnderflowWrites, LoanWrites

LEMMA Merges ==
    ASSUME NEW F, NEW i, NEW q, NEW s, NEW l, NEW r, NEW w, UnderflowWrites(F, i, q, s, l, r, w),
           IF i > 1 THEN ~ (Len(F[l].keys) > MinKeys(F[l])) ELSE ~ (Len(F[r].keys) > MinKeys(F[r]))
    PROVE  MergeWrites(w, l, Merged(F[l], F[r], F[q].keys[s]), q, WithoutChild(F[q], s))
<1>1. CASE i > 1
  BY <1>1, Zenon DEF UnderflowWrites, MergeWrites
<1>2. CASE ~ (i > 1)
  BY <1>2, Zenon DEF UnderflowWrites, MergeWrites
<1> QED
  BY <1>1, <1>2

LEMMA LoanPlanned ==
    ASSUME NEW F, IsFile(F), NEW l \in DOMAIN F, NEW r \in DOMAIN F, NEW q \in DOMAIN F, l # r, l # q, r # q,
           NEW left, Good(left), NEW right, Good(right), NEW node, Good(node),
           NEW w, LoanWrites(w, l, left, r, right, q, node)
    PROVE  w \in Seq(Write) /\ OnDisk(F, w, Put(Put(Put(F, l, left), r, right), q, node))
<1>1. l \in Pid /\ r \in Pid /\ q \in Pid
  BY FileExtent
<1>2. [pid |-> l, node |-> left] \in Write /\ [pid |-> r, node |-> right] \in Write /\ [pid |-> q, node |-> node] \in Write
  BY <1>1 DEF Good, Write
<1>3. CASE w = <<[pid |-> l, node |-> left], [pid |-> r, node |-> right], [pid |-> q, node |-> node]>>
  <2>1. w \in Seq(Write)
    BY <1>2, <1>3
  <2>2. OnDisk(F, w, Put(Put(Put(F, l, left), r, right), q, node))
    BY <1>3, ThreePlanned
  <2> QED
    BY <2>1, <2>2
<1>4. CASE w = <<[pid |-> r, node |-> right], [pid |-> l, node |-> left], [pid |-> q, node |-> node]>>
  <2>1. w \in Seq(Write)
    BY <1>2, <1>4
  <2>2. OnDisk(F, w, Put(Put(Put(F, r, right), l, left), q, node))
    BY <1>4, ThreePlanned
  <2>3. Put(Put(F, r, right), l, left) = Put(Put(F, l, left), r, right)
    BY PutSwapped
  <2> QED
    BY <2>1, <2>2, <2>3
<1> QED
  BY <1>3, <1>4 DEF LoanWrites

LEMMA MergePlanned ==
    ASSUME NEW F, IsFile(F), NEW l \in DOMAIN F, NEW q \in DOMAIN F, l # q,
           NEW left, Good(left), NEW node, Good(node), NEW w, MergeWrites(w, l, left, q, node)
    PROVE  w \in Seq(Write) /\ OnDisk(F, w, Put(Put(F, l, left), q, node))
<1>1. l \in Pid /\ q \in Pid
  BY FileExtent
<1>2. [pid |-> l, node |-> left] \in Write /\ [pid |-> q, node |-> node] \in Write
  BY <1>1 DEF Good, Write
<1>3. w = <<[pid |-> l, node |-> left], [pid |-> q, node |-> node]>>
  BY DEF MergeWrites
<1>4. w \in Seq(Write)
  BY <1>2, <1>3
<1>5. OnDisk(F, w, Put(Put(F, l, left), q, node))
  BY <1>3, TwoPlanned, SMTT(30)
<1> QED
  BY <1>4, <1>5

\* A loan in progress.
LEMMA LoanWritten ==
    ASSUME NEW F, IsFile(F), NEW level, NEW up, NEW R, NEW o \in Call, Sound(F, level, up, R, o),
           NEW p, NEW q \in DOMAIN up, Mends(R, o, p, q), NEW s, NEW l, NEW r, Beside(F, p, q, s, l, r),
           NEW left, Good(left), NEW right, Good(right), Lent(F[l], F[r], left, right),
           NEW key \in Key, NEW node, node = WithSeparator(F[q], s, key),
           NEW o2, Unwinds(o, o2),
           LoanWrites(o2.writes, l, left, r, right, q, node)
    PROVE  /\ o2.path \in Seq(Frame) /\ o2.writes \in Seq(Write)
           /\ \E G, height, over : OnDisk(F, o2.writes, G) /\ Sound(G, height, over, R, o2)
<1>0. /\ o.do = "underflow" /\ ~ F[q].leaf /\ s \in 1..Len(F[q].keys)
      /\ l = F[q].children[s] /\ r = F[q].children[s + 1] /\ p \in {l, r}
  BY ZenonT(30) DEF Mends, Beside
<1>1. Tree(F, level, up)
  BY <1>0, SoundParts
<1>2. l \in Kids(F[q]) /\ r \in Kids(F[q]) /\ l # r
  BY <1>1, NeighbourNodes
<1>3. l \in DOMAIN F /\ r \in DOMAIN F /\ l # q /\ r # q
  BY <1>1, NeighbourNodes
<1>4. q \in DOMAIN F /\ Good(F[q])
  BY <1>1, PageParts
<1>5. Good(node) /\ Reseparated(F[q], node)
  BY <1>0, <1>4, NewSeparator DEF Reseparated
<1>6. /\ o2.path \in Seq(Frame)
      /\ \E above : Sound(Put(Put(Put(F, l, left), r, right), q, node), level, above, R, o2)
  BY <1>0, <1>2, <1>5, LoanSound, ZenonT(30)
<1>7. o2.writes \in Seq(Write) /\ OnDisk(F, o2.writes, Put(Put(Put(F, l, left), r, right), q, node))
  BY <1>2, <1>3, <1>4, <1>5, LoanPlanned
<1> QED
  BY <1>6, <1>7, SMTT(30)

\* A merge in progress.
LEMMA MergeWritten ==
    ASSUME NEW F, IsFile(F), NEW level, NEW up, NEW R, NEW o \in Call, Sound(F, level, up, R, o),
           NEW p, NEW q \in DOMAIN up, Mends(R, o, p, q), NEW s, NEW l, NEW r, Beside(F, p, q, s, l, r),
           Sparse(F[l], F[r]),
           NEW left, left = Merged(F[l], F[r], F[q].keys[s]),
           NEW node, node = WithoutChild(F[q], s),
           NEW o2, Unwinds(o, o2),
           MergeWrites(o2.writes, l, left, q, node)
    PROVE  /\ o2.path \in Seq(Frame) /\ o2.writes \in Seq(Write)
           /\ \E G, height, over : OnDisk(F, o2.writes, G) /\ Sound(G, height, over, R, o2)
<1>0. /\ o.do = "underflow" /\ ~ F[q].leaf /\ s \in 1..Len(F[q].keys)
      /\ l = F[q].children[s] /\ r = F[q].children[s + 1] /\ p \in {l, r}
  BY ZenonT(30) DEF Mends, Beside
<1>1. Tree(F, level, up)
  BY <1>0, SoundParts
<1>2. /\ l \in Kids(F[q]) /\ r \in Kids(F[q]) /\ l # r
      /\ l \in DOMAIN F /\ r \in DOMAIN F /\ l # q /\ r # q
  BY <1>1, NeighbourNodes
<1>3. Fits(F[l], F[r])
  BY <1>1, NeighbourNodes
<1>4. q \in DOMAIN F /\ Good(F[q]) /\ Distinct(F[q].children)
  BY <1>1, PageParts
<1>4a. F[q].keys[s] \in Key
  BY <1>0, <1>4, SeparatorKey
<1>5. /\ Good(left) /\ left.leaf = F[l].leaf /\ Distinct(left.children) /\ Len(left.keys) >= MinKeys(left)
      /\ Kids(left) \subseteq Kids(F[l]) \cup Kids(F[r])
  BY <1>3, <1>4a, MergedNodes
<1>6. /\ Good(node) /\ node.leaf = F[q].leaf /\ Distinct(node.children)
      /\ Kids(node) \subseteq Kids(F[q]) \ {r}
      /\ Len(node.keys) \in Nat /\ Len(node.keys) + 1 = Len(F[q].keys)
  BY <1>0, <1>4, ParentOfMerged
<1>7. Joined(F, q, l, r, left, node)
  BY <1>5, <1>6 DEF Joined
<1>8. /\ o2.path \in Seq(Frame)
      /\ \E above : Sound(Put(Put(F, l, left), q, node), level, above, R, o2)
  BY <1>0, <1>2, <1>7, MergeSound
<1>9. o2.writes \in Seq(Write) /\ OnDisk(F, o2.writes, Put(Put(F, l, left), q, node))
  BY <1>2, <1>4, <1>5, <1>6, MergePlanned
<1> QED
  BY <1>8, <1>9

\* Short of keys is who has nothing to spare.
LEMMA MergeSizes ==
    ASSUME NEW a \in Nat, NEW b \in Nat, NEW h \in Nat,
           (a < h /\ b >= h /\ ~ (b > h)) \/ (b < h /\ a >= h /\ ~ (a > h))
    PROVE  a + b + 1 <= 2 * h /\ (a >= h \/ b >= h)
OBVIOUS

LEMMA UnderflowSound ==
    ASSUME NEW F, IsFile(F), NEW level, NEW up, NEW R, NEW o \in Call, Sound(F, level, up, R, o),
           NEW p, NEW q, Mends(R, o, p, q), NEW i, NEW s, NEW l, NEW r, Turn(F, o, q, i, s, l, r),
           NEW o2, Unwinds(o, o2),
           UnderflowWrites(F, i, q, s, l, r, o2.writes)
    PROVE  /\ o2.path \in Seq(Frame) /\ o2.writes \in Seq(Write)
           /\ \E G, height, over : OnDisk(F, o2.writes, G) /\ Sound(G, height, over, R, o2)
<1>2. Tree(F, level, up)
  BY SoundParts DEF Mends
<1>3a. q \in DOMAIN up /\ Beside(F, p, q, s, l, r)
  BY UnderflowParts
<1>3. Len(F[p].keys) < MinKeys(F[p]) /\ Len(F[p].keys) + 1 >= MinKeys(F[p])
  BY UnderflowParts
<1>4. i > 1 => p = r
  BY UnderflowParts
<1>5. ~ (i > 1) => p = l
  BY UnderflowParts
<1>6. \A x \in DOMAIN up : up[x] # None /\ x # p => Len(F[x].keys) >= MinKeys(F[x])
  BY UnderflowParts
<1>7. l # r /\ l \in DOMAIN up /\ up[l] # None /\ r \in DOMAIN up /\ up[r] # None
  BY <1>2, <1>3a, NeighbourNodes
<1>8. Fits(F[l], F[r])
  BY <1>2, <1>3a, NeighbourNodes
<1>8a. F[q].keys[s] \in Key
  <2>1. Good(F[q])
    BY <1>2, <1>3a, PageParts
  <2> QED
    BY <1>3a, <2>1, SeparatorKey DEF Beside
<1>9. Len(F[l].keys) \in Nat /\ MinKeys(F[l]) \in Nat
  BY <1>8, NodeSizes DEF Fits
<1>10. Len(F[r].keys) \in Nat /\ MinKeys(F[r]) \in Nat
  BY <1>8, NodeSizes DEF Fits
<1>11. MinKeys(F[l]) = MinKeys(F[r])
  BY <1>8 DEF MinKeys, Fits
<1>12. p \in {l, r}
  BY <1>4, <1>5
<1>13. CASE i > 1 /\ Len(F[l].keys) > MinKeys(F[l])
  <2>1. p = r /\ Len(F[r].keys) < MinKeys(F[r]) /\ Len(F[r].keys) + 1 >= MinKeys(F[r])
    BY <1>3, <1>4, <1>13
  <2>2. PICK b : b = FromLeft(F[l], F[r], F[q].keys[s])
    OBVIOUS
  <2>3. Lent(F[l], F[r], b.left, b.right) /\ Good(b.left) /\ Good(b.right) /\ b.sep \in Key
    BY <1>8, <1>8a, <1>13, <2>1, <2>2, LoanFromLeft
  <2>4. PICK node : node = WithSeparator(F[q], s, b.sep)
    OBVIOUS
  <2>5. LoanWrites(o2.writes, l, b.left, r, b.right, q, node)
    BY <1>13, <2>2, <2>4, LendsLeft
  <2> QED
    BY <1>3a, <2>3, <2>4, <2>5, LoanWritten
<1>14. CASE ~ (i > 1) /\ Len(F[r].keys) > MinKeys(F[r])
  <2>1. p = l /\ Len(F[l].keys) < MinKeys(F[l]) /\ Len(F[l].keys) + 1 >= MinKeys(F[l])
    BY <1>3, <1>5, <1>14
  <2>2. PICK b : b = FromRight(F[l], F[r], F[q].keys[s])
    OBVIOUS
  <2>3. Lent(F[l], F[r], b.left, b.right) /\ Good(b.left) /\ Good(b.right) /\ b.sep \in Key
    BY <1>8, <1>8a, <1>14, <2>1, <2>2, LoanFromRight
  <2>4. PICK node : node = WithSeparator(F[q], s, b.sep)
    OBVIOUS
  <2>5. LoanWrites(o2.writes, l, b.left, r, b.right, q, node)
    BY <1>14, <2>2, <2>4, LendsRight
  <2> QED
    BY <1>3a, <2>3, <2>4, <2>5, LoanWritten
<1>15. CASE IF i > 1 THEN ~ (Len(F[l].keys) > MinKeys(F[l])) ELSE ~ (Len(F[r].keys) > MinKeys(F[r]))
  <2>1. Sparse(F[l], F[r])
    <3>1. CASE i > 1
      <4>1. Len(F[r].keys) < MinKeys(F[l])
        BY <1>3, <1>4, <1>11, <3>1
      <4>2. Len(F[l].keys) >= MinKeys(F[l])
        BY <1>4, <1>6, <1>7, <3>1
      <4>3. ~ (Len(F[l].keys) > MinKeys(F[l]))
        BY <1>15, <3>1
      <4> QED
        BY <1>9, <1>10, <4>1, <4>2, <4>3, MergeSizes DEF Sparse
    <3>2. CASE ~ (i > 1)
      <4>1. Len(F[l].keys) < MinKeys(F[l])
        BY <1>3, <1>5, <3>2
      <4>2. Len(F[r].keys) >= MinKeys(F[l])
        BY <1>5, <1>6, <1>7, <1>11, <3>2
      <4>3. ~ (Len(F[r].keys) > MinKeys(F[l]))
        BY <1>11, <1>15, <3>2
      <4> QED
        BY <1>9, <1>10, <4>1, <4>2, <4>3, MergeSizes DEF Sparse
    <3> QED
      BY <3>1, <3>2
  <2>2. PICK left, node : left = Merged(F[l], F[r], F[q].keys[s]) /\ node = WithoutChild(F[q], s)
    OBVIOUS
  <2>3. MergeWrites(o2.writes, l, left, q, node)
    BY <1>15, <2>2, Merges
  <2> QED
    BY <1>3a, <2>1, <2>2, <2>3, MergeWritten
<1> QED
  BY <1>13, <1>14, <1>15, Zenon

-----------------------------------------------------------------------------
(***************************************************************************)
(* The actions.                                                            *)
(***************************************************************************)

SameCall(o, o2) ==
    o2.ix = o.ix /\ o2.key = o.key /\ o2.rid = o.rid /\ o2.kind = o.kind /\ o2.from = o.from

\* What there is to build on when a call has written all it had to write.
LEMMA AtRest ==
    ASSUME NEW c \in Client, IInv(c), op[c].do # "idle"
    PROVE  /\ op \in [Client -> Call] /\ op[c] \in Call
           /\ op[c].ix \in Index /\ op[c].key \in Key /\ op[c].rid \in Rid
           /\ op[c].kind \in {"insert", "remove"}
           /\ Root(c)[op[c].ix] = op[c].root
           /\ op[c].writes = <<>> => /\ IsFile(pages)
                                     /\ \E level, up : Sound(pages, level, up, Root(c), op[c])
<1>1. op \in [Client -> Call]
  BY DEF IInv, Types
<1>2. op[c].ix \in Index /\ op[c].key \in Key /\ op[c].rid \in Rid /\ op[c].kind \in {"insert", "remove"}
  BY DEF IInv, Called
<1>3. Root(c)[op[c].ix] = op[c].root
  BY <1>2 DEF Root
<1>4. ASSUME op[c].writes = <<>>
      PROVE  IsFile(pages) /\ \E level, up : Sound(pages, level, up, Root(c), op[c])
  <2>1. PICK F, level, up : OnDisk(pages, op[c].writes, F) /\ Sound(F, level, up, Root(c), op[c])
    BY DEF IInv
  <2>2. pages = F /\ IsFile(F)
    BY <1>4, <2>1, Settled
  <2> QED
    BY <2>1, <2>2
<1> QED
  BY <1>1, <1>2, <1>3, <1>4

\* The invariant after a step of a call that goes on.
LEMMA CallContinues ==
    ASSUME NEW c \in Client, IInv(c), op' \in [Client -> Call], op[c].do # "idle", op'[c].do # "idle",
           SameCall(op[c], op'[c]), roots' = roots, entered' = entered, NEW G, NEW level, NEW up,
           OnDisk(pages', op'[c].writes, G),
           Sound(G, level, up, [Root(c) EXCEPT ![op[c].ix] = op'[c].root], op'[c])
    PROVE  IInv(c)'
<1>1. op[c].ix \in Index
  BY AtRest
<1>2. Root(c)' = [Root(c) EXCEPT ![op[c].ix] = op'[c].root]
  BY <1>1 DEF Root, SameCall
<1>3. Types'
  BY DEF IInv, Types
<1>4. Root(c)'[op'[c].ix] = op'[c].root
  BY <1>1, <1>2 DEF Root, SameCall
<1>5. Called(Root(c)', roots', op'[c])
  BY <1>4 DEF IInv, Called, SameCall
<1>6. Sound(G, level, up, Root(c)', op'[c])
  BY <1>2
<1> QED
  BY <1>3, <1>5, <1>6 DEF IInv

LEMMA CallGoesOn ==
    ASSUME NEW c \in Client, IInv(c), op' \in [Client -> Call], op[c].do # "idle", op'[c].do # "idle",
           SameCall(op[c], op'[c]), op'[c].root = op[c].root, roots' = roots, entered' = entered,
           NEW G, NEW level, NEW up, OnDisk(pages', op'[c].writes, G), Sound(G, level, up, Root(c), op'[c])
    PROVE  IInv(c)'
<1>1. op[c].ix \in Index /\ Root(c)[op[c].ix] = op[c].root
  BY AtRest
<1>2. [Root(c) EXCEPT ![op[c].ix] = op'[c].root] = Root(c)
  BY <1>1 DEF Root
<1>3. Sound(G, level, up, [Root(c) EXCEPT ![op[c].ix] = op'[c].root], op'[c])
  BY <1>2
<1> QED
  BY <1>3, CallContinues

\* A call with other fields.
With(o, do, path, at, writes, root, up, child) ==
    [o EXCEPT !.do = do, !.path = path, !.at = at, !.writes = writes, !.root = root, !.up = up, !.child = child]
Becomes(c, do, path, at, writes, root, up, child) ==
    op' = [op EXCEPT ![c] = With(op[c], do, path, at, writes, root, up, child)]

LEMMA WithFields ==
    ASSUME NEW c \in Client, op \in [Client -> Call], NEW d, NEW p, NEW a, NEW w, NEW r, NEW u, NEW h,
           Becomes(c, d, p, a, w, r, u, h)
    PROVE  /\ op'[c].do = d /\ op'[c].path = p /\ op'[c].at = a /\ op'[c].writes = w
           /\ op'[c].root = r /\ op'[c].up = u /\ op'[c].child = h
           /\ SameCall(op[c], op'[c]) /\ op'[c].ix = op[c].ix
<1>1. op'[c] = With(op[c], d, p, a, w, r, u, h) /\ op[c] \in Call
  BY DEF Becomes
<1> QED
  BY <1>1 DEF Call, SameCall, With

LEMMA WithType ==
    ASSUME NEW c \in Client, op \in [Client -> Call], NEW d \in Steps, NEW p \in Seq(Frame),
           NEW a \in Pid \cup {None}, NEW w \in Seq(Write), NEW r \in Pid \cup {None},
           NEW u \in Int, NEW h \in Pid \cup {None},
           Becomes(c, d, p, a, w, r, u, h)
    PROVE  op' \in [Client -> Call]
<1>1. op[c] \in Call
  OBVIOUS
<1>2. With(op[c], d, p, a, w, r, u, h) \in Call
  BY <1>1, ZenonT(30) DEF Call, With
<1> QED
  BY <1>2 DEF Becomes

LEMMA DescendKeeps ==
    ASSUME NEW c \in Client, IInv(c), Descend(c)
    PROVE  IInv(c)'
<1>1. op[c].do = "descend" /\ op[c].writes = <<>>
  BY DEF Descend, Now
<1>2. /\ op \in [Client -> Call] /\ op[c] \in Call /\ op[c].kind \in {"insert", "remove"} /\ op[c].key \in Key
      /\ IsFile(pages)
  BY <1>1, AtRest
<1>3. PICK level, up : Sound(pages, level, up, Root(c), op[c])
  BY <1>1, AtRest
<1> DEFINE node == pages[op[c].at]
           i == IF node.leaf THEN 0 ELSE ChildIndex(node, op[c].key)
           p == Append(op[c].path, [pid |-> op[c].at, node |-> node, i |-> i])
           a == IF node.leaf THEN None ELSE node.children[i]
           d == IF node.leaf THEN op[c].kind ELSE "descend"
<1>4. /\ op' = [op EXCEPT ![c].path = p, ![c].at = a, ![c].do = d]
      /\ pages' = pages /\ roots' = roots /\ entered' = entered
  BY DEF Descend, rest
<1> HIDE DEF p, a, d
<1> DEFINE o == op[c]
<1>5. Becomes(c, d, p, a, o.writes, o.root, o.up, o.child)
  BY <1>2, <1>4, ZenonT(30) DEF Call, With, Becomes
<1>6. /\ op'[c].path = p /\ op'[c].at = a /\ op'[c].do = d /\ op'[c].ix = op[c].ix
      /\ op'[c].root = op[c].root /\ op'[c].writes = op[c].writes /\ SameCall(op[c], op'[c])
  BY <1>2, <1>5, WithFields
<1>7. PICK o2, j : o2 = op'[c] /\ j = i
  OBVIOUS
<1>8. o2.path \in Seq(Frame) /\ o2.at \in Pid \cup {None} /\ Sound(pages, level, up, Root(c), o2)
  BY <1>1, <1>2, <1>3, <1>6, <1>7, DescendSound DEF p, a, d
<1>9. d \in Steps /\ d # "idle"
  BY <1>2 DEF Steps, d
<1>10. op' \in [Client -> Call]
  BY <1>2, <1>5, <1>6, <1>7, <1>8, <1>9, WithType, CallParts
<1>11. OnDisk(pages', op'[c].writes, pages)
  BY <1>1, <1>2, <1>4, <1>6, NothingPlanned
<1> QED
  BY <1>1, <1>4, <1>6, <1>7, <1>8, <1>9, <1>10, <1>11, CallGoesOn

\* Sound does not look at writes.
LEMMA SoundOfSame ==
    ASSUME NEW F, NEW level, NEW up, NEW R, NEW o, Sound(F, level, up, R, o), NEW o2,
           o2.do = o.do, o2.path = o.path, o2.at = o.at, o2.root = o.root, o2.up = o.up, o2.child = o.child,
           o2.ix = o.ix
    PROVE  Sound(F, level, up, R, o2)
<1>1. Filled(F, up, o2) /\ RootsFilled(F, R, o2)
  BY DEF Sound, Filled, RootsFilled, Mending
<1>2. ASSUME o.do # "idle" PROVE Progress(F, level, up, R, o2)
  BY <1>2 DEF Sound, Progress, Arrives, TopRead, Carries
<1> QED
  BY <1>1, <1>2 DEF Sound

LEMMA WritePageKeeps ==
    ASSUME NEW c \in Client, IInv(c), WritePage(c)
    PROVE  IInv(c)'
<1>1. op[c].writes # <<>> /\ op \in [Client -> Call] /\ op[c] \in Call
  BY DEF WritePage, IInv, Types
<1>2. op[c].do # "idle"
  BY <1>1 DEF IInv, Called, Idle
<1>3. op[c].writes \in Seq(Write)
  BY <1>1, CallParts
<1>4. PICK F, level, up : OnDisk(pages, op[c].writes, F) /\ Sound(F, level, up, Root(c), op[c])
  BY DEF IInv
<1> DEFINE w == Head(op[c].writes)
<1>5. /\ pages' = Put(pages, w.pid, w.node)
      /\ op' = [op EXCEPT ![c].writes = Tail(op[c].writes)] /\ roots' = roots /\ entered' = entered
  BY DEF WritePage, Put
<1> DEFINE o == op[c]
<1>6a. Becomes(c, o.do, o.path, o.at, Tail(o.writes), o.root, o.up, o.child)
  BY <1>1, <1>5 DEF Call, With, Becomes
<1>6. /\ op'[c].writes = Tail(op[c].writes) /\ op'[c].do = op[c].do /\ op'[c].path = op[c].path
      /\ op'[c].at = op[c].at /\ op'[c].root = op[c].root /\ op'[c].up = op[c].up /\ op'[c].child = op[c].child
      /\ SameCall(op[c], op'[c]) /\ op'[c].ix = op[c].ix
  BY <1>1, <1>6a, WithFields
<1>7. op' \in [Client -> Call]
  <2>1. Tail(o.writes) \in Seq(Write)
    BY <1>1, <1>3
  <2> QED
    BY <1>1, <1>6a, <2>1, WithType, CallParts
<1>8. OnDisk(pages', op'[c].writes, F)
  BY <1>1, <1>3, <1>4, <1>5, <1>6, OneWritten
<1>9. PICK o2 : o2 = op'[c]
  OBVIOUS
<1>10. Sound(F, level, up, Root(c), o2)
  BY <1>4, <1>6, <1>9, SoundOfSame DEF SameCall
<1> QED
  BY <1>2, <1>5, <1>6, <1>7, <1>8, <1>9, <1>10, CallGoesOn

\* What is known of a call at rest and of the file.
AtStep(c, level, up) ==
    /\ op \in [Client -> Call] /\ op[c] \in Call
    /\ op[c].ix \in Index /\ op[c].key \in Key /\ op[c].rid \in Rid
    /\ Root(c)[op[c].ix] = op[c].root
    /\ IsFile(pages) /\ op[c].writes = <<>>
    /\ Sound(pages, level, up, Root(c), op[c])

LEMMA AtStepExists ==
    ASSUME NEW c \in Client, IInv(c), op[c].do # "idle", op[c].writes = <<>>
    PROVE  \E level, up : AtStep(c, level, up)
BY AtRest DEF AtStep

\* A step that leaves the root alone.
Goes(c, d, p, w, u, h) ==
    /\ Becomes(c, d, p, op[c].at, w, op[c].root, u, h)
    /\ pages' = pages /\ roots' = roots /\ entered' = entered

LEMMA GoesFields ==
    ASSUME NEW c \in Client, op \in [Client -> Call], NEW d, NEW p, NEW w, NEW u, NEW h, Goes(c, d, p, w, u, h)
    PROVE  /\ op'[c].do = d /\ op'[c].path = p /\ op'[c].writes = w
           /\ op'[c].root = op[c].root /\ op'[c].up = u /\ op'[c].child = h
           /\ SameCall(op[c], op'[c]) /\ op'[c].ix = op[c].ix
BY WithFields DEF Goes

LEMMA GoesKeeps ==
    ASSUME NEW c \in Client, IInv(c), op[c].do # "idle", op \in [Client -> Call],
           NEW d \in Steps, d # "idle", NEW p \in Seq(Frame), NEW w \in Seq(Write), NEW u \in Int,
           NEW h \in Pid \cup {None}, Goes(c, d, p, w, u, h),
           NEW G, NEW level, NEW up, OnDisk(pages, w, G), Sound(G, level, up, Root(c), op'[c])
    PROVE  IInv(c)'
<1>1. op[c] \in Call /\ op[c].at \in Pid \cup {None} /\ op[c].root \in Pid \cup {None}
  BY CallParts
<1>2. op' \in [Client -> Call]
  BY <1>1, WithType DEF Goes
<1>3. op'[c].do = d /\ op'[c].writes = w /\ op'[c].root = op[c].root /\ SameCall(op[c], op'[c])
  BY GoesFields
<1>4. pages' = pages /\ roots' = roots /\ entered' = entered
  BY DEF Goes
<1>5. OnDisk(pages', op'[c].writes, G)
  BY <1>3, <1>4
<1> QED
  BY <1>2, <1>3, <1>4, <1>5, CallGoesOn

\* The last frame is left, and nothing is written.
LEMMA PopKeeps ==
    ASSUME NEW c \in Client, IInv(c), NEW level, NEW up, AtStep(c, level, up),
           op[c].do \in {"remove", "leave_leaf", "unwind"}, op[c].path # <<>>,
           NEW p, p = Last(op[c].path).pid,
           op[c].do = "unwind" => p = op[c].root \/ Len(pages[p].keys) >= MinKeys(pages[p]),
           Goes(c, "unwind", Front(op[c].path), <<>>, op[c].up, op[c].child)
    PROVE  IInv(c)'
<1>1. /\ op \in [Client -> Call] /\ op[c] \in Call /\ op[c].ix \in Index /\ Root(c)[op[c].ix] = op[c].root
      /\ IsFile(pages) /\ Sound(pages, level, up, Root(c), op[c])
  BY DEF AtStep
<1>2. PICK o2 : o2 = op'[c]
  OBVIOUS
<1>3. o2.do = "unwind" /\ o2.path = Front(op[c].path) /\ o2.root = op[c].root /\ o2.ix = op[c].ix
  BY <1>1, <1>2, GoesFields
<1>4. o2.path \in Seq(Frame) /\ Sound(pages, level, up, Root(c), o2)
  BY <1>1, <1>3, PopSound
<1>5. OnDisk(pages, <<>>, pages) /\ <<>> \in Seq(Write)
  BY <1>1, NothingPlanned
<1>6. op[c].up \in Int /\ op[c].child \in Pid \cup {None}
  BY <1>1, CallParts
<1>7. "unwind" \in Steps /\ op[c].do # "idle"
  BY DEF Steps
<1> QED
  BY <1>1, <1>2, <1>3, <1>4, <1>5, <1>6, <1>7, GoesKeeps

LEMMA LeaveLeafKeeps ==
    ASSUME NEW c \in Client, IInv(c), LeaveLeaf(c)
    PROVE  IInv(c)'
<1>1. op[c].do = "leave_leaf" /\ op[c].writes = <<>>
  BY DEF LeaveLeaf, Now
<1>2. PICK level, up : AtStep(c, level, up)
  BY <1>1, AtStepExists
<1>3. op \in [Client -> Call]
  BY <1>2 DEF AtStep
<1>4. op[c].path # <<>>
  BY <1>1, <1>2 DEF AtStep, Sound, Progress
<1>5. /\ op' = [op EXCEPT ![c].path = Front(op[c].path), ![c].do = "unwind"]
      /\ pages' = pages /\ roots' = roots /\ entered' = entered
  BY DEF LeaveLeaf, rest
<1>6. Goes(c, "unwind", Front(op[c].path), <<>>, op[c].up, op[c].child)
  BY <1>1, <1>3, <1>5 DEF Call, With, Becomes, Goes
<1> QED
  BY <1>1, <1>2, <1>4, <1>6, PopKeeps

\* What Separate makes of the call, node being the parent's new contents.
Separates(F, o, o2, q, node) ==
    /\ q = o.path[Len(o.path) - 1].pid
    /\ node = WithSeparator(F[q], o.path[Len(o.path) - 1].i - 1, Last(o.path).node.keys[1])
    /\ o2.root = o.root /\ o2.ix = o.ix /\ o2.path = Front(o.path) /\ o2.do = "unwind"
    /\ o2.writes = <<[pid |-> q, node |-> node]>>

LEMMA SeparatesSound ==
    ASSUME NEW F, IsFile(F), NEW level, NEW up, NEW R, NEW o \in Call, Sound(F, level, up, R, o),
           o.do = "separate", o.ix \in Index, R[o.ix] = o.root, NEW o2, NEW q, NEW node,
           Separates(F, o, o2, q, node)
    PROVE  /\ o2.path \in Seq(Frame) /\ o2.writes \in Seq(Write)
           /\ OnDisk(F, o2.writes, Put(F, q, node)) /\ Sound(Put(F, q, node), level, up, R, o2)
<1>1. PICK n, i, p : n = Len(o.path) /\ i = o.path[n - 1].i /\ p = Last(o.path).pid
  OBVIOUS
<1> QED
  BY <1>1, SeparateSound, ZenonT(30) DEF Separates

LEMMA SeparateKeeps ==
    ASSUME NEW c \in Client, IInv(c), Separate(c)
    PROVE  IInv(c)'
<1>1. op[c].do = "separate" /\ op[c].writes = <<>>
  BY DEF Separate, Now
<1>2. PICK level, up : AtStep(c, level, up)
  BY <1>1, AtStepExists
<1>3. /\ op \in [Client -> Call] /\ op[c] \in Call /\ op[c].ix \in Index /\ Root(c)[op[c].ix] = op[c].root
      /\ IsFile(pages) /\ Sound(pages, level, up, Root(c), op[c])
  BY <1>2 DEF AtStep
<1> DEFINE o == op[c]
           n == Len(o.path)
           q == o.path[n - 1].pid
           i == o.path[n - 1].i
           node == WithSeparator(pages[q], i - 1, Last(o.path).node.keys[1])
           w == <<[pid |-> q, node |-> node]>>
<1>4. /\ op' = [op EXCEPT ![c].writes = w, ![c].path = Front(o.path), ![c].do = "unwind"]
      /\ pages' = pages /\ roots' = roots /\ entered' = entered
  BY ZenonT(30) DEF Separate, rest, Above, Top, WithSeparator
<1> HIDE DEF w
<1>5. Goes(c, "unwind", Front(o.path), w, o.up, o.child)
  BY <1>3, <1>4, ZenonT(30) DEF Call, With, Becomes, Goes
<1>6. PICK o2 : o2 = op'[c]
  OBVIOUS
<1>7. o2.do = "unwind" /\ o2.path = Front(o.path) /\ o2.root = o.root /\ o2.ix = o.ix /\ o2.writes = w
  BY <1>3, <1>5, <1>6, GoesFields
<1>8. Separates(pages, o, o2, q, node)
  BY <1>7 DEF w, Separates
<1> HIDE DEF q, node
<1>9. /\ o2.path \in Seq(Frame) /\ o2.writes \in Seq(Write)
      /\ OnDisk(pages, o2.writes, Put(pages, q, node)) /\ Sound(Put(pages, q, node), level, up, Root(c), o2)
  BY <1>1, <1>3, <1>8, SeparatesSound
<1>10. o.up \in Int /\ o.child \in Pid \cup {None}
  BY <1>3, CallParts
<1>11. "unwind" \in Steps /\ o.do # "idle"
  BY <1>1 DEF Steps
<1> QED
  BY <1>3, <1>5, <1>6, <1>7, <1>9, <1>10, <1>11, GoesKeeps


\* insertRecursive at one level of the tree.
LEMMA StoreKeeps ==
    ASSUME NEW c \in Client, IInv(c), NEW level, NEW up, AtStep(c, level, up),
           op[c].do \in {"insert", "insert_up"}, op[c].path # <<>>,
           NEW p, p = Top(c).pid, NEW node, Grown(pages, p, node),
           NEW above, Prepared(pages, level, up, Root(c), p, node, above),
           StoreOrSplit(c, node), pages' = pages, roots' = roots, entered' = entered
    PROVE  IInv(c)'
<1>1. /\ op \in [Client -> Call] /\ op[c] \in Call /\ op[c].ix \in Index /\ op[c].writes = <<>>
      /\ IsFile(pages) /\ Sound(pages, level, up, Root(c), op[c])
  BY DEF AtStep
<1>2. PICK o2, new, half : o2 = op'[c] /\ new = PageCount /\ half = Split(node, new)
  OBVIOUS
<1>3. op[c].do # "idle" /\ op[c].path \in Seq(Frame) /\ op[c].up \in Int /\ op[c].child \in Pid \cup {None}
  BY <1>1, CallParts
<1>4. Len(node.keys) \in Int /\ Degree \in Int
  BY DegreeHalves, NodeParts DEF Grown
<1>5. CASE Len(node.keys) < Degree
  <2> DEFINE w == <<[pid |-> p, node |-> node]>>
  <2>1. op' = [op EXCEPT ![c].writes = w, ![c].do = "finish"]
    BY <1>5 DEF StoreOrSplit
  <2> HIDE DEF w
  <2>2. Goes(c, "finish", op[c].path, w, op[c].up, op[c].child)
    BY <1>1, <2>1 DEF Call, With, Becomes, Goes
  <2>3. o2.do = "finish" /\ o2.path = op[c].path /\ o2.root = op[c].root /\ o2.ix = op[c].ix /\ o2.writes = w
    BY <1>1, <1>2, <2>2, GoesFields
  <2>4. Stores(pages, op[c], o2, p, node, new, half)
    BY <1>2, <1>5, <2>3 DEF Stores, w, Top, PageCount
  <2>5. /\ o2.path \in Seq(Frame) /\ o2.writes \in Seq(Write)
        /\ \E G, height, over : OnDisk(pages, o2.writes, G) /\ Sound(G, height, over, Root(c), o2)
    BY <1>1, <2>4, StoreOrSplitSound
  <2>6. "finish" \in Steps
    BY DEF Steps
  <2> QED
    BY <1>1, <1>2, <1>3, <2>2, <2>3, <2>5, <2>6, GoesKeeps
<1>6. CASE ~ (Len(node.keys) < Degree)
  <2> DEFINE w == <<[pid |-> p, node |-> half.left], [pid |-> new, node |-> half.right]>>
  <2>1. op' = [op EXCEPT ![c].writes = w, ![c].path = Front(op[c].path), ![c].up = half.up,
                         ![c].child = new, ![c].do = "insert_up"]
    BY <1>2, <1>6 DEF StoreOrSplit
  <2> HIDE DEF w
  <2>2. Goes(c, "insert_up", Front(op[c].path), w, half.up, new)
    BY <1>1, <2>1, ZenonT(30) DEF Call, With, Becomes, Goes
  <2>3. /\ o2.do = "insert_up" /\ o2.path = Front(op[c].path) /\ o2.root = op[c].root /\ o2.ix = op[c].ix
        /\ o2.writes = w /\ o2.up = half.up /\ o2.child = new
    BY <1>1, <1>2, <2>2, GoesFields
  <2>4. Stores(pages, op[c], o2, p, node, new, half)
    BY <1>2, <1>6, <2>3 DEF Stores, w, Top, PageCount
  <2>5. /\ o2.path \in Seq(Frame) /\ o2.writes \in Seq(Write)
        /\ Len(node.keys) >= Degree => o2.up \in Key /\ new \in Pid
        /\ \E G, height, over : OnDisk(pages, o2.writes, G) /\ Sound(G, height, over, Root(c), o2)
    BY <1>1, <2>4, StoreOrSplitSound
  <2>6. "insert_up" \in Steps
    BY DEF Steps
  <2>7. half.up \in Int /\ new \in Pid
    <3>1. Len(node.keys) >= Degree
      BY <1>4, <1>6
    <3>2. half.up \in Key /\ new \in Pid
      BY <2>3, <2>5, <3>1
    <3> QED
      BY <3>2, KeyType
  <2> QED
    BY <1>1, <1>2, <1>3, <2>2, <2>3, <2>5, <2>6, <2>7, GoesKeeps
<1> QED
  BY <1>5, <1>6

\* A leaf with an entry more.
Entered(leaf, node) == \E key \in Key, rid \in Rid : node = WithEntry(leaf, key, rid)

LEMMA EnteredLeaf ==
    ASSUME NEW F, IsFile(F), NEW level, NEW up, NEW R, Tree(F, level, up), NEW p \in DOMAIN up, F[p].leaf,
           NEW node, Entered(F[p], node)
    PROVE  Prepared(F, level, up, R, p, node, up) /\ Grown(F, p, node)
<1>1. PICK key \in Key, rid \in Rid : node = WithEntry(F[p], key, rid)
  BY DEF Entered
<1>2. /\ Prepared(F, level, up, R, p, node, up)
      /\ node \in Node /\ node.leaf /\ node.children = <<>> /\ Len(node.rids) = Len(node.keys)
      /\ Len(node.keys) >= Len(F[p].keys) /\ Len(node.keys) <= Degree
  BY <1>1, LeafPrepared, ZenonT(30)
<1>3. Distinct(node.children)
  BY <1>2, LeafKids
<1> QED
  BY <1>2, <1>3 DEF Grown

LEMMA InsertIntoLeafKeeps ==
    ASSUME NEW c \in Client, IInv(c), InsertIntoLeaf(c)
    PROVE  IInv(c)'
<1>1. op[c].do = "insert" /\ op[c].writes = <<>> /\ StoreOrSplit(c, WithEntry(Top(c).node, op[c].key, op[c].rid))
      /\ pages' = pages /\ roots' = roots /\ entered' = entered
  BY DEF InsertIntoLeaf, Now, rest
<1>2. PICK level, up : AtStep(c, level, up)
  BY <1>1, AtStepExists
<1>3. /\ op \in [Client -> Call] /\ op[c] \in Call /\ op[c].key \in Key /\ op[c].rid \in Rid
      /\ IsFile(pages) /\ Sound(pages, level, up, Root(c), op[c])
  BY <1>2 DEF AtStep
<1>4. PICK p, key, rid, node : /\ p = Top(c).pid /\ key = op[c].key /\ rid = op[c].rid
                               /\ node = WithEntry(Top(c).node, op[c].key, op[c].rid)
  OBVIOUS
<1>5. op[c].path # <<>> /\ Top(c).node = pages[p] /\ pages[p].leaf
  BY <1>1, <1>3, <1>4 DEF Sound, Progress, TopRead, Top
<1>6. Tree(pages, level, up) /\ Branch(pages, level, up, op[c].root, op[c].path) /\ op[c].path \in Seq(Frame)
  BY <1>1, <1>3, SoundParts
<1>7. p \in DOMAIN up
  BY <1>3, <1>4, <1>5, <1>6, TopParts DEF Top
<1>8. Entered(pages[p], node)
  BY <1>3, <1>4, <1>5 DEF Entered
<1>9. Prepared(pages, level, up, Root(c), p, node, up) /\ Grown(pages, p, node)
  BY <1>3, <1>5, <1>6, <1>7, <1>8, EnteredLeaf
<1> QED
  BY <1>1, <1>2, <1>4, <1>5, <1>9, StoreKeeps

LEMMA InsertIntoParentKeeps ==
    ASSUME NEW c \in Client, IInv(c), InsertIntoParent(c)
    PROVE  IInv(c)'
<1>1. /\ op[c].do = "insert_up" /\ op[c].writes = <<>> /\ op[c].path # <<>>
      /\ StoreOrSplit(c, WithChild(Top(c).node, Top(c).i, op[c].up, op[c].child))
      /\ pages' = pages /\ roots' = roots /\ entered' = entered
  BY DEF InsertIntoParent, Now, rest
<1>2. PICK level, up : AtStep(c, level, up)
  BY <1>1, AtStepExists
<1>3. /\ op \in [Client -> Call] /\ op[c] \in Call
      /\ IsFile(pages) /\ Sound(pages, level, up, Root(c), op[c])
  BY <1>2 DEF AtStep
<1>4. PICK p, node, i, key, child :
        /\ p = Top(c).pid /\ i = Top(c).i /\ key = op[c].up /\ child = op[c].child
        /\ node = WithChild(Top(c).node, Top(c).i, op[c].up, op[c].child)
  OBVIOUS
<1>5. Carries(pages, level, up, Root(c), op[c])
  BY <1>1, <1>3 DEF Sound, Progress
<1>6. Top(c).node = pages[p] /\ i \in 1..Len(pages[p].children) /\ key \in Key
  BY <1>1, <1>4, <1>5 DEF Carries, TopRead, Top
<1>7. /\ child \in DOMAIN up /\ up[child] = None /\ \A ix \in Index : Root(c)[ix] # child
      /\ Len(pages[child].keys) >= MinKeys(pages[child])
      /\ level[child] + Len(op[c].path) = level[op[c].root]
  BY <1>4, <1>5 DEF Carries
<1>8. Tree(pages, level, up) /\ Branch(pages, level, up, op[c].root, op[c].path) /\ op[c].path \in Seq(Frame)
  BY <1>1, <1>3, SoundParts
<1>9. /\ p \in DOMAIN up /\ level[p] \in Nat /\ level[p] + Len(op[c].path) = level[op[c].root] + 1
      /\ Len(op[c].path) \in Nat /\ level[op[c].root] \in Nat
  BY <1>1, <1>3, <1>4, <1>8, TopParts DEF Top
<1>10. level[child] \in Nat
  BY <1>7, <1>8, TreeDomain
<1>11. level[child] + 1 = level[p]
  BY <1>7, <1>9, <1>10, SMTT(30)
<1>12. node = WithChild(pages[p], i, key, child)
  BY <1>4, <1>6
<1>13. PICK above : above = Put(up, child, p)
  OBVIOUS
<1>14. /\ Prepared(pages, level, up, Root(c), p, node, Put(up, child, p))
       /\ node \in Node /\ ~ node.leaf /\ Len(node.children) = Len(node.keys) + 1
       /\ Distinct(node.children)
       /\ Len(node.keys) >= Len(pages[p].keys) /\ Len(node.keys) <= Degree
  BY <1>3, <1>6, <1>7, <1>8, <1>9, <1>11, <1>12, ParentPrepared, SMTT(30)
<1>15. Grown(pages, p, node)
  BY <1>14 DEF Grown
<1> QED
  BY <1>1, <1>2, <1>4, <1>14, <1>15, StoreKeeps


LEMMA GrowRootKeeps ==
    ASSUME NEW c \in Client, IInv(c), GrowRoot(c)
    PROVE  IInv(c)'
<1>1. op[c].do = "insert_up" /\ op[c].writes = <<>> /\ op[c].path = <<>>
  BY DEF GrowRoot, Now
<1>2. PICK level, up : AtStep(c, level, up)
  BY <1>1, AtStepExists
<1>3. /\ op \in [Client -> Call] /\ op[c] \in Call /\ op[c].ix \in Index /\ Root(c)[op[c].ix] = op[c].root
      /\ IsFile(pages) /\ Sound(pages, level, up, Root(c), op[c])
  BY <1>2 DEF AtStep
<1>4. PICK o, o2, ix, new, node : /\ o = op[c] /\ o2 = op'[c] /\ ix = op[c].ix /\ new = PageCount
                                  /\ node = Internal(<<op[c].up>>, <<op[c].root, op[c].child>>)
  OBVIOUS
<1> DEFINE w == <<[pid |-> new, node |-> node]>>
<1>5. /\ op' = [op EXCEPT ![c].writes = w, ![c].root = new, ![c].do = "finish"]
      /\ pages' = pages /\ roots' = roots /\ entered' = entered
  BY <1>4 DEF GrowRoot, rest
<1> HIDE DEF w
<1>6. Becomes(c, "finish", op[c].path, op[c].at, w, new, op[c].up, op[c].child)
  BY <1>3, <1>5, ZenonT(30) DEF Call, With, Becomes
<1>7. /\ o2.do = "finish" /\ o2.path = <<>> /\ o2.writes = w /\ o2.root = new /\ o2.ix = ix
      /\ SameCall(op[c], op'[c])
  BY <1>1, <1>3, <1>4, <1>6, WithFields
<1>8. Grows(pages, o, o2, ix, new, node)
  BY <1>4, <1>7 DEF Grows, w, PageCount
<1>9. /\ o2.writes \in Seq(Write) /\ new \in Pid
      /\ \E G, height, over : OnDisk(pages, o2.writes, G) /\ Sound(G, height, over, [Root(c) EXCEPT ![ix] = new], o2)
  BY <1>1, <1>3, <1>4, <1>8, GrowRootSound
<1>10. op' \in [Client -> Call]
  <2>1. "finish" \in Steps
    BY DEF Steps
  <2>2. w \in Seq(Write)
    BY <1>7, <1>9
  <2> QED
    BY <1>3, <1>6, <1>9, <2>1, <2>2, WithType, CallParts
<1> QED
  BY <1>1, <1>4, <1>5, <1>7, <1>9, <1>10, CallContinues

LEMMA ShrinkRootKeeps ==
    ASSUME NEW c \in Client, IInv(c), ShrinkRoot(c)
    PROVE  IInv(c)'
<1>1. op[c].do = "unwind" /\ op[c].writes = <<>> /\ op[c].path = <<>>
  BY DEF ShrinkRoot, Now
<1>2. PICK level, up : AtStep(c, level, up)
  BY <1>1, AtStepExists
<1>3. /\ op \in [Client -> Call] /\ op[c] \in Call /\ op[c].ix \in Index /\ Root(c)[op[c].ix] = op[c].root
      /\ IsFile(pages) /\ Sound(pages, level, up, Root(c), op[c])
  BY <1>2 DEF AtStep
<1>4. PICK o, o2, ix, child : o = op[c] /\ o2 = op'[c] /\ ix = op[c].ix /\ child = ShrunkRoot(op[c].root)
  OBVIOUS
<1>5. /\ op' = [op EXCEPT ![c].root = child, ![c].do = "finish"]
      /\ pages' = pages /\ roots' = roots /\ entered' = entered
  BY <1>4 DEF ShrinkRoot, rest
<1>6. Becomes(c, "finish", op[c].path, op[c].at, op[c].writes, child, op[c].up, op[c].child)
  BY <1>3, <1>5, ZenonT(30) DEF Call, With, Becomes
<1>7. /\ o2.do = "finish" /\ o2.path = <<>> /\ o2.writes = <<>> /\ o2.root = child /\ o2.ix = ix
      /\ SameCall(op[c], op'[c])
  BY <1>1, <1>3, <1>4, <1>6, WithFields
<1>8. Shrinks(pages, o, o2, ix, child)
  BY <1>4, <1>7 DEF Shrinks, ShrunkRoot
<1>9. /\ child \in Pid
      /\ \E above : Sound(pages, level, above, [Root(c) EXCEPT ![ix] = child], o2)
  BY <1>1, <1>3, <1>4, <1>8, ShrinkRootSound
<1>10. op' \in [Client -> Call]
  <2>1. "finish" \in Steps
    BY DEF Steps
  <2> QED
    BY <1>3, <1>6, <1>9, <2>1, WithType, CallParts
<1>11. OnDisk(pages, o2.writes, pages)
  BY <1>3, <1>7, NothingPlanned
<1> QED
  BY <1>1, <1>4, <1>5, <1>7, <1>9, <1>10, <1>11, CallContinues

LEMMA UnwindKeeps ==
    ASSUME NEW c \in Client, IInv(c), Unwind(c)
    PROVE  IInv(c)'
<1>1. op[c].do = "unwind" /\ op[c].writes = <<>> /\ op[c].path # <<>>
  BY DEF Unwind, Now
<1>2. PICK level, up : AtStep(c, level, up)
  BY <1>1, AtStepExists
<1>3. /\ op \in [Client -> Call] /\ op[c] \in Call /\ op[c].ix \in Index /\ Root(c)[op[c].ix] = op[c].root
      /\ IsFile(pages) /\ Sound(pages, level, up, Root(c), op[c]) /\ op[c].writes = <<>>
  BY <1>2 DEF AtStep
<1>4. PICK o, o2, p, node : o = op[c] /\ o2 = op'[c] /\ p = Last(op[c].path).pid /\ node = pages[p]
  OBVIOUS
<1>5. pages' = pages /\ roots' = roots /\ entered' = entered
  BY DEF Unwind, rest
<1>6. o.path \in Seq(Frame) /\ o.up \in Int /\ o.child \in Pid \cup {None}
  BY <1>3, <1>4, CallParts
<1>7. CASE p # op[c].root /\ Len(pages[p].keys) < MinKeys(pages[p])
  <2>1. op' = [op EXCEPT ![c].path[Len(op[c].path)].node = node, ![c].do = "underflow"]
    BY <1>4, <1>7 DEF Unwind, Top
  <2>2. op' = [op EXCEPT ![c] = [op[c] EXCEPT !.path = Renewed(op[c].path, node), !.do = "underflow"]]
    BY <1>3, <2>1 DEF Call, Renewed
  <2>3. Goes(c, "underflow", Renewed(op[c].path, node), <<>>, op[c].up, op[c].child)
    BY <1>3, <1>5, <2>2 DEF Call, With, Becomes, Goes
  <2>4. /\ o2.do = "underflow" /\ o2.path = Renewed(o.path, node) /\ o2.writes = <<>>
        /\ o2.root = o.root /\ o2.ix = o.ix
    BY <1>3, <1>4, <2>3, GoesFields
  <2>5. Rereads(pages, o, o2, p)
    BY <1>4, <2>4 DEF Rereads
  <2>6. o2.path \in Seq(Frame) /\ Sound(pages, level, up, Root(c), o2)
    BY <1>1, <1>3, <1>4, <1>7, <2>5, RereadSound
  <2>7. OnDisk(pages, <<>>, pages) /\ <<>> \in Seq(Write) /\ "underflow" \in Steps
    BY <1>3, NothingPlanned DEF Steps
  <2> QED
    BY <1>1, <1>3, <1>4, <1>6, <2>3, <2>4, <2>6, <2>7, GoesKeeps
<1>8. CASE ~ (p # op[c].root /\ Len(pages[p].keys) < MinKeys(pages[p]))
  <2>1. op' = [op EXCEPT ![c].path = Front(op[c].path)]
    BY <1>4, <1>8 DEF Unwind, Top
  <2>2. Goes(c, "unwind", Front(op[c].path), <<>>, op[c].up, op[c].child)
    BY <1>1, <1>3, <1>5, <2>1 DEF Call, With, Becomes, Goes
  <2>3. p = op[c].root \/ Len(pages[p].keys) >= MinKeys(pages[p])
    <3>1. Tree(pages, level, up) /\ Branch(pages, level, up, o.root, o.path)
      BY <1>1, <1>3, <1>4, SoundParts
    <3>2. Len(pages[p].keys) \in Nat /\ MinKeys(pages[p]) \in Nat
      BY <1>1, <1>3, <1>4, <1>6, <3>1, TopParts
    <3> QED
      BY <1>8, <3>2
  <2> QED
    BY <1>1, <1>2, <1>4, <2>2, <2>3, PopKeeps
<1> QED
  BY <1>7, <1>8

LEMMA FinishKeeps ==
    ASSUME NEW c \in Client, IInv(c), Finish(c)
    PROVE  IInv(c)'
<1>1. op[c].do = "finish" /\ op[c].writes = <<>>
  BY DEF Finish, Now
<1>2. PICK level, up : AtStep(c, level, up)
  BY <1>1, AtStepExists
<1>3. /\ op \in [Client -> Call] /\ op[c] \in Call /\ op[c].ix \in Index /\ op[c].key \in Key /\ op[c].rid \in Rid
      /\ Root(c)[op[c].ix] = op[c].root /\ IsFile(pages) /\ Sound(pages, level, up, Root(c), op[c])
  BY <1>2 DEF AtStep
<1>4. /\ op' = [op EXCEPT ![c] = Idle] /\ pages' = pages
      /\ roots' = IF op[c].root = op[c].from THEN roots ELSE [roots EXCEPT ![op[c].ix] = op[c].root]
      /\ entered' = [entered EXCEPT ![op[c].ix][op[c].key] =
                        IF op[c].kind = "insert" THEN Append(entered[op[c].ix][op[c].key], op[c].rid)
                        ELSE RemoveFirst(entered[op[c].ix][op[c].key], op[c].rid)]
  BY DEF Finish
<1>5. op[c].from = roots[op[c].ix] /\ roots \in [Index -> Pid] /\ entered \in [Index -> [Key -> Seq(Rid)]]
  BY <1>1 DEF IInv, Called, Types
<1>6. op'[c] = Idle
  BY <1>3, <1>4
<1>7. op' \in [Client -> Call]
  <2>1. Idle \in Call
    BY DEF Idle, Call, Steps
  <2> QED
    BY <1>3, <1>4, <2>1
<1>8. op[c].root \in Pid
  <2>1. Tree(pages, level, up) /\ Rooted(Root(c), up)
    BY <1>3 DEF Sound
  <2>2. op[c].root \in DOMAIN up
    BY <1>3, <2>1 DEF Rooted
  <2> QED
    BY <2>1, <2>2, TreeDomain
<1>9. roots' \in [Index -> Pid]
  BY <1>3, <1>4, <1>5, <1>8
<1>10. entered' \in [Index -> [Key -> Seq(Rid)]]
  <2> DEFINE s == entered[op[c].ix][op[c].key]
             t == IF op[c].kind = "insert" THEN Append(s, op[c].rid) ELSE RemoveFirst(s, op[c].rid)
  <2>1. s \in Seq(Rid)
    BY <1>3, <1>5
  <2>2. RemoveFirst(s, op[c].rid) \in Seq(Rid)
    BY <2>1, RemoveFirstType
  <2>3. t \in Seq(Rid)
    BY <1>3, <2>1, <2>2
  <2>4. entered' = [entered EXCEPT ![op[c].ix][op[c].key] = t]
    BY <1>4
  <2> HIDE DEF s, t
  <2> QED
    BY <1>3, <1>5, <2>3, <2>4
<1>11. Root(c)' = Root(c)
  <2>1. \A ix \in Index : roots'[ix] = IF op[c].ix = ix THEN op[c].root ELSE roots[ix]
    BY <1>3, <1>4, <1>5
  <2>2. \A ix \in Index : Root(c)[ix] = IF op[c].ix = ix THEN op[c].root ELSE roots[ix]
    BY <1>1 DEF Root
  <2>3. op'[c].do = "idle"
    BY <1>6 DEF Idle
  <2>4. \A ix \in Index : Root(c)'[ix] = roots'[ix]
    BY <2>3 DEF Root
  <2>5. DOMAIN Root(c) = Index /\ Root(c) = [ix \in Index |-> Root(c)[ix]]
    BY DEF Root
  <2>6. Root(c)' = [ix \in Index |-> Root(c)'[ix]]
    BY DEF Root
  <2> QED
    BY <2>1, <2>2, <2>4, <2>5, <2>6
<1>12. Sound(pages', level, up, Root(c)', op'[c])
  <2>1. Sound(pages, level, up, Root(c), Idle)
    BY <1>1, <1>3, FinishSound
  <2> QED
    BY <1>4, <1>6, <1>11, <2>1
<1>13. OnDisk(pages', op'[c].writes, pages')
  BY <1>3, <1>4, <1>6, NothingPlanned DEF Idle
<1>14. Called(Root(c)', roots', op'[c])
  BY <1>6 DEF Called, Idle
<1>15. Types'
  BY <1>7, <1>9, <1>10 DEF Types
<1> QED
  BY <1>12, <1>13, <1>14, <1>15 DEF IInv


LEMMA RemoveFromLeafKeeps ==
    ASSUME NEW c \in Client, IInv(c), RemoveFromLeaf(c)
    PROVE  IInv(c)'
<1>1. op[c].do = "remove" /\ op[c].writes = <<>>
  BY DEF RemoveFromLeaf, Now
<1>2. PICK level, up : AtStep(c, level, up)
  BY <1>1, AtStepExists
<1>3. /\ op \in [Client -> Call] /\ op[c] \in Call /\ op[c].ix \in Index /\ Root(c)[op[c].ix] = op[c].root
      /\ op[c].key \in Key
      /\ IsFile(pages) /\ Sound(pages, level, up, Root(c), op[c]) /\ op[c].writes = <<>>
  BY <1>2 DEF AtStep
<1>4. PICK o, o2, p, key, rid, leaf :
        /\ o = op[c] /\ o2 = op'[c] /\ p = Last(op[c].path).pid /\ key = op[c].key /\ rid = op[c].rid
        /\ leaf = pages[p]
  OBVIOUS
<1>5. pages' = pages /\ roots' = roots /\ entered' = entered
  BY DEF RemoveFromLeaf, rest
<1>6. o.path \in Seq(Frame) /\ o.up \in Int /\ o.child \in Pid \cup {None}
  BY <1>3, <1>4, CallParts
<1>7. Top(c).pid = p /\ Top(c).node = leaf /\ leaf.leaf /\ op[c].path # <<>>
  BY <1>1, <1>3, <1>4 DEF Sound, Progress, TopRead, Top
<1>8. /\ Tree(pages, level, up) /\ Branch(pages, level, up, op[c].root, op[c].path)
  BY <1>1, <1>3, SoundParts
<1>9. p \in DOMAIN up /\ Good(leaf)
  BY <1>3, <1>4, <1>6, <1>7, <1>8, TopParts
<1> DEFINE found == HasKey(leaf, key) /\ rid \in ToSet(leaf.rids[Position(leaf, key)])
<1>10. CASE ~ found
  <2>1. op' = [op EXCEPT ![c].path = Front(op[c].path), ![c].do = "unwind"]
    BY <1>4, <1>7, <1>10 DEF RemoveFromLeaf
  <2> HIDE DEF found
  <2>2. op \in [Client -> Call]
    BY <1>3
  <2>3. Goes(c, "unwind", Front(op[c].path), <<>>, op[c].up, op[c].child)
    BY <1>1, <1>5, <2>1, <2>2 DEF Call, With, Becomes, Goes
  <2> QED
    BY <1>1, <1>2, <1>4, <1>7, <2>3, PopKeeps
<1>11. CASE found
  <2> DEFINE left == WithoutEntry(leaf, key, rid)
             w == <<[pid |-> p, node |-> left]>>
             d == IF p = op[c].root THEN "leave_leaf"
                  ELSE IF Len(left.keys) < MinKeys(left) THEN "underflow"
                  ELSE IF Above(c).i > 1 THEN "separate"
                  ELSE "leave_leaf"
  <2>1. op' = [op EXCEPT ![c].writes = w, ![c].path[Len(op[c].path)].node = left, ![c].do = d]
    BY <1>4, <1>7, <1>11, ZenonT(30) DEF RemoveFromLeaf
  <2>2. HasKey(leaf, key)
    BY <1>11
  <2> HIDE DEF found
  <2>3. Good(left) /\ left.leaf /\ Len(left.keys) + 1 >= Len(leaf.keys)
    BY <1>3, <1>4, <1>7, <1>9, <2>2, WithoutEntryNode
  <2>4. left \in Node
    BY <2>3 DEF Good
  <2>5. /\ d \in Steps /\ d # "idle"
        /\ d = IF p = o.root THEN "leave_leaf"
               ELSE IF Len(left.keys) < MinKeys(left) THEN "underflow"
               ELSE IF o.path[Len(o.path) - 1].i > 1 THEN "separate"
               ELSE "leave_leaf"
    BY <1>4 DEF Steps, Above
  <2>6. w = <<[pid |-> p, node |-> left]>>
    OBVIOUS
  <2> HIDE DEF w, d, left
  <2>7. op' = [op EXCEPT ![c] = [op[c] EXCEPT !.writes = w, !.path = Renewed(op[c].path, left), !.do = d]]
    BY <1>3, <2>1 DEF Call, Renewed
  <2>8. Goes(c, d, Renewed(op[c].path, left), w, op[c].up, op[c].child)
    BY <1>3, <1>5, <2>7 DEF Call, With, Becomes, Goes
  <2>9. /\ o2.do = d /\ o2.path = Renewed(o.path, left) /\ o2.writes = w
        /\ o2.root = o.root /\ o2.ix = o.ix
    BY <1>3, <1>4, <2>8, GoesFields
  <2>10. Takes(o, o2, p, left)
    BY <1>4, <2>5, <2>6, <2>9 DEF Takes
  <2>11. /\ o2.path \in Seq(Frame) /\ o2.writes \in Seq(Write)
         /\ OnDisk(pages, o2.writes, Put(pages, p, left)) /\ Sound(Put(pages, p, left), level, up, Root(c), o2)
    BY <1>1, <1>3, <1>4, <2>3, <2>10, LeafWritten
  <2> QED
    BY <1>1, <1>3, <1>4, <1>6, <2>5, <2>8, <2>9, <2>11, GoesKeeps, ZenonT(30)
<1> QED
  BY <1>10, <1>11

LEMMA AppendPair ==
    ASSUME NEW x, NEW y, NEW z
    PROVE  Append(<<x, y>>, z) = <<x, y, z>>
<1> DEFINE S == {x, y, z}
           s == Append(<<x, y>>, z)
           t == <<x, y, z>>
<1>1. <<x, y>> \in Seq(S) /\ t \in Seq(S) /\ z \in S
  OBVIOUS
<1>2. s \in Seq(S) /\ Len(s) = 3 /\ s[1] = x /\ s[2] = y /\ s[3] = z
  BY <1>1, AppendProperties
<1>3. Len(t) = 3 /\ t[1] = x /\ t[2] = y /\ t[3] = z
  OBVIOUS
<1>4. \A i \in 1..Len(s) : s[i] = t[i]
  BY <1>2, <1>3
<1> HIDE DEF S, s, t
<1>5. s = t
  BY <1>1, <1>2, <1>3, <1>4, SeqEqual
<1> QED
  BY <1>5 DEF s, t

LEMMA UnderflowKeeps ==
    ASSUME NEW c \in Client, IInv(c), Underflow(c)
    PROVE  IInv(c)'
<1>1. op[c].do = "underflow" /\ op[c].writes = <<>>
  BY ZenonT(30) DEF Underflow, Now
<1>2. PICK level, up : AtStep(c, level, up)
  BY <1>1, AtStepExists
<1>3. /\ op \in [Client -> Call] /\ op[c] \in Call /\ op[c].ix \in Index /\ Root(c)[op[c].ix] = op[c].root
      /\ IsFile(pages) /\ Sound(pages, level, up, Root(c), op[c])
  BY <1>2 DEF AtStep
<1>4. PICK o, o2, p, q, i : /\ o = op[c] /\ o2 = op'[c] /\ p = Last(op[c].path).pid
                            /\ q = op[c].path[Len(op[c].path) - 1].pid
                            /\ i = op[c].path[Len(op[c].path) - 1].i
  OBVIOUS
<1>5. PICK s, parent : s = (IF i > 1 THEN i - 1 ELSE i) /\ parent = pages[q]
  OBVIOUS
<1>6. PICK lid, rid : lid = parent.children[s] /\ rid = parent.children[s + 1]
  BY SMTT(30)
<1>7. Mends(Root(c), o, p, q) /\ Turn(pages, o, q, i, s, lid, rid)
  BY <1>1, <1>3, <1>4, <1>5, <1>6, ZenonT(30) DEF Mends, Turn
<1>8. i > 1 => p = rid
  BY <1>3, <1>4, <1>7, UnderflowParts
<1>9. ~ (i > 1) => p = lid
  BY <1>3, <1>4, <1>7, UnderflowParts
<1>10. Top(c).node = pages[p] /\ Above(c).pid = q /\ Above(c).i = i
  BY <1>1, <1>3, <1>4, SMTT(30) DEF Sound, Progress, TopRead, Top, Above
<1> DEFINE l == IF i > 1 THEN pages[parent.children[s]] ELSE Top(c).node
           r == IF i > 1 THEN Top(c).node ELSE pages[parent.children[s + 1]]
           sep == parent.keys[s]
           lends == IF i > 1 THEN Len(l.keys) > MinKeys(l) ELSE Len(r.keys) > MinKeys(r)
           b == IF i > 1 THEN FromLeft(l, r, sep) ELSE FromRight(l, r, sep)
           without == [parent EXCEPT !.keys = RemoveAt(@, s), !.children = RemoveAt(@, s + 1)]
           lender == IF i > 1 THEN <<[pid |-> lid, node |-> b.left], [pid |-> rid, node |-> b.right]>>
                     ELSE <<[pid |-> rid, node |-> b.right], [pid |-> lid, node |-> b.left]>>
           w == IF lends
                THEN Append(lender, [pid |-> q, node |-> [parent EXCEPT !.keys[s] = b.sep]])
                ELSE <<[pid |-> lid, node |-> Merged(l, r, sep)], [pid |-> q, node |-> without]>>
<1>11. /\ op' = [op EXCEPT ![c].writes = w, ![c].path = Front(op[c].path), ![c].do = "unwind"]
       /\ pages' = pages /\ roots' = roots /\ entered' = entered
  BY <1>5, <1>6, <1>10, ZenonT(30) DEF Underflow, rest
<1>12. l = pages[lid] /\ r = pages[rid]
  BY <1>6, <1>8, <1>9, <1>10
<1> HIDE DEF l, r, w
<1>13. Goes(c, "unwind", Front(op[c].path), w, op[c].up, op[c].child)
  BY <1>3, <1>11, ZenonT(30) DEF Call, With, Becomes, Goes
<1>14. o2.do = "unwind" /\ o2.path = Front(o.path) /\ o2.root = o.root /\ o2.ix = o.ix /\ o2.writes = w
  BY <1>3, <1>4, <1>13, GoesFields
<1>15. UnderflowWrites(pages, i, q, s, lid, rid, w)
  <2> DEFINE node == WithSeparator(pages[q], s, b.sep)
  <2>1. w = IF lends
            THEN IF i > 1
                 THEN <<[pid |-> lid, node |-> b.left], [pid |-> rid, node |-> b.right], [pid |-> q, node |-> node]>>
                 ELSE <<[pid |-> rid, node |-> b.right], [pid |-> lid, node |-> b.left], [pid |-> q, node |-> node]>>
            ELSE <<[pid |-> lid, node |-> Merged(l, r, sep)], [pid |-> q, node |-> WithoutChild(pages[q], s)]>>
    <3>1. without = WithoutChild(pages[q], s)
      BY <1>5 DEF WithoutChild
    <3>2. [parent EXCEPT !.keys[s] = b.sep] = node
      BY <1>5 DEF WithSeparator
    <3>3. w = IF lends THEN Append(lender, [pid |-> q, node |-> node])
              ELSE <<[pid |-> lid, node |-> Merged(l, r, sep)], [pid |-> q, node |-> without]>>
      BY <3>2 DEF w
    <3> HIDE DEF b, node, without, lends, sep
    <3>4. Append(lender, [pid |-> q, node |-> node]) =
            IF i > 1
            THEN <<[pid |-> lid, node |-> b.left], [pid |-> rid, node |-> b.right], [pid |-> q, node |-> node]>>
            ELSE <<[pid |-> rid, node |-> b.right], [pid |-> lid, node |-> b.left], [pid |-> q, node |-> node]>>
      BY AppendPair
    <3> HIDE DEF lender
    <3> QED
      BY <3>1, <3>3, <3>4
  <2> QED
    BY <1>5, <1>12, <2>1, Zenon DEF UnderflowWrites
<1>16. Unwinds(o, o2)
  BY <1>14 DEF Unwinds
<1>17. UnderflowWrites(pages, i, q, s, lid, rid, o2.writes)
  BY <1>14, <1>15
<1>18. /\ o2.path \in Seq(Frame) /\ o2.writes \in Seq(Write)
       /\ \E G, height, over : OnDisk(pages, o2.writes, G) /\ Sound(G, height, over, Root(c), o2)
  BY <1>3, <1>4, <1>7, <1>16, <1>17, UnderflowSound
<1>19. "unwind" \in Steps /\ op[c].do # "idle" /\ op[c].up \in Int /\ op[c].child \in Pid \cup {None}
  BY <1>1, <1>3, CallParts DEF Steps
<1> QED
  BY <1>3, <1>4, <1>13, <1>14, <1>18, <1>19, GoesKeeps, ZenonT(30)

LEMMA BeginKeeps ==
    ASSUME NEW c \in Client, IInv(c), op[c].do = "idle", NEW kind \in {"insert", "remove"}, NEW ix \in Index,
           NEW key \in Key, NEW rid \in Rid, Begin(c, kind, ix, key, rid),
           pages' = pages, roots' = roots, entered' = entered
    PROVE  IInv(c)'
<1>1. /\ op \in [Client -> Call] /\ roots \in [Index -> Pid] /\ entered \in [Index -> [Key -> Seq(Rid)]]
      /\ op[c] = Idle /\ op[c].writes = <<>>
  BY DEF IInv, Types, Called, Idle
<1>2. PICK F, level, up : OnDisk(pages, op[c].writes, F) /\ Sound(F, level, up, Root(c), op[c])
  BY DEF IInv
<1>3. F = pages /\ IsFile(pages)
  BY <1>1, <1>2, Settled
<1> DEFINE call == [Idle EXCEPT !.do = "descend", !.kind = kind, !.ix = ix, !.key = key,
                                !.rid = rid, !.from = roots[ix], !.root = roots[ix], !.at = roots[ix]]
<1>4. op' = [op EXCEPT ![c] = call]
  BY DEF Begin
<1>5. /\ call.do = "descend" /\ call.kind = kind /\ call.ix = ix /\ call.key = key /\ call.rid = rid
      /\ call.from = roots[ix] /\ call.root = roots[ix] /\ call.at = roots[ix] /\ call.path = <<>>
      /\ call.writes = <<>>
  BY DEF Idle
<1>6. call \in Call
  <2>1. key \in Int /\ rid \in Int
    BY KeyType
  <2>2. roots[ix] \in Pid
    BY <1>1
  <2>3. Idle \in Call
    BY DEF Idle, Call, Steps
  <2>4. "descend" \in Steps
    BY DEF Steps
  <2> QED
    BY <2>1, <2>2, <2>3, <2>4 DEF Call
<1> HIDE DEF call
<1>7. op' \in [Client -> Call] /\ op'[c] = call
  BY <1>1, <1>4, <1>6
<1>8. Root(c)[ix] = roots[ix] /\ Root(c)' = Root(c)
  <2>1. \A jx \in Index : Root(c)[jx] = roots[jx]
    BY DEF Root
  <2>2. \A jx \in Index : Root(c)'[jx] = roots[jx]
    BY <1>5, <1>7 DEF Root
  <2>3. Root(c) = [jx \in Index |-> Root(c)[jx]] /\ Root(c)' = [jx \in Index |-> Root(c)'[jx]]
    BY DEF Root
  <2> QED
    BY <2>1, <2>2, <2>3
<1>9. Starts(Root(c), ix, call)
  BY <1>5, <1>8 DEF Starts
<1>10. Sound(pages, level, up, Root(c), call)
  BY <1>2, <1>3, <1>9, BeginSound
<1>11. OnDisk(pages', op'[c].writes, pages) /\ Sound(pages, level, up, Root(c)', op'[c])
  BY <1>3, <1>5, <1>7, <1>8, <1>10, NothingPlanned
<1>12. Called(Root(c)', roots', op'[c])
  BY <1>5, <1>7, <1>8 DEF Called
<1>13. Types'
  BY <1>1, <1>7 DEF Types
<1> QED
  BY <1>11, <1>12, <1>13 DEF IInv

LEMMA BeginsKeeps ==
    ASSUME NEW c \in Client, IInv(c), Begins(c)
    PROVE  IInv(c)'
<1>1. PICK ix \in Index, e \in Entry : InsertEntry(c, ix, e[1], e[2]) \/ DeleteEntry(c, ix, e[1], e[2])
  BY DEF Begins
<1>2. e[1] \in Key /\ e[2] \in Rid
  BY DEF Key, Rid
<1>3. \E kind \in {"insert", "remove"} : Begin(c, kind, ix, e[1], e[2])
  BY <1>1 DEF InsertEntry, DeleteEntry
<1>4. op[c].do = "idle" /\ pages' = pages /\ roots' = roots /\ entered' = entered
  BY <1>1 DEF InsertEntry, DeleteEntry, rest
<1> QED
  BY <1>2, <1>3, <1>4, BeginKeeps


-----------------------------------------------------------------------------
(***************************************************************************)
(* All steps together, where c is the only client.                         *)
(***************************************************************************)

LEMMA EmptyLeafGood == Good(EmptyLeaf) /\ Kids(EmptyLeaf) = {} /\ Distinct(EmptyLeaf.children) /\ EmptyLeaf.leaf
<1>1. /\ EmptyLeaf.leaf = TRUE /\ EmptyLeaf.keys = <<>> /\ EmptyLeaf.rids = <<>>
      /\ EmptyLeaf.children = <<>> /\ EmptyLeaf.next = None
  BY DEF EmptyLeaf, Leaf
<1>2. EmptyLeaf \in Node
  <2>1. <<>> \in Seq(Key) /\ <<>> \in Seq(Seq(Rid)) /\ <<>> \in Seq(Pid)
    OBVIOUS
  <2> QED
    BY <2>1 DEF EmptyLeaf, Leaf, Node
<1>3. Len(EmptyLeaf.keys) < Degree /\ Len(EmptyLeaf.rids) = Len(EmptyLeaf.keys)
  BY <1>1, DegreeHalves
<1> QED
  BY <1>1, <1>2, <1>3, LeafKids DEF Good

\* A file of empty leaves, all of them roots.
LEMMA EmptyTrees ==
    ASSUME NEW F, NEW D, D \subseteq Pid, F = [p \in D |-> EmptyLeaf], NEW level, level = [p \in D |-> 0],
           NEW up, up = [p \in D |-> None],
           NEW R, R \in [Index -> D], \A ix, jx \in Index : R[ix] = R[jx] => ix = jx
    PROVE  Sound(F, level, up, R, Idle)
<1>1. DOMAIN F = D /\ DOMAIN level = D /\ DOMAIN up = D
  OBVIOUS
<1>2. \A p \in D : F[p] = EmptyLeaf /\ level[p] = 0 /\ up[p] = None
  OBVIOUS
<1>3. \A p \in D : F[p].leaf = TRUE /\ Kids(F[p]) = {} /\ Distinct(F[p].children)
  BY <1>2, EmptyLeafGood DEF EmptyLeaf, Leaf
<1>4. Tree(F, level, up)
  BY <1>1, <1>2, <1>3 DEF Tree
<1>5. Rooted(R, up)
  BY <1>1, <1>2 DEF Rooted
<1>6. Filled(F, up, Idle)
  BY <1>1, <1>2 DEF Filled
<1>7. RootsFilled(F, R, Idle)
  BY <1>3 DEF RootsFilled
<1>8. Idle.do = "idle"
  BY DEF Idle
<1> QED
  BY <1>4, <1>5, <1>6, <1>7, <1>8 DEF Sound

LEMMA InitIInv ==
    ASSUME NEW c \in Client, Init
    PROVE  IInv(c)
<1> DEFINE n == Cardinality(Index)
           D == 0..(n - 1)
<1>1. n \in Nat
  BY FS_CardinalityType, SizesAssumption
<1>2. D \subseteq Pid /\ Cardinality(D) = n
  BY <1>1, Counted DEF Pid
<1>3. /\ pages = [p \in D |-> EmptyLeaf] /\ DOMAIN pages = D /\ roots \in [Index -> D]
      /\ \A ix, jx \in Index : roots[ix] = roots[jx] => ix = jx
  BY DEF Init, IsInjective
<1>4. op = [d \in Client |-> Idle] /\ op[c] = Idle
  BY DEF Init
<1> HIDE DEF n
<1>5. IsFile(pages)
  <2>1. \A p \in DOMAIN pages : Good(pages[p])
    BY <1>3, EmptyLeafGood
  <2>2. pages = [p \in DOMAIN pages |-> pages[p]]
    BY <1>3
  <2>3. DOMAIN pages = 0..(Cardinality(DOMAIN pages) - 1) /\ Cardinality(DOMAIN pages) \in Nat
    BY <1>1, <1>2, <1>3
  <2> QED
    BY <2>1, <2>2, <2>3 DEF IsFile
<1> HIDE DEF D
<1>6. Root(c) = roots
  <2>1. op[c].do = "idle"
    BY <1>4 DEF Idle
  <2> QED
    BY <1>3, <2>1 DEF Root
<1>7. PICK level, up : level = [p \in D |-> 0] /\ up = [p \in D |-> None]
  OBVIOUS
<1>8. Sound(pages, level, up, Root(c), op[c])
  <2>1. Sound(pages, level, up, roots, Idle)
    BY <1>2, <1>3, <1>7, EmptyTrees
  <2> QED
    BY <1>4, <1>6, <2>1
<1>9. OnDisk(pages, op[c].writes, pages)
  BY <1>4, <1>5, NothingPlanned DEF Idle
<1>10. Called(Root(c), roots, op[c])
  BY <1>4 DEF Called, Idle
<1>11. Types
  <2>1. Idle \in Call
    BY DEF Idle, Call, Steps
  <2>2. op \in [Client -> Call]
    BY <1>4, <2>1
  <2>3. roots \in [Index -> Pid]
    BY <1>2, <1>3
  <2>4. <<>> \in Seq(Rid)
    OBVIOUS
  <2>5. entered \in [Index -> [Key -> Seq(Rid)]]
    BY <2>4 DEF Init
  <2> QED
    BY <2>2, <2>3, <2>5 DEF Types
<1> QED
  BY <1>8, <1>9, <1>10, <1>11 DEF IInv

\* One lemma per action, under which the invariant is proved.
LEMMA NextIInv ==
    ASSUME NEW c \in Client, Client = {c}, IInv(c), [Next]_vars
    PROVE  IInv(c)'
<1>1. ASSUME Begins(c) PROVE IInv(c)'
  BY <1>1, BeginsKeeps
<1>2. ASSUME Continues(c) PROVE IInv(c)'
  <2>1. CASE Descend(c)
    BY <2>1, DescendKeeps
  <2>2. CASE WritePage(c)
    BY <2>2, WritePageKeeps
  <2>3. CASE InsertIntoLeaf(c)
    BY <2>3, InsertIntoLeafKeeps
  <2>4. CASE InsertIntoParent(c)
    BY <2>4, InsertIntoParentKeeps
  <2>5. CASE GrowRoot(c)
    BY <2>5, GrowRootKeeps
  <2>6. CASE RemoveFromLeaf(c)
    BY <2>6, RemoveFromLeafKeeps
  <2>7. CASE LeaveLeaf(c)
    BY <2>7, LeaveLeafKeeps
  <2>8. CASE Separate(c)
    BY <2>8, SeparateKeeps
  <2>9. CASE Underflow(c)
    BY <2>9, UnderflowKeeps
  <2>10. CASE Unwind(c)
    BY <2>10, UnwindKeeps
  <2>11. CASE ShrinkRoot(c)
    BY <2>11, ShrinkRootKeeps
  <2>12. CASE Finish(c)
    BY <2>12, FinishKeeps
  <2> QED
    BY <1>2, <2>1, <2>2, <2>3, <2>4, <2>5, <2>6, <2>7, <2>8, <2>9, <2>10, <2>11, <2>12, Zenon, ZenonT(30) DEF Continues
<1>3. CASE UNCHANGED vars
  <2>1. pages' = pages /\ roots' = roots /\ op' = op /\ entered' = entered
    BY <1>3 DEF vars
  <2>2. Root(c)' = Root(c)
    BY <2>1 DEF Root
  <2>3. Types'
    BY <2>1 DEF IInv, Types
  <2>4. Called(Root(c)', roots', op'[c])
    BY <2>1, <2>2 DEF IInv
  <2>5. \E F, level, up : OnDisk(pages', op'[c].writes, F) /\ Sound(F, level, up, Root(c)', op'[c])
    BY <2>1, <2>2 DEF IInv
  <2> QED
    BY <2>3, <2>4, <2>5 DEF IInv
<1>4. CASE Next
  BY <1>1, <1>2, <1>4 DEF Next
<1> QED
  BY <1>3, <1>4

LEMMA IInvTypeOK ==
    ASSUME NEW c \in Client, Client = {c}, IInv(c)
    PROVE  TypeOK
<1>1. /\ op \in [Client -> Call] /\ roots \in [Index -> Pid] /\ entered \in [Index -> [Key -> Seq(Rid)]]
  BY DEF IInv, Types
<1>2. IsFile(pages)
  BY DEF IInv, OnDisk
<1>3. DOMAIN pages = 0..(PageCount - 1) /\ \A p \in DOMAIN pages : Good(pages[p])
  BY <1>2 DEF IsFile, PageCount
<1>4. \A p \in DOMAIN pages :
        /\ pages[p] \in Node
        /\ Len(pages[p].keys) < Degree
        /\ IF pages[p].leaf THEN Len(pages[p].rids) = Len(pages[p].keys)
           ELSE Len(pages[p].children) = Len(pages[p].keys) + 1
  BY <1>3 DEF Good
<1>5. \A d \in Client : \A i \in 1..Len(op[d].writes) : op[d].writes[i].node \in Node
  <2> SUFFICES ASSUME NEW d \in Client, NEW i \in 1..Len(op[d].writes) PROVE op[d].writes[i].node \in Node
    OBVIOUS
  <2>1. op[d].writes \in Seq(Write)
    BY <1>1, CallParts
  <2>2. op[d].writes[i] \in Write
    BY <2>1
  <2> QED
    BY <2>2 DEF Write
<1> QED
  BY <1>1, <1>3, <1>4, <1>5 DEF TypeOK

LEMMA InvariantHolds ==
    ASSUME NEW CONSTANT c \in Client, Client = {c}
    PROVE  Spec => []IInv(c)
<1>1. Init => IInv(c)
  BY InitIInv
<1>2. IInv(c) /\ [Next]_vars => IInv(c)'
  BY NextIInv
<1> QED
  BY <1>1, <1>2, PTL DEF Spec

\* Every page the calls of one client ever leave in the file is a node of its
\* degree, with a list of record ids for each key or a child more than keys,
\* and what a call has yet to write is one as well (TypeOK: split, the loans,
\* the merges and the writes they hand to the file).
THEOREM TypeCorrect ==
    ASSUME NEW CONSTANT c \in Client, Client = {c}
    PROVE  Spec => []TypeOK
<1>1. IInv(c) => TypeOK
  BY IInvTypeOK
<1> QED
  BY <1>1, InvariantHolds, PTL


-----------------------------------------------------------------------------
(***************************************************************************)
(* Balance.  Balanced defines depth and below by recursion over the pages; *)
(* that the two exist, and what they are, follows from the heights.        *)
(***************************************************************************)

IsDepth(F, f) ==
    f = [p \in DOMAIN F |-> IF F[p].leaf THEN {1}
                            ELSE {d + 1 : d \in UNION {f[q] : q \in ToSet(F[p].children)}}]

IsBelow(F, f) ==
    f = [p \in DOMAIN F |-> ToSet(F[p].children) \cup UNION {f[q] : q \in ToSet(F[p].children)}]

LEMMA KidsAreSet ==
    ASSUME NEW node, node.children \in Seq(Pid)
    PROVE  ToSet(node.children) = Kids(node)
BY DEF ToSet, Kids

\* The children of any page of the file, a dead one included.
LEMMA FileKids ==
    ASSUME NEW F, IsFile(F), NEW level, NEW up, Tree(F, level, up), NEW p \in DOMAIN F
    PROVE  /\ level[p] \in Nat
           /\ ToSet(F[p].children) = Kids(F[p])
           /\ Kids(F[p]) \subseteq DOMAIN F
           /\ \A q \in Kids(F[p]) : level[q] \in Nat /\ level[q] + 1 = level[p]
           /\ F[p].leaf => level[p] = 0 /\ Kids(F[p]) = {}
           /\ ~ F[p].leaf => Kids(F[p]) # {}
<1>1. Good(F[p])
  BY DEF IsFile
<1>2. /\ F[p].children \in Seq(Pid) /\ (F[p].leaf => F[p].children = <<>>)
      /\ (~ F[p].leaf => F[p].children # <<>>)
  BY <1>1, NodeSizes
<1>3. ToSet(F[p].children) = Kids(F[p])
  BY <1>2, KidsAreSet
<1>4. level[p] \in Nat /\ Kids(F[p]) \subseteq DOMAIN F /\ F[p].leaf = (level[p] = 0)
  BY DEF Tree
<1>5. \A q \in Kids(F[p]) : level[q] \in Nat /\ level[q] + 1 = level[p]
  BY DEF Tree
<1>6. ASSUME F[p].leaf PROVE level[p] = 0 /\ Kids(F[p]) = {}
  BY <1>2, <1>4, <1>6, LeafKids
<1>7. ASSUME ~ F[p].leaf PROVE Kids(F[p]) # {}
  <2>1. Len(F[p].children) \in Nat /\ Len(F[p].children) >= 1
    BY <1>2, <1>7
  <2>2. F[p].children[1] \in Kids(F[p])
    BY <2>1 DEF Kids
  <2> QED
    BY <2>2
<1> QED
  BY <1>3, <1>4, <1>5, <1>6, <1>7

\* Among pages there is one that is not higher than another.
LEMMA LowestPage ==
    ASSUME NEW F, NEW level, NEW up, Tree(F, level, up), NEW S, S \subseteq DOMAIN F, S # {}
    PROVE  \E p \in S : \A q \in S : level[p] <= level[q]
<1>1. \A p \in S : level[p] \in Nat
  BY DEF Tree
<1> DEFINE L == {level[p] : p \in S}
<1>2. L \in SUBSET Nat /\ L # {}
  BY <1>1
<1>3. PICK m \in L : \A k \in L : m <= k
  <2> HIDE DEF L
  <2> QED
    BY <1>2, LeastElement
<1> QED
  BY <1>3

\* The depth of a page is its height, however the recursion is read.
LEMMA DepthExists ==
    ASSUME NEW F, IsFile(F), NEW level, NEW up, Tree(F, level, up)
    PROVE  \E f : IsDepth(F, f)
<1> DEFINE f == [p \in DOMAIN F |-> {level[p] + 1}]
           e(p) == IF F[p].leaf THEN {1} ELSE {d + 1 : d \in UNION {f[q] : q \in ToSet(F[p].children)}}
<1>1. \A p \in DOMAIN F : f[p] = e(p)
  <2>1. TAKE p \in DOMAIN F
  <2>2. /\ level[p] \in Nat
        /\ ToSet(F[p].children) = Kids(F[p]) /\ Kids(F[p]) \subseteq DOMAIN F
        /\ \A q \in Kids(F[p]) : level[q] \in Nat /\ level[q] + 1 = level[p]
        /\ (F[p].leaf => level[p] = 0) /\ (~ F[p].leaf => Kids(F[p]) # {})
    BY FileKids
  <2>3. CASE F[p].leaf
    BY <2>2, <2>3
  <2>4. CASE ~ F[p].leaf
    <3>1. \A q \in Kids(F[p]) : f[q] = {level[p]}
      BY <2>2
    <3> HIDE DEF f
    <3>2. UNION {f[q] : q \in Kids(F[p])} = {level[p]}
      BY <2>2, <2>4, <3>1
    <3>3. e(p) = {d + 1 : d \in {level[p]}}
      BY <2>2, <2>4, <3>2
    <3>4. {d + 1 : d \in {level[p]}} = {level[p] + 1}
      BY <2>2
    <3> QED
      BY <3>3, <3>4 DEF f
  <2> QED
    BY <2>3, <2>4
<1>2. f = [p \in DOMAIN F |-> e(p)]
  <2> HIDE DEF e
  <2> QED
    BY <1>1
<1>3. IsDepth(F, f)
  <2> HIDE DEF f
  <2> QED
    BY <1>2 DEF IsDepth
<1> QED
  BY <1>3

LEMMA DepthIsHeight ==
    ASSUME NEW F, IsFile(F), NEW level, NEW up, Tree(F, level, up), NEW f, IsDepth(F, f), NEW p \in DOMAIN F
    PROVE  f[p] = {level[p] + 1}
<1> DEFINE Bad == {q \in DOMAIN F : f[q] # {level[q] + 1}}
<1>1. ASSUME Bad # {} PROVE FALSE
  <2>1. PICK q \in Bad : \A x \in Bad : level[q] <= level[x]
    <3>1. Bad \subseteq DOMAIN F
      OBVIOUS
    <3> HIDE DEF Bad
    <3> QED
      BY <1>1, <3>1, LowestPage
  <2>2. /\ level[q] \in Nat
        /\ ToSet(F[q].children) = Kids(F[q]) /\ Kids(F[q]) \subseteq DOMAIN F
        /\ \A x \in Kids(F[q]) : level[x] \in Nat /\ level[x] + 1 = level[q]
        /\ (F[q].leaf => level[q] = 0) /\ (~ F[q].leaf => Kids(F[q]) # {})
    BY FileKids
  <2>3. \A x \in Kids(F[q]) : f[x] = {level[q]}
    <3>1. TAKE x \in Kids(F[q])
    <3>2. x \in DOMAIN F /\ level[x] \in Nat /\ level[x] + 1 = level[q]
      BY <2>2
    <3>3. x \notin Bad
      BY <2>1, <2>2, <3>2
    <3> QED
      BY <3>2, <3>3
  <2>4. f[q] = IF F[q].leaf THEN {1} ELSE {d + 1 : d \in UNION {f[x] : x \in ToSet(F[q].children)}}
    BY DEF IsDepth
  <2>5. CASE F[q].leaf
    BY <2>1, <2>2, <2>4, <2>5
  <2>6. CASE ~ F[q].leaf
    <3>1. UNION {f[x] : x \in Kids(F[q])} = {level[q]}
      BY <2>2, <2>3, <2>6
    <3>2. f[q] = {d + 1 : d \in {level[q]}}
      BY <2>2, <2>4, <2>6, <3>1
    <3>3. {d + 1 : d \in {level[q]}} = {level[q] + 1}
      BY <2>2
    <3> QED
      BY <2>1, <3>2, <3>3
  <2> QED
    BY <2>5, <2>6
<1> QED
  BY <1>1

\* What is below a page: the least set that holds its children and theirs.
LEMMA BelowExists ==
    ASSUME NEW F, IsFile(F), NEW level, NEW up, Tree(F, level, up)
    PROVE  \E f : IsBelow(F, f)
<1> DEFINE Closed(X) == \A r \in X : Kids(F[r]) \subseteq X
           f == [p \in DOMAIN F |-> {q \in DOMAIN F : \A X \in SUBSET DOMAIN F :
                                         Kids(F[p]) \subseteq X /\ Closed(X) => q \in X}]
           e(p) == ToSet(F[p].children) \cup UNION {f[q] : q \in ToSet(F[p].children)}
<1>0. \A p \in DOMAIN F : ToSet(F[p].children) = Kids(F[p]) /\ Kids(F[p]) \subseteq DOMAIN F
  BY FileKids
<1>1. \A p \in DOMAIN F : f[p] = e(p)
  <2>1. TAKE p \in DOMAIN F
  <2>2. Kids(F[p]) \subseteq f[p]
    BY <1>0
  <2>3. ASSUME NEW q \in Kids(F[p]), NEW x \in f[q] PROVE x \in f[p]
    <3>1. q \in DOMAIN F /\ x \in DOMAIN F
      BY <1>0
    <3>2. ASSUME NEW X \in SUBSET DOMAIN F, Kids(F[p]) \subseteq X, Closed(X) PROVE x \in X
      <4>1. Kids(F[q]) \subseteq X
        BY <3>2
      <4> QED
        BY <3>1, <3>2, <4>1
    <3> QED
      BY <3>1, <3>2
  <2>4. \A q \in DOMAIN F : \A r \in f[q] : Kids(F[r]) \subseteq f[q]
    <3> SUFFICES ASSUME NEW q \in DOMAIN F, NEW r \in f[q], NEW x \in Kids(F[r]) PROVE x \in f[q]
      OBVIOUS
    <3>1. r \in DOMAIN F /\ x \in DOMAIN F
      BY <1>0
    <3>2. ASSUME NEW X \in SUBSET DOMAIN F, Kids(F[q]) \subseteq X, Closed(X) PROVE x \in X
      <4>1. r \in X
        BY <3>1, <3>2
      <4> QED
        BY <3>2, <4>1
    <3> QED
      BY <3>1, <3>2
  <2> DEFINE Y == Kids(F[p]) \cup UNION {f[q] : q \in Kids(F[p])}
  <2>5. Y \subseteq DOMAIN F
    <3>1. \A q \in Kids(F[p]) : f[q] \subseteq DOMAIN F
      BY <1>0
    <3> HIDE DEF f
    <3> QED
      BY <1>0, <3>1
  <2>6. Closed(Y)
    <3> SUFFICES ASSUME NEW r \in Y, NEW x \in Kids(F[r]) PROVE x \in Y
      OBVIOUS
    <3>1. CASE r \in Kids(F[p])
      <4>1. x \in f[r]
        BY <1>0, <3>1
      <4> HIDE DEF f
      <4> QED
        BY <3>1, <4>1
    <3>2. CASE r \notin Kids(F[p])
      <4> HIDE DEF f
      <4>1. PICK q \in Kids(F[p]) : r \in f[q]
        BY <3>2
      <4>2. x \in f[q]
        BY <1>0, <2>4, <4>1
      <4> QED
        BY <4>2
    <3> QED
      BY <3>1, <3>2
  <2>7. f[p] \subseteq Y
    <3>1. Kids(F[p]) \subseteq Y
      OBVIOUS
    <3> HIDE DEF Y
    <3> QED
      BY <2>5, <2>6, <3>1
  <2>8. Y \subseteq f[p]
    <3> HIDE DEF f
    <3> QED
      BY <2>2, <2>3
  <2>9. Y = e(p)
    <3> HIDE DEF f
    <3> QED
      BY <1>0
  <2> QED
    BY <2>7, <2>8, <2>9, Zenon
<1>2. f = [p \in DOMAIN F |-> e(p)]
  <2> HIDE DEF e
  <2> QED
    BY <1>1
<1>3. IsBelow(F, f)
  <2> HIDE DEF f
  <2> QED
    BY <1>2 DEF IsBelow
<1> QED
  BY <1>3

\* Below a live page there are live pages with a parent.
LEMMA BelowIsLive ==
    ASSUME NEW F, IsFile(F), NEW level, NEW up, Tree(F, level, up), NEW f, IsBelow(F, f), NEW p \in DOMAIN up,
           NEW x \in f[p]
    PROVE  x \in DOMAIN up /\ up[x] # None
<1> DEFINE Live == {q \in DOMAIN up : up[q] # None}
           Bad == {q \in DOMAIN up : ~ (f[q] \subseteq Live)}
<1>1. ASSUME Bad # {} PROVE FALSE
  <2>1. PICK q \in Bad : \A y \in Bad : level[q] <= level[y]
    <3>1. Bad \subseteq DOMAIN F
      BY DEF Tree
    <3> HIDE DEF Bad
    <3> QED
      BY <1>1, <3>1, LowestPage
  <2>2. q \in DOMAIN up /\ q \in DOMAIN F /\ q \in Pid /\ q # None /\ level[q] \in Nat
    BY TreeDomain DEF Pid, None
  <2>3. ToSet(F[q].children) = Kids(F[q]) /\ \A y \in Kids(F[q]) : level[y] \in Nat /\ level[y] + 1 = level[q]
    BY <2>2, FileKids
  <2>4. \A y \in Kids(F[q]) : y \in DOMAIN up /\ up[y] = q
    BY <2>2 DEF Tree
  <2>5. \A y \in Kids(F[q]) : f[y] \subseteq Live
    <3>1. TAKE y \in Kids(F[q])
    <3>2. y \notin Bad
      BY <2>1, <2>2, <2>3
    <3> QED
      BY <2>4, <3>2
  <2>6. Kids(F[q]) \subseteq Live
    BY <2>2, <2>4
  <2>7. f[q] = ToSet(F[q].children) \cup UNION {f[y] : y \in ToSet(F[q].children)}
    BY <2>2 DEF IsBelow
  <2>8. f[q] \subseteq Live
    <3> HIDE DEF Live
    <3> QED
      BY <2>3, <2>5, <2>6, <2>7
  <2> QED
    BY <2>1, <2>8
<1> QED
  BY <1>1


\* The two functions of Balanced.
Depth == CHOOSE f : f = [p \in DOMAIN pages |->
                            IF pages[p].leaf THEN {1}
                            ELSE {d + 1 : d \in UNION {f[q] : q \in ToSet(pages[p].children)}}]
Below == CHOOSE f : f = [p \in DOMAIN pages |->
                            ToSet(pages[p].children) \cup UNION {f[q] : q \in ToSet(pages[p].children)}]

LEMMA DepthDefined ==
    ASSUME \E f : IsDepth(pages, f)
    PROVE  IsDepth(pages, Depth)
BY DEF Depth, IsDepth

LEMMA BelowDefined ==
    ASSUME \E f : IsBelow(pages, f)
    PROVE  IsBelow(pages, Below)
BY DEF Below, IsBelow

LEMMA BalancedParts ==
    ASSUME Quiet => \A ix \in Index :
              /\ Cardinality(Depth[roots[ix]]) = 1
              /\ \A p \in Below[roots[ix]] : Len(pages[p].keys) >= MinKeys(pages[p])
              /\ ~pages[roots[ix]].leaf => pages[roots[ix]].keys # <<>>
    PROVE  Balanced
BY DEF Balanced, Depth, Below

LEMMA IInvBalanced ==
    ASSUME NEW c \in Client, IInv(c)
    PROVE  Balanced
<1> SUFFICES ASSUME Quiet, NEW ix \in Index
             PROVE  /\ Cardinality(Depth[roots[ix]]) = 1
                    /\ \A p \in Below[roots[ix]] : Len(pages[p].keys) >= MinKeys(pages[p])
                    /\ ~pages[roots[ix]].leaf => pages[roots[ix]].keys # <<>>
  BY BalancedParts
<1>1. op[c] = Idle /\ op[c].do = "idle" /\ op[c].writes = <<>>
  BY DEF Quiet, IInv, Called, Idle
<1>2. Root(c) = roots
  BY <1>1 DEF Root, IInv, Types
<1>3. PICK F, level, up : OnDisk(pages, op[c].writes, F) /\ Sound(F, level, up, Root(c), op[c])
  BY DEF IInv
<1>4. pages = F /\ IsFile(pages)
  BY <1>1, <1>3, Settled
<1>5. /\ Tree(pages, level, up) /\ Rooted(roots, up) /\ Filled(pages, up, op[c])
      /\ RootsFilled(pages, roots, op[c])
  BY <1>2, <1>3, <1>4 DEF Sound
<1>6. roots[ix] \in DOMAIN up /\ roots[ix] \in DOMAIN pages
  BY <1>5, TreeDomain DEF Rooted
<1>7. Cardinality(Depth[roots[ix]]) = 1
  <2>1. IsDepth(pages, Depth)
    BY <1>4, <1>5, DepthExists, DepthDefined
  <2>2. Depth[roots[ix]] = {level[roots[ix]] + 1}
    BY <1>4, <1>5, <1>6, <2>1, DepthIsHeight
  <2> QED
    BY <2>2, FS_Singleton
<1>8. ASSUME NEW p \in Below[roots[ix]] PROVE Len(pages[p].keys) >= MinKeys(pages[p])
  <2>1. IsBelow(pages, Below)
    BY <1>4, <1>5, BelowExists, BelowDefined
  <2>2. p \in DOMAIN up /\ up[p] # None
    BY <1>4, <1>5, <1>6, <2>1, BelowIsLive
  <2> QED
    BY <1>1, <1>5, <2>2 DEF Filled, Mending
<1>9. ~pages[roots[ix]].leaf => pages[roots[ix]].keys # <<>>
  BY <1>1, <1>5 DEF RootsFilled
<1> QED
  BY <1>7, <1>8, <1>9

\* Whatever one client inserts and removes, in whatever order: between two
\* calls all leaves of an index are equally deep, no node but the root has
\* fewer keys than underflow handling may leave it with, and an internal root
\* has a key (Balanced: insert with its splits, remove with its loans, merges
\* and the collapse of the root).
THEOREM TreesBalanced ==
    ASSUME NEW CONSTANT c \in Client, Client = {c}
    PROVE  Spec => []Balanced
<1>1. IInv(c) => Balanced
  BY IInvBalanced
<1> QED
  BY <1>1, InvariantHolds, PTL

=============================================================================
