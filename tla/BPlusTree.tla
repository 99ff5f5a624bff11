------------------------------- MODULE BPlusTree -------------------------------
(***************************************************************************)
(* The B+ tree of B+tree.cpp, as the index manager runs it: InsertEntry,   *)
(* DeleteEntry and Search of index_manager.cpp over the pages of one index *)
(* file, which all indexes of a database share.                            *)
(*                                                                         *)
(* Every call builds a BPlusTree object of its own, with a mutex of its    *)
(* own, so calls of different clients interleave.  Going down, a call reads*)
(* one node in a step, and it writes one node in a step; an underflow reads*)
(* the parent and the neighbour in one.  Between two steps a call keeps    *)
(* what it has read in its stack frames (op.path) and what it has yet to   *)
(* write in op.writes.                                                     *)
(***************************************************************************)
EXTENDS Integers, Sequences, FiniteSets, SequencesExt, FiniteSetsExt

CONSTANTS
    Client,      \* the client threads that use the indexes
    Index,       \* the indexes in the file
    Entry,       \* the <<key, record id>> pairs entered and deleted
    Degree,      \* degree: a node with this many keys splits
    MaxPages,    \* bound: no insertion begins once the file has this many pages
    MaxRemovals  \* bound: calls of DeleteEntry

ASSUME SizesAssumption ==
    /\ IsFiniteSet(Index)
    /\ Entry \subseteq Int \X Nat
    /\ Degree \in Nat /\ Degree >= 3
    /\ MaxPages \in Nat
    /\ MaxRemovals \in Nat

Key == {e[1] : e \in Entry}
Rid == {e[2] : e \in Entry}
None == -1                  \* nextLeaf of the last leaf

VARIABLES
    pages,       \* the index file: page number -> node
    roots,       \* root_page_id of every index in the catalog
    op,          \* client -> its call in progress
    entered,     \* history: what the completed calls have entered and not deleted
    removals     \* history: calls of DeleteEntry so far

vars == <<pages, roots, op, entered, removals>>
rest == <<pages, roots, entered, removals>>    \* all but op

Leaf(keys, rids, next) ==
    [leaf |-> TRUE, keys |-> keys, rids |-> rids, children |-> <<>>, next |-> next]
Internal(keys, children) ==
    [leaf |-> FALSE, keys |-> keys, rids |-> <<>>, children |-> children, next |-> None]
EmptyLeaf == Leaf(<<>>, <<>>, None)

Idle == [do |-> "idle", kind |-> "none", ix |-> None, key |-> 0, rid |-> 0,
         from |-> None,             \* the root the catalog named
         root |-> None,             \* root_pid of this call's tree object
         at |-> None,               \* the page to read next
         path |-> <<>>,             \* stack frames: page, node as read, child taken
         writes |-> <<>>,           \* pages to write, in this order
         up |-> 0, child |-> None]  \* upKey and newChildPid of a split below

\* Every index has been created: createIndex has written an empty leaf.
Init ==
    /\ pages = [p \in 0..(Cardinality(Index) - 1) |-> EmptyLeaf]
    /\ roots \in {f \in [Index -> DOMAIN pages] : IsInjective(f)}
    /\ op = [c \in Client |-> Idle]
    /\ entered = [ix \in Index |-> [k \in Key |-> <<>>]]
    /\ removals = 0

PageCount == Cardinality(DOMAIN pages)

-----------------------------------------------------------------------------
(* Searching one node and splitting it. *)

\* Mutant of ChildIndex: key > keys[i] where the code has key >= keys[i].
ChildIndexStrict(node, key) ==
    Min({i \in 1..Len(node.keys) : node.keys[i] >= key} \cup {Len(node.keys) + 1})

\* The child to descend into: past every key that is not greater.
ChildIndex(node, key) ==
    Min({i \in 1..Len(node.keys) : node.keys[i] > key} \cup {Len(node.keys) + 1})

\* lower_bound
Position(node, key) ==
    Min({i \in 1..Len(node.keys) : node.keys[i] >= key} \cup {Len(node.keys) + 1})

HasKey(node, key) == \E i \in 1..Len(node.keys) : node.keys[i] = key

MinKeys(node) == IF node.leaf THEN Degree \div 2 ELSE (Degree + 1) \div 2 - 1

WithEntry(leaf, key, rid) ==
    LET i == Position(leaf, key)
    IN  IF HasKey(leaf, key)
        THEN [leaf EXCEPT !.rids[i] = Append(@, rid)]
        ELSE [leaf EXCEPT !.keys = InsertAt(@, i, key), !.rids = InsertAt(@, i, <<rid>>)]

\* Mutant of WithoutEntry: the emptied list of a key stays behind.
WithoutKeyOnly(leaf, key, rid) ==
    LET i == Position(leaf, key)
    IN  IF leaf.rids[i] = <<rid>>
        THEN [leaf EXCEPT !.keys = RemoveAt(@, i)]
        ELSE [leaf EXCEPT !.rids[i] = RemoveFirst(@, rid)]

WithoutEntry(leaf, key, rid) ==
    LET i == Position(leaf, key)
    IN  IF leaf.rids[i] = <<rid>>
        THEN [leaf EXCEPT !.keys = RemoveAt(@, i), !.rids = RemoveAt(@, i)]
        ELSE [leaf EXCEPT !.rids[i] = RemoveFirst(@, rid)]

WithChild(node, i, key, child) ==
    [node EXCEPT !.keys = InsertAt(@, i, key), !.children = InsertAt(@, i + 1, child)]

\* The two halves of a node with Degree keys and the key that goes up; the
\* new half will be page new.
Split(node, new) ==
    LET n == Len(node.keys)
        mid == n \div 2
    IN  IF node.leaf
        THEN [left |-> Leaf(SubSeq(node.keys, 1, mid), SubSeq(node.rids, 1, mid), new),
              right |-> Leaf(SubSeq(node.keys, mid + 1, n), SubSeq(node.rids, mid + 1, n), node.next),
              up |-> node.keys[mid + 1]]
        ELSE [left |-> Internal(SubSeq(node.keys, 1, mid), SubSeq(node.children, 1, mid + 1)),
              right |-> Internal(SubSeq(node.keys, mid + 2, n), SubSeq(node.children, mid + 2, n + 1)),
              up |-> node.keys[mid + 1]]

-----------------------------------------------------------------------------
(* Balancing two neighbours l and r with the separator sep between them.   *)

\* borrowFromLeftLeaf, borrowFromLeftInternal
FromLeft(l, r, sep) ==
    [left |-> [l EXCEPT !.keys = Front(@),
                        !.rids = IF l.leaf THEN Front(@) ELSE @,
                        !.children = IF l.leaf THEN @ ELSE Front(@)],
     right |-> IF l.leaf
               THEN [r EXCEPT !.keys = <<Last(l.keys)>> \o @, !.rids = <<Last(l.rids)>> \o @]
               ELSE [r EXCEPT !.keys = <<sep>> \o @, !.children = <<Last(l.children)>> \o @],
     sep |-> Last(l.keys)]

\* borrowFromRightLeaf, borrowFromRightInternal
FromRight(l, r, sep) ==
    [left |-> IF l.leaf
              THEN [l EXCEPT !.keys = Append(@, r.keys[1]), !.rids = Append(@, r.rids[1])]
              ELSE [l EXCEPT !.keys = Append(@, sep), !.children = Append(@, r.children[1])],
     right |-> [r EXCEPT !.keys = Tail(@),
                         !.rids = IF l.leaf THEN Tail(@) ELSE @,
                         !.children = IF l.leaf THEN @ ELSE Tail(@)],
     sep |-> IF l.leaf THEN r.keys[2] ELSE r.keys[1]]

\* Mutant of Merged: the leaf chain still leads to the page that was merged.
MergedKeepsNext(l, r, sep) ==
    IF l.leaf
    THEN [l EXCEPT !.keys = @ \o r.keys, !.rids = @ \o r.rids]
    ELSE [l EXCEPT !.keys = @ \o <<sep>> \o r.keys, !.children = @ \o r.children]

\* mergeLeafs, mergeInternals
Merged(l, r, sep) ==
    IF l.leaf
    THEN [l EXCEPT !.keys = @ \o r.keys, !.rids = @ \o r.rids, !.next = r.next]
    ELSE [l EXCEPT !.keys = @ \o <<sep>> \o r.keys, !.children = @ \o r.children]

-----------------------------------------------------------------------------
(* The calls.  Now(c, step) says that client c is about to do step and has *)
(* written all it had to write.                                            *)

Now(c, step) == op[c].do = step /\ op[c].writes = <<>>
Top(c) == Last(op[c].path)
Above(c) == op[c].path[Len(op[c].path) - 1]

\* InsertEntry and DeleteEntry ask the catalog for the root.
Begin(c, kind, ix, key, rid) ==
    op' = [op EXCEPT ![c] = [Idle EXCEPT !.do = "descend", !.kind = kind, !.ix = ix, !.key = key,
                                         !.rid = rid, !.from = roots[ix], !.root = roots[ix],
                                         !.at = roots[ix]]]

InsertEntry(c, ix, key, rid) ==
    /\ op[c].do = "idle"
    /\ PageCount < MaxPages
    /\ rid \notin ToSet(entered[ix][key])
    /\ Begin(c, "insert", ix, key, rid)
    /\ UNCHANGED rest

DeleteEntry(c, ix, key, rid) ==
    /\ op[c].do = "idle"
    /\ removals < MaxRemovals
    /\ removals' = removals + 1
    /\ Begin(c, "remove", ix, key, rid)
    /\ UNCHANGED <<pages, roots, entered>>

\* One node of the way down is read.
Descend(c) ==
    /\ Now(c, "descend")
    /\ LET node == pages[op[c].at]
           i == IF node.leaf THEN 0 ELSE ChildIndex(node, op[c].key)
       IN  op' = [op EXCEPT ![c].path = Append(@, [pid |-> op[c].at, node |-> node, i |-> i]),
                            ![c].at = IF node.leaf THEN None ELSE node.children[i],
                            ![c].do = IF node.leaf THEN op[c].kind ELSE "descend"]
    /\ UNCHANGED rest

\* The next node op wants on disk.  Writing past the end extends the file.
WritePage(c) ==
    /\ op[c].writes # <<>>
    /\ LET w == Head(op[c].writes)
       IN  pages' = [p \in DOMAIN pages \cup {w.pid} |-> IF p = w.pid THEN w.node ELSE pages[p]]
    /\ op' = [op EXCEPT ![c].writes = Tail(@)]
    /\ UNCHANGED <<roots, entered, removals>>

\* The node of the top frame has become node.  Below Degree keys it is
\* written and the insertion is over; otherwise it is split, the new half
\* going to the page after the last one.
StoreOrSplit(c, node) ==
    LET new == PageCount
        half == Split(node, new)
    IN  IF Len(node.keys) < Degree
        THEN op' = [op EXCEPT ![c].writes = <<[pid |-> Top(c).pid, node |-> node]>>,
                              ![c].do = "finish"]
        ELSE op' = [op EXCEPT ![c].writes = <<[pid |-> Top(c).pid, node |-> half.left],
                                              [pid |-> new, node |-> half.right]>>,
                              ![c].path = Front(@),
                              ![c].up = half.up,
                              ![c].child = new,
                              ![c].do = "insert_up"]

\* insertRecursive at the leaf
InsertIntoLeaf(c) ==
    /\ Now(c, "insert")
    /\ StoreOrSplit(c, WithEntry(Top(c).node, op[c].key, op[c].rid))
    /\ UNCHANGED rest

\* insertRecursive after a split below: the node is the one read on the way down.
InsertIntoParent(c) ==
    /\ Now(c, "insert_up")
    /\ op[c].path # <<>>
    /\ StoreOrSplit(c, WithChild(Top(c).node, Top(c).i, op[c].up, op[c].child))
    /\ UNCHANGED rest

\* insert after a split of the root
GrowRoot(c) ==
    /\ Now(c, "insert_up")
    /\ op[c].path = <<>>
    /\ op' = [op EXCEPT ![c].writes = <<[pid |-> PageCount,
                                         node |-> Internal(<<op[c].up>>, <<op[c].root, op[c].child>>)]>>,
                        ![c].root = PageCount,
                        ![c].do = "finish"]
    /\ UNCHANGED rest

\* deleteEntry at the leaf: what follows depends on how many keys are left.
RemoveFromLeaf(c) ==
    /\ Now(c, "remove")
    /\ LET leaf == Top(c).node
           found == /\ HasKey(leaf, op[c].key)
                    /\ op[c].rid \in ToSet(leaf.rids[Position(leaf, op[c].key)])
           left == WithoutEntry(leaf, op[c].key, op[c].rid)
       IN  IF ~found
           THEN op' = [op EXCEPT ![c].path = Front(@), ![c].do = "unwind"]
           ELSE op' = [op EXCEPT ![c].writes = <<[pid |-> Top(c).pid, node |-> left]>>,
                                 ![c].path[Len(op[c].path)].node = left,
                                 ![c].do = IF Top(c).pid = op[c].root THEN "leave_leaf"
                                           ELSE IF Len(left.keys) < MinKeys(left) THEN "underflow"
                                           ELSE IF Above(c).i > 1 THEN "separate"
                                           ELSE "leave_leaf"]
    /\ UNCHANGED rest

LeaveLeaf(c) ==
    /\ Now(c, "leave_leaf")
    /\ op' = [op EXCEPT ![c].path = Front(@), ![c].do = "unwind"]
    /\ UNCHANGED rest

\* The separator left of the leaf becomes the leaf's first key.
Separate(c) ==
    /\ Now(c, "separate")
    /\ LET parent == [pages[Above(c).pid] EXCEPT !.keys[Above(c).i - 1] = Top(c).node.keys[1]]
       IN  op' = [op EXCEPT ![c].writes = <<[pid |-> Above(c).pid, node |-> parent]>>,
                            ![c].path = Front(@),
                            ![c].do = "unwind"]
    /\ UNCHANGED rest

\* handleLeafUnderflow, handleInternalUnderflow: the node of the top frame
\* borrows from its left neighbour or is merged into it; the first child
\* turns to its right neighbour.  The page of a merged node is not freed.
\* (deleteEntry saves the parent once more, with the same contents.)
Underflow(c) ==
    /\ Now(c, "underflow")
    /\ LET parent == pages[Above(c).pid]
           i == Above(c).i
           s == IF i > 1 THEN i - 1 ELSE i              \* the pair is children s and s + 1
           l == IF i > 1 THEN pages[parent.children[s]] ELSE Top(c).node
           r == IF i > 1 THEN Top(c).node ELSE pages[parent.children[s + 1]]
           sep == parent.keys[s]
           lends == IF i > 1 THEN Len(l.keys) > MinKeys(l) ELSE Len(r.keys) > MinKeys(r)
           b == IF i > 1 THEN FromLeft(l, r, sep) ELSE FromRight(l, r, sep)
           lid == parent.children[s]
           rid == parent.children[s + 1]
           without == [parent EXCEPT !.keys = RemoveAt(@, s), !.children = RemoveAt(@, s + 1)]
           lender == IF i > 1 THEN <<[pid |-> lid, node |-> b.left], [pid |-> rid, node |-> b.right]>>
                     ELSE <<[pid |-> rid, node |-> b.right], [pid |-> lid, node |-> b.left]>>
       IN  op' = [op EXCEPT ![c].writes = IF lends
                                          THEN Append(lender, [pid |-> Above(c).pid,
                                                               node |-> [parent EXCEPT !.keys[s] = b.sep]])
                                          ELSE <<[pid |-> lid, node |-> Merged(l, r, sep)],
                                                 [pid |-> Above(c).pid, node |-> without]>>,
                            ![c].path = Front(@),
                            ![c].do = "unwind"]
    /\ UNCHANGED rest

\* deleteEntry after the call for the child: the node is read again.
Unwind(c) ==
    /\ Now(c, "unwind")
    /\ op[c].path # <<>>
    /\ LET node == pages[Top(c).pid]
       IN  IF Top(c).pid # op[c].root /\ Len(node.keys) < MinKeys(node)
           THEN op' = [op EXCEPT ![c].path[Len(op[c].path)].node = node, ![c].do = "underflow"]
           ELSE op' = [op EXCEPT ![c].path = Front(@)]
    /\ UNCHANGED rest

\* Mutant of ShrunkRoot: the root stays when its last key has gone.
RootStays(root) == root

\* remove: an internal root without keys gives way to its only child.
ShrunkRoot(root) ==
    LET node == pages[root]
    IN  IF ~node.leaf /\ node.keys = <<>> THEN node.children[1] ELSE root

\* Mutant of ShrinkRoot: it is repeated for as long as the root has no keys.
ShrinkWhileEmpty(c) ==
    /\ Now(c, "unwind")
    /\ op[c].path = <<>>
    /\ op' = [op EXCEPT ![c].root = ShrunkRoot(@),
                        ![c].do = IF pages[op[c].root].keys = <<>> THEN "unwind" ELSE "finish"]
    /\ UNCHANGED rest

ShrinkRoot(c) ==
    /\ Now(c, "unwind")
    /\ op[c].path = <<>>
    /\ op' = [op EXCEPT ![c].root = ShrunkRoot(@), ![c].do = "finish"]
    /\ UNCHANGED rest

\* The index manager stores the root in the catalog, if the call has changed
\* it, and returns.
Finish(c) ==
    /\ Now(c, "finish")
    /\ roots' = IF op[c].root = op[c].from THEN roots ELSE [roots EXCEPT ![op[c].ix] = op[c].root]
    /\ entered' = [entered EXCEPT ![op[c].ix][op[c].key] =
                      IF op[c].kind = "insert" THEN Append(@, op[c].rid) ELSE RemoveFirst(@, op[c].rid)]
    /\ op' = [op EXCEPT ![c] = Idle]
    /\ UNCHANGED <<pages, removals>>

Begins(c) ==
    \E ix \in Index, e \in Entry : InsertEntry(c, ix, e[1], e[2]) \/ DeleteEntry(c, ix, e[1], e[2])

Continues(c) ==
    \/ Descend(c)
    \/ WritePage(c)
    \/ InsertIntoLeaf(c)
    \/ InsertIntoParent(c)
    \/ GrowRoot(c)
    \/ RemoveFromLeaf(c)
    \/ LeaveLeaf(c)
    \/ Separate(c)
    \/ Underflow(c)
    \/ Unwind(c)
    \/ ShrinkRoot(c)
    \/ Finish(c)

Next == \E c \in Client : Begins(c) \/ Continues(c)

Spec == Init /\ [][Next]_vars

\* A call runs in the thread of its client, waits for nobody and reads and
\* writes a local file: it goes on as long as it has something to do.  That
\* a client ever calls is not assumed.
Fairness == \A c \in Client : WF_vars(Continues(c))
FairSpec == Spec /\ Fairness

-----------------------------------------------------------------------------
(* Searching: what the file shows to a reader. *)

\* The leaf search and searchRange arrive at from page p.
LeafFor(p, key) ==
    LET leaf[q \in DOMAIN pages] ==
            IF pages[q].leaf THEN q ELSE leaf[pages[q].children[ChildIndex(pages[q], key)]]
    IN  leaf[p]

\* The record ids under the keys low..high, from the leaf at p along the
\* chain of leaves, up to the first greater key.
Collected(p, low, high) ==
    LET from[q \in DOMAIN pages \cup {None}] ==
            IF q = None THEN <<>>
            ELSE LET node == pages[q]
                     wanted == {i \in 1..Len(node.keys) : node.keys[i] \in low..high}
                     here == FlattenSeq([i \in 1..Len(node.keys) |-> IF i \in wanted THEN node.rids[i] ELSE <<>>])
                 IN  IF \E i \in 1..Len(node.keys) : node.keys[i] > high
                     THEN here
                     ELSE here \o from[node.next]
    IN  from[p]

Search(ix, key) == Collected(LeafFor(roots[ix], key), key, key)
SearchRange(ix, low, high) == Collected(LeafFor(roots[ix], low), low, high)

-----------------------------------------------------------------------------
(***************************************************************************)
(* Properties.                                                             *)
(***************************************************************************)

Pid == Nat
Node == [leaf : BOOLEAN, keys : Seq(Key), rids : Seq(Seq(Rid)), children : Seq(Pid),
         next : Pid \cup {None}]

TypeOK ==
    /\ DOMAIN pages = 0..(PageCount - 1)
    /\ \A p \in DOMAIN pages :
          /\ pages[p] \in Node
          /\ Len(pages[p].keys) < Degree
          /\ IF pages[p].leaf THEN Len(pages[p].rids) = Len(pages[p].keys)
             ELSE Len(pages[p].children) = Len(pages[p].keys) + 1
    /\ roots \in [Index -> Pid]
    /\ \A c \in Client : \A i \in 1..Len(op[c].writes) : op[c].writes[i].node \in Node
    /\ entered \in [Index -> [Key -> Seq(Rid)]]

Quiet == \A c \in Client : op[c].do = "idle"

\* The index is an ordered multimap: a completed call has entered or deleted
\* exactly its own entry, through every split, loan and merge on the way
\* (insert, remove and search together).
Found == [ix \in Index |-> [k \in Key |-> Search(ix, k)]]
Multimap == INSTANCE OrderedMultimap WITH entries <- IF Quiet THEN Found ELSE entered
RefinesMultimap == Multimap!Spec

\* The chain of leaves and the tree above it agree: a range scan along the
\* chain returns what the searches for its keys return one by one
\* (searchRange against search; nextLeaf in splits and merges).
RangeIsSearches ==
    Quiet => \A ix \in Index : \A low, high \in Key :
        SearchRange(ix, low, high) =
            FlattenSeq([i \in 1..(high - low + 1) |->
                           IF low + i - 1 \in Key THEN Search(ix, low + i - 1) ELSE <<>>])

\* The tree stays balanced: all leaves of an index are equally deep, and no
\* node but the root has fewer keys than a node may be left with, however
\* insertions and removals follow each other (the underflow handlers and the
\* collapse of the root).
Balanced ==
    LET depth[p \in DOMAIN pages] ==
            IF pages[p].leaf THEN {1}
            ELSE {d + 1 : d \in UNION {depth[q] : q \in ToSet(pages[p].children)}}
        below[p \in DOMAIN pages] ==
            ToSet(pages[p].children) \cup UNION {below[q] : q \in ToSet(pages[p].children)}
    IN  Quiet => \A ix \in Index :
            /\ Cardinality(depth[roots[ix]]) = 1
            /\ \A p \in below[roots[ix]] : Len(pages[p].keys) >= MinKeys(pages[p])
            /\ ~pages[roots[ix]].leaf => pages[roots[ix]].keys # <<>>

\* Every call returns: no split, merge or new root ever leaves a path down the
\* tree that leads back to where it was, or a parent that its children's
\* underflows keep busy (insert, remove and what they call recursively).
EveryCallReturns == \A c \in Client : (op[c].do # "idle") ~> (op[c].do = "idle")

=============================================================================
