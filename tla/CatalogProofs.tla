----------------------------- MODULE CatalogProofs -----------------------------
(***************************************************************************)
(* Proofs about the catalog, for every set of clients, databases, tables   *)
(* and columns and any number of statements, sessions and kills: ids stay  *)
(* unique, every index has its table and its columns, the columns of a     *)
(* table do not overlap; and, while sessions follow one another, nothing   *)
(* a statement did is lost and no two tables share a page.                 *)
(*                                                                         *)
(* The first group is proved of single metadata, one lemma for each of the *)
(* changes a method makes; then of all the copies that sessions and files  *)
(* hold, which are only ever copied, replaced by the empty metadata, or    *)
(* changed by one of those methods.  The second group is about the order   *)
(* of the saves: SerialInv says what the copies and the files of the one   *)
(* session hold of what its calls have made.                               *)
(***************************************************************************)
EXTENDS Catalog, FiniteFacts, SequenceTheorems, TLAPS

-----------------------------------------------------------------------------
(* Highest numbers *)

\* A list of things with numbers: finite, and each has one.
Numbered(f) ==
    /\ IsFiniteSet(DOMAIN f)
    /\ \A x \in DOMAIN f : "id" \in DOMAIN f[x] /\ f[x].id \in Nat

\* The number that the Generate... methods give is above all there are.
LEMMA NewIdIsNew ==
    ASSUME NEW f, Numbered(f)
    PROVE  /\ NewId(f) \in Nat
           /\ \A x \in DOMAIN f : f[x].id < NewId(f)
<1> DEFINE Ids == {f[x].id : x \in DOMAIN f}
           g == [x \in DOMAIN f |-> f[x].id]
<1>1. g \in Surjection(DOMAIN f, Ids)
  BY DEF Surjection
<1>2. IsFiniteSet(Ids)
  BY <1>1, FS_Surjection DEF Numbered
<1>3. IsFiniteSet(Ids \cup {0})
  BY <1>2, FS_AddElement
<1>4. Ids \cup {0} \in SUBSET Nat /\ Ids \cup {0} # {}
  BY DEF Numbered
<1> DEFINE top == Max(Ids \cup {0})
<1>5. top \in Ids \cup {0} /\ \A y \in Ids \cup {0} : top >= y
  BY <1>3, <1>4, GreatestElement DEF Max
<1>6. NewId(f) = top + 1
  BY DEF NewId
<1>7. top \in Nat /\ \A x \in DOMAIN f : f[x].id \in Nat /\ top >= f[x].id
  BY <1>4, <1>5 DEF Numbered
<1> HIDE DEF top
<1> QED
  BY <1>6, <1>7

LEMMA NothingIsNumbered == Numbered(<<>>) /\ IdsAreDistinct(<<>>)
<1>1. DOMAIN <<>> = {}
  OBVIOUS
<1> QED
  BY <1>1, FS_EmptySet DEF Numbered, IdsAreDistinct

\* One more, or another under an old name, with a new number.
LEMMA OneMore ==
    ASSUME NEW f, NEW x, NEW y,
           Numbered(f), IdsAreDistinct(f),
           "id" \in DOMAIN y, y.id = NewId(f)
    PROVE  LET g == [z \in DOMAIN f \cup {x} |-> IF z = x THEN y ELSE f[z]]
           IN  Numbered(g) /\ IdsAreDistinct(g)
<1> DEFINE g == [z \in DOMAIN f \cup {x} |-> IF z = x THEN y ELSE f[z]]
<1>1. DOMAIN g = DOMAIN f \cup {x} /\ g[x] = y /\ \A z \in DOMAIN f \ {x} : g[z] = f[z]
  OBVIOUS
<1>2. IsFiniteSet(DOMAIN g)
  BY <1>1, FS_AddElement DEF Numbered
<1>3. NewId(f) \in Nat /\ \A z \in DOMAIN f : f[z].id \in Nat /\ f[z].id < NewId(f)
  BY NewIdIsNew DEF Numbered
<1> HIDE DEF g
<1>4. Numbered(g)
  BY <1>1, <1>2, <1>3 DEF Numbered
<1>5. \A z \in DOMAIN f \ {x} : g[z].id # g[x].id
  BY <1>1, <1>3
<1>6. IdsAreDistinct(g)
  BY <1>1, <1>5 DEF IdsAreDistinct
<1> QED
  BY <1>4, <1>6 DEF g

\* Some of them.
LEMMA Fewer ==
    ASSUME NEW f, NEW S \in SUBSET DOMAIN f, Numbered(f), IdsAreDistinct(f)
    PROVE  Numbered([z \in S |-> f[z]]) /\ IdsAreDistinct([z \in S |-> f[z]])
<1>1. IsFiniteSet(S)
  BY FS_Subset DEF Numbered
<1> QED
  BY <1>1 DEF Numbered, IdsAreDistinct

-----------------------------------------------------------------------------
(* One database's metadata *)

Plain(m) ==
    /\ DOMAIN m = {"tables", "indexes", "reads", "tableDropped"}
    /\ Numbered(m.tables) /\ IdsAreDistinct(m.tables)
    /\ Numbered(m.indexes) /\ IdsAreDistinct(m.indexes)
    /\ \A i \in DOMAIN m.indexes : IndexHasItsTable(m, i)

LEMMA EmptyIsPlain == Plain(EmptyMetadata)
<1> DEFINE m == EmptyMetadata
<1>1. DOMAIN m = {"tables", "indexes", "reads", "tableDropped"} /\ m.tables = <<>> /\ m.indexes = <<>>
  BY DEF EmptyMetadata
<1>2. \A i \in DOMAIN m.indexes : IndexHasItsTable(m, i)
  BY <1>1
<1> QED
  BY <1>1, <1>2, NothingIsNumbered DEF Plain

LEMMA CreateTableIsPlain ==
    ASSUME NEW m, NEW t, NEW names, NEW page, Plain(m), CanCreateTable(m, t)
    PROVE  Plain(CreateTable(m, t, names, page))
<1> DEFINE n == CreateTable(m, t, names, page)
           new == NewTable(m, names, page)
<1>1. DOMAIN n = DOMAIN m /\ n.indexes = m.indexes
      /\ n.tables = [x \in DOMAIN m.tables \cup {t} |-> IF x = t THEN new ELSE m.tables[x]]
  BY DEF Plain, CreateTable
<1>2. "id" \in DOMAIN new /\ new.id = NewId(m.tables)
  BY DEF NewTable
<1> HIDE DEF n, new
<1>3. Numbered(n.tables) /\ IdsAreDistinct(n.tables)
  BY <1>1, <1>2, OneMore DEF Plain, CanCreateTable
<1>4. \A i \in DOMAIN n.indexes : IndexHasItsTable(n, i)
  BY <1>1 DEF Plain, IndexHasItsTable, CanCreateTable
<1> QED
  BY <1>1, <1>3, <1>4 DEF Plain, n

\* The indexes that stay are those of other ids, hence of other tables.
LEMMA DropTableIsPlain ==
    ASSUME NEW m, Plain(m), NEW t \in DOMAIN m.tables
    PROVE  Plain(DropTable(m, t))
<1> DEFINE n == DropTable(m, t)
           kept == {j \in DOMAIN m.indexes : m.indexes[j].table # m.tables[t].id}
<1>1. DOMAIN n = DOMAIN m
      /\ n.tables = [x \in DOMAIN m.tables \ {t} |-> m.tables[x]]
      /\ n.indexes = [i \in kept |-> m.indexes[i]]
  BY DEF Plain, DropTable
<1>2. kept \in SUBSET DOMAIN m.indexes /\ DOMAIN m.tables \ {t} \in SUBSET DOMAIN m.tables
  OBVIOUS
<1>3. \A i \in kept : m.indexes[i].of # t /\ IndexHasItsTable(m, i)
  BY DEF Plain, IndexHasItsTable
<1> HIDE DEF n, kept
<1>4. Numbered(n.tables) /\ IdsAreDistinct(n.tables)
  BY <1>1, <1>2, Fewer DEF Plain
<1>5. Numbered(n.indexes) /\ IdsAreDistinct(n.indexes)
  BY <1>1, <1>2, Fewer DEF Plain
<1>6. \A i \in DOMAIN n.indexes : IndexHasItsTable(n, i)
  BY <1>1, <1>3 DEF IndexHasItsTable
<1> QED
  BY <1>1, <1>4, <1>5, <1>6 DEF Plain, n

LEMMA CreateIndexIsPlain ==
    ASSUME NEW m, NEW name, NEW t, NEW names,
           Plain(m), CanCreateIndex(m, t, names), name \notin DOMAIN m.indexes
    PROVE  Plain(CreateIndex(m, name, t, names))
<1> DEFINE n == CreateIndex(m, name, t, names)
           new == [id |-> NewId(m.indexes), table |-> m.tables[t].id, of |-> t, on |-> names,
                   cols |-> [k \in 1..Len(names) |-> m.tables[t].cols[Position(m.tables[t], names[k])].id]]
<1>1. DOMAIN n = DOMAIN m /\ n.tables = m.tables
      /\ n.indexes = [i \in DOMAIN m.indexes \cup {name} |-> IF i = name THEN new ELSE m.indexes[i]]
  BY DEF Plain, CreateIndex
<1>2. "id" \in DOMAIN new /\ new.id = NewId(m.indexes) /\ new.of = t /\ new.table = m.tables[t].id
  OBVIOUS
<1> HIDE DEF n, new
<1>3. Numbered(n.indexes) /\ IdsAreDistinct(n.indexes)
  BY <1>1, <1>2, OneMore DEF Plain
<1>4. \A i \in DOMAIN n.indexes : IndexHasItsTable(n, i)
  BY <1>1, <1>2 DEF Plain, IndexHasItsTable, CanCreateIndex
<1> QED
  BY <1>1, <1>3, <1>4 DEF Plain, n

\* What changes columns and counters only.
LEMMA ColumnsChanged ==
    ASSUME NEW m, NEW n, Plain(m), DOMAIN n = DOMAIN m, n.indexes = m.indexes,
           DOMAIN n.tables = DOMAIN m.tables,
           \A t \in DOMAIN m.tables : /\ DOMAIN n.tables[t] = DOMAIN m.tables[t]
                                     /\ n.tables[t].id = m.tables[t].id
    PROVE  Plain(n)
<1>1. Numbered(n.tables) /\ IdsAreDistinct(n.tables)
  BY DEF Plain, Numbered, IdsAreDistinct
<1>2. \A i \in DOMAIN n.indexes : IndexHasItsTable(n, i)
  BY DEF Plain, IndexHasItsTable
<1> QED
  BY <1>1, <1>2 DEF Plain

LEMMA NewColumnsArePlain ==
    ASSUME NEW m, Plain(m), NEW t, NEW cols
    PROVE  Plain([m EXCEPT !.tables[t].cols = cols])
<1> DEFINE n == [m EXCEPT !.tables[t].cols = cols]
           table == [m.tables[t] EXCEPT !.cols = cols]
<1>1. DOMAIN n = DOMAIN m /\ n.indexes = m.indexes /\ n.tables = [m.tables EXCEPT ![t] = table]
  BY DEF Plain
<1>2. DOMAIN table = DOMAIN m.tables[t] /\ table.id = m.tables[t].id
  OBVIOUS
<1> HIDE DEF n, table
<1>3. DOMAIN n.tables = DOMAIN m.tables
      /\ \A x \in DOMAIN m.tables : n.tables[x] = m.tables[x] \/ (x = t /\ n.tables[x] = table)
  BY <1>1
<1>4. Plain(n)
  BY <1>1, <1>2, <1>3, ColumnsChanged
<1> QED
  BY <1>4 DEF n

LEMMA ShrunkIsPlain ==
    ASSUME NEW m, Plain(m), NEW t
    PROVE  Plain([m EXCEPT !.tables[t].shrunk = TRUE])
<1> DEFINE n == [m EXCEPT !.tables[t].shrunk = TRUE]
           table == [m.tables[t] EXCEPT !.shrunk = TRUE]
<1>1. DOMAIN n = DOMAIN m /\ n.indexes = m.indexes /\ n.tables = [m.tables EXCEPT ![t] = table]
  BY DEF Plain
<1>2. DOMAIN table = DOMAIN m.tables[t] /\ table.id = m.tables[t].id
  OBVIOUS
<1> HIDE DEF n, table
<1>3. DOMAIN n.tables = DOMAIN m.tables
      /\ \A x \in DOMAIN m.tables : n.tables[x] = m.tables[x] \/ (x = t /\ n.tables[x] = table)
  BY <1>1
<1>4. Plain(n)
  BY <1>1, <1>2, <1>3, ColumnsChanged
<1> QED
  BY <1>4 DEF n

LEMMA ColumnChangesArePlain ==
    ASSUME NEW m, Plain(m), NEW t, NEW x, NEW marks
    PROVE  Plain(AddColumn(m, t, x)) /\ Plain(DropColumn(m, t, x)) /\ Plain(Marked(m, t, x, marks))
<1>1. Plain(AddColumn(m, t, x))
  BY NewColumnsArePlain, Zenon DEF AddColumn
<1>2. Plain(DropColumn(m, t, x))
  <2> DEFINE n == [m EXCEPT !.tables[t].cols = RemoveAt(@, Position(m.tables[t], x))]
  <2>1. Plain(n)
    BY NewColumnsArePlain, Zenon
  <2>2. DropColumn(m, t, x) = [n EXCEPT !.tables[t].shrunk = TRUE]
    BY Zenon DEF DropColumn
  <2> HIDE DEF n
  <2>3. Plain([n EXCEPT !.tables[t].shrunk = TRUE])
    BY <2>1, ShrunkIsPlain, Zenon
  <2> QED
    BY <2>2, <2>3, Zenon
<1>3. Plain(Marked(m, t, x, marks))
  <2> DEFINE cols == [m.tables[t].cols EXCEPT
                        ![Position(m.tables[t], x)] =
                           [m.tables[t].cols[Position(m.tables[t], x)] EXCEPT !.marks = marks]]
  <2>1. Marked(m, t, x, marks) = [m EXCEPT !.tables[t].cols = cols]
    BY Zenon DEF Marked
  <2> HIDE DEF cols
  <2>2. Plain([m EXCEPT !.tables[t].cols = cols])
    BY NewColumnsArePlain, Zenon
  <2> QED
    BY <2>1, <2>2, Zenon
<1> QED
  BY <1>1, <1>2, <1>3

LEMMA CountersArePlain ==
    ASSUME NEW m, Plain(m)
    PROVE  Plain(UpdateIOStats(m, 1)) /\ Plain(ResetStatistics(m))
<1> USE DEF Plain
<1> QED
  BY ColumnsChanged DEF UpdateIOStats, ResetStatistics

-----------------------------------------------------------------------------
(* The columns of tables and indexes *)

\* A table whose columns claim bytes of their own; and whose columns are
\* numbered from 1, as long as none has been dropped.
SoundTable(table) ==
    /\ table \in Table
    /\ ColumnsDisjoint(table)
    /\ ~table.shrunk => \A j \in 1..Len(table.cols) : table.cols[j].id = j

\* Until then the ids an index has kept are those of the columns it was made on.
FindsItsColumns(index, table) ==
    ~table.shrunk =>
      /\ Len(index.cols) = Len(index.on)
      /\ \A k \in 1..Len(index.on) :
           /\ index.cols[k] \in 1..Len(table.cols)
           /\ table.cols[index.cols[k]].name = index.on[k]

Sound(m) ==
    /\ IsMetadata(m)
    /\ \A t \in DOMAIN m.tables : SoundTable(m.tables[t])
    /\ \A i \in DOMAIN m.indexes : FindsItsColumns(m.indexes[i], m.tables[m.indexes[i].of])

Good(m) == Plain(m) /\ Sound(m)

\* ListIndexes finds every column, and those it was made on.
LEMMA ListsItsColumns ==
    ASSUME NEW table, SoundTable(table), ~table.shrunk,
           NEW index \in Index, FindsItsColumns(index, table)
    PROVE  ColumnNamesOf(table, index.cols) = index.on
<1> DEFINE ids == index.cols
           cols == table.cols
           hasId(i) == \E j \in 1..Len(cols) : cols[j].id = i
           found == Kept(ids, {k \in 1..Len(ids) : hasId(ids[k])})
           nameOf(i) == cols[CHOOSE k \in 1..Len(cols) : /\ cols[k].id = i
                                                         /\ \A l \in 1..(k - 1) : cols[l].id # i].name
<1>1. ids \in Seq(Nat) /\ index.on \in Seq(ColumnName) /\ cols \in Seq(Column)
  BY DEF Index, SoundTable, Table
<1>2. /\ \A j \in 1..Len(cols) : cols[j].id = j
      /\ Len(ids) = Len(index.on)
      /\ \A k \in 1..Len(ids) : ids[k] \in 1..Len(cols) /\ cols[ids[k]].name = index.on[k]
  BY DEF SoundTable, FindsItsColumns
<1>3. ColumnNamesOf(table, ids) = [i \in 1..Len(found) |-> nameOf(found[i])]
  BY DEF ColumnNamesOf
<1> HIDE DEF ids, cols
<1>4. {k \in 1..Len(ids) : hasId(ids[k])} = 1..Len(ids)
  BY <1>2
<1>5. found = ids
  BY <1>1, <1>4, KeptAll
<1>6. ASSUME NEW k \in 1..Len(ids) PROVE nameOf(ids[k]) = index.on[k]
  <2>1. \A j \in 1..Len(cols) :
          (cols[j].id = ids[k] /\ \A l \in 1..(j - 1) : cols[l].id # ids[k]) <=> j = ids[k]
    <3>1. ids[k] \in 1..Len(cols) /\ Len(cols) \in Nat
      BY <1>1, <1>2
    <3>2. \A j \in 1..Len(cols) : \A l \in 1..(j - 1) : l \in 1..Len(cols) /\ l # j
      BY <3>1
    <3> QED
      BY <1>2, <3>1, <3>2
  <2>2. (CHOOSE j \in 1..Len(cols) :
          cols[j].id = ids[k] /\ \A l \in 1..(j - 1) : cols[l].id # ids[k]) = ids[k]
    BY <1>2, <2>1
  <2> QED
    BY <1>2, <2>2
<1> HIDE DEF found, nameOf
<1>7. ColumnNamesOf(table, ids) = [i \in 1..Len(index.on) |-> index.on[i]]
  BY <1>2, <1>3, <1>5, <1>6
<1> QED
  BY <1>1, <1>7 DEF ids

\* GetColumnInfo finds a column that is there.
LEMMA PositionFound ==
    ASSUME NEW table \in Table, NEW x, HasColumn(table, x)
    PROVE  Position(table, x) \in 1..Len(table.cols) /\ table.cols[Position(table, x)].name = x
<1> DEFINE Places == {i \in 1..Len(table.cols) : table.cols[i].name = x}
<1>1. Places \in SUBSET Nat /\ Places # {} /\ Len(table.cols) \in Nat
  BY DEF HasColumn, Table
<1>2. PICK i \in Places : \A j \in Places : i <= j
  BY <1>1, LeastElement
<1>3. i \in 1..Len(table.cols) /\ table.cols[i].name = x /\ \A j \in 1..(i - 1) : table.cols[j].name # x
  BY <1>1, <1>2
<1> QED
  BY <1>3, Zenon DEF Position

\* The columns of a new table begin one behind another.  (Where a column
\* begins is defined by recursion: there is such a function up to every
\* column, for there is no first one without.)
LEMMA OffsetsAreDisjoint ==
    ASSUME NEW names \in Seq(ColumnName)
    PROVE  /\ \A i \in 1..Len(names) : Offsets(names)[i] \in Nat
           /\ \A i, j \in 1..Len(names) :
                i < j => Offsets(names)[i] + Width[names[i]] <= Offsets(names)[j]
<1> DEFINE n == Len(names)
           w(i) == Width[names[i]]
           Begins(f, k) == f = [i \in 1..k |-> IF i = 1 THEN 0 ELSE f[i - 1] + w(i - 1)]
<1>1. n \in Nat /\ \A i \in 1..n : w(i) \in Nat
  BY MetadataAssumption
<1>2. Offsets(names) = CHOOSE f : Begins(f, n)
  BY DEF Offsets
<1> HIDE DEF n, w
<1>3. ASSUME NEW k \in Nat, NEW f, Begins(f, k)
      PROVE  \E g : Begins(g, k + 1)
  <2> DEFINE g == [i \in 1..(k + 1) |-> IF i = k + 1 THEN (IF k = 0 THEN 0 ELSE f[k] + w(k)) ELSE f[i]]
  <2>1. \A i \in 1..k : f[i] = IF i = 1 THEN 0 ELSE f[i - 1] + w(i - 1)
    BY <1>3
  <2>2. \A i \in 1..(k + 1) : g[i] = IF i = 1 THEN 0 ELSE g[i - 1] + w(i - 1)
    BY <2>1
  <2>3. g = [i \in 1..(k + 1) |-> g[i]]
    OBVIOUS
  <2> HIDE DEF g
  <2>4. Begins(g, k + 1)
    BY <2>2, <2>3
  <2> QED
    BY <2>4
<1>4. \E f : Begins(f, n)
  <2> DEFINE Bad == {k \in Nat : ~ \E f : Begins(f, k)}
  <2>1. SUFFICES ASSUME Bad # {} PROVE FALSE
    BY <1>1
  <2>2. PICK k \in Bad : \A l \in Bad : k <= l
    BY <2>1, LeastElement
  <2>5. k \in Nat /\ \A l \in Nat : l < k => l \notin Bad
    <3>1. Bad \in SUBSET Nat
      OBVIOUS
    <3> HIDE DEF Bad
    <3> QED
      BY <2>2, <3>1
  <2>3. CASE k = 0
    <3>1. 1..0 = {}
      OBVIOUS
    <3>2. Begins(<<>>, 0)
      BY <3>1
    <3> QED
      BY <2>2, <2>3, <3>2
  <2>4. CASE k # 0
    <3>1. k - 1 \in Nat /\ k - 1 \notin Bad
      <4> HIDE DEF Bad
      <4> QED
        BY <2>4, <2>5
    <3>2. PICK f : Begins(f, k - 1)
      BY <3>1
    <3>3. \E g : Begins(g, (k - 1) + 1)
      <4> HIDE DEF Bad
      <4> DEFINE l == k - 1
      <4>1. l \in Nat /\ Begins(f, l)
        BY <3>1, <3>2
      <4> HIDE DEF l
      <4>2. \E g : Begins(g, l + 1)
        BY <1>3, <4>1
      <4> QED
        BY <4>2 DEF l
    <3>4. (k - 1) + 1 = k
      BY <2>5
    <3>5. k \notin Bad
      <4> HIDE DEF Begins
      <4> QED
        BY <3>3, <3>4
    <3> QED
      BY <2>2, <3>5
  <2> QED
    BY <2>3, <2>4
<1> DEFINE at == Offsets(names)
<1>5. Begins(at, n)
  BY <1>2, <1>4
<1>6. \A i \in 1..n : at[i] = IF i = 1 THEN 0 ELSE at[i - 1] + w(i - 1)
  BY <1>5
<1> HIDE DEF at
<1>7. \A i \in 1..n : at[i] \in Nat
  <2> DEFINE Bad == {i \in 1..n : at[i] \notin Nat}
  <2>1. SUFFICES ASSUME Bad # {} PROVE FALSE
    OBVIOUS
  <2>4. Bad \in SUBSET Nat
    BY <1>1
  <2>2. PICK i \in Bad : \A l \in Bad : i <= l
    BY <2>1, <2>4, LeastElement
  <2>3. i # 1 => i - 1 \in 1..n /\ i - 1 \notin Bad
    BY <1>1, <2>2
  <2> QED
    BY <1>1, <1>6, <2>2, <2>3
<1>8. ASSUME NEW i \in 1..n, NEW j \in 1..n, i < j
      PROVE  at[i] + w(i) <= at[j]
  <2> DEFINE Bad == {k \in 1..n : i < k /\ ~ (at[i] + w(i) <= at[k])}
  <2>1. SUFFICES ASSUME Bad # {} PROVE FALSE
    BY <1>8
  <2>6. Bad \in SUBSET Nat
    BY <1>1
  <2>2. PICK k \in Bad : \A l \in Bad : k <= l
    BY <2>1, <2>6, LeastElement
  <2>3. k - 1 \in 1..n /\ k # 1 /\ at[k] = at[k - 1] + w(k - 1)
    BY <1>1, <1>6, <2>2
  <2>4. CASE k - 1 = i
    BY <1>1, <1>7, <2>2, <2>3, <2>4
  <2>5. CASE k - 1 # i
    <3>1. i < k - 1 /\ k - 1 \notin Bad
      BY <1>1, <2>2, <2>3, <2>5
    <3>2. at[i] + w(i) <= at[k - 1]
      BY <2>3, <3>1
    <3> QED
      BY <1>1, <1>7, <2>2, <2>3, <3>2
  <2> QED
    BY <2>4, <2>5
<1> QED
  BY <1>7, <1>8 DEF at, n, w

-----------------------------------------------------------------------------
(* What each method does to sound metadata *)

LEMMA EmptyIsSound == Sound(EmptyMetadata)
<1> DEFINE m == EmptyMetadata
<1>1. DOMAIN m = {"tables", "indexes", "reads", "tableDropped"} /\ m.tables = <<>> /\ m.indexes = <<>>
      /\ m.reads \in Nat /\ m.tableDropped \in BOOLEAN
  BY DEF EmptyMetadata
<1>2. DOMAIN m.tables = {} /\ DOMAIN m.indexes = {}
  BY <1>1
<1> HIDE DEF m
<1>3. Sound(m)
  BY <1>1, <1>2 DEF Sound, IsMetadata
<1> QED
  BY <1>3 DEF m

LEMMA CreateTableIsSound ==
    ASSUME NEW m, Good(m), NEW t \in TableName, CanCreateTable(m, t),
           NEW names \in Seq(ColumnName), NEW page \in Nat
    PROVE  Sound(CreateTable(m, t, names, page))
<1> DEFINE n == CreateTable(m, t, names, page)
           new == NewTable(m, names, page)
           col(i) == [name |-> names[i], id |-> i, offset |-> Offsets(names)[i], marks |-> {"nullable"}]
           k == CopiedColumns(names)
<1>1. DOMAIN n = DOMAIN m /\ n.indexes = m.indexes /\ n.reads = m.reads /\ n.tableDropped = m.tableDropped
      /\ n.tables = [x \in DOMAIN m.tables \cup {t} |-> IF x = t THEN new ELSE m.tables[x]]
  BY DEF Good, Plain, CreateTable
<1>2. new = [id |-> NewId(m.tables), page |-> page, shrunk |-> FALSE, cols |-> [i \in 1..k |-> col(i)]]
  BY DEF NewTable
<1>3. NewId(m.tables) \in Nat
  BY NewIdIsNew DEF Good, Plain
<1>4. /\ k \in Nat /\ k <= Len(names) /\ Len(names) \in Nat
      /\ \A i \in 1..Len(names) : names[i] \in ColumnName
      /\ \A i \in 1..k : i \in 1..Len(names)
  <2>1. Len(names) \in Nat /\ MaxColumns \in Nat
    BY MetadataAssumption
  <2> QED
    BY <2>1 DEF CopiedColumns
<1> HIDE DEF k
<1>5. \A i \in 1..Len(names) : Offsets(names)[i] \in Nat
  BY OffsetsAreDisjoint
<1>6. \A i \in 1..k : col(i) \in Column
  BY <1>4, <1>5 DEF Column, Mark
<1>7. [i \in 1..k |-> col(i)] \in Seq(Column)
  <2> HIDE DEF col
  <2> QED
    BY <1>4, <1>6
<1>8. new \in Table
  <2> HIDE DEF col
  <2> QED
    BY <1>2, <1>3, <1>7 DEF Table
<1>9. Len(new.cols) = k
      /\ \A i \in 1..k : new.cols[i].name = names[i] /\ new.cols[i].id = i
                                  /\ new.cols[i].offset = Offsets(names)[i]
  BY <1>2, <1>4
<1> HIDE DEF n, new
<1>10. SoundTable(new)
  <2>1. ColumnsDisjoint(new)
    BY <1>4, <1>9, OffsetsAreDisjoint DEF ColumnsDisjoint
  <2> QED
    BY <1>4, <1>8, <1>9, <2>1 DEF SoundTable
<1>11. DOMAIN n.tables = DOMAIN m.tables \cup {t} /\ n.tables[t] = new
       /\ \A x \in DOMAIN m.tables : n.tables[x] = m.tables[x]
  BY <1>1 DEF CanCreateTable
<1>12. IsMetadata(n)
  BY <1>1, <1>8, <1>11 DEF Good, Sound, IsMetadata
<1>13. \A i \in DOMAIN n.indexes : n.tables[n.indexes[i].of] = m.tables[m.indexes[i].of]
  BY <1>1, <1>11 DEF Good, Plain, IndexHasItsTable
<1>14. Sound(n)
  BY <1>1, <1>10, <1>11, <1>12, <1>13 DEF Good, Sound
<1> QED
  BY <1>14 DEF n

LEMMA DropTableIsSound ==
    ASSUME NEW m, Good(m), NEW t \in DOMAIN m.tables
    PROVE  Sound(DropTable(m, t))
<1> DEFINE n == DropTable(m, t)
           kept == {j \in DOMAIN m.indexes : m.indexes[j].table # m.tables[t].id}
<1>1. DOMAIN n = DOMAIN m /\ n.reads = m.reads /\ n.tableDropped \in BOOLEAN
      /\ n.tables = [x \in DOMAIN m.tables \ {t} |-> m.tables[x]]
      /\ n.indexes = [i \in kept |-> m.indexes[i]]
  BY DEF Good, Plain, DropTable
<1>2. \A i \in kept : m.indexes[i].of # t /\ m.indexes[i].of \in DOMAIN m.tables
  BY DEF Good, Plain, IndexHasItsTable
<1>3. kept \subseteq DOMAIN m.indexes
  OBVIOUS
<1> HIDE DEF n, kept
<1>4. DOMAIN n.indexes = kept /\ \A i \in kept : n.indexes[i] = m.indexes[i]
                              /\ n.tables[n.indexes[i].of] = m.tables[m.indexes[i].of]
  BY <1>1, <1>2
<1>7. DOMAIN n.tables \subseteq DOMAIN m.tables /\ \A x \in DOMAIN n.tables : n.tables[x] = m.tables[x]
  BY <1>1
<1>5. IsMetadata(n)
  BY <1>1, <1>3, <1>4, <1>7 DEF Good, Sound, IsMetadata
<1>8. \A i \in DOMAIN n.indexes : FindsItsColumns(n.indexes[i], n.tables[n.indexes[i].of])
  BY <1>3, <1>4 DEF Good, Sound
<1>6. Sound(n)
  BY <1>5, <1>7, <1>8 DEF Good, Sound
<1> QED
  BY <1>6 DEF n

LEMMA CreateIndexIsSound ==
    ASSUME NEW m, NEW name \in IndexName, NEW t, NEW names \in Seq(ColumnName),
           Good(m), CanCreateIndex(m, t, names)
    PROVE  Sound(CreateIndex(m, name, t, names))
<1> DEFINE n == CreateIndex(m, name, t, names)
           table == m.tables[t]
           at(k) == Position(table, names[k])
           new == [id |-> NewId(m.indexes), table |-> table.id, of |-> t, on |-> names,
                   cols |-> [k \in 1..Len(names) |-> table.cols[at(k)].id]]
<1>1. DOMAIN n = DOMAIN m /\ n.tables = m.tables /\ n.reads = m.reads /\ n.tableDropped = m.tableDropped
      /\ n.indexes = [i \in DOMAIN m.indexes \cup {name} |-> IF i = name THEN new ELSE m.indexes[i]]
  BY DEF Good, Plain, CreateIndex
<1>2. NewId(m.indexes) \in Nat
  BY NewIdIsNew DEF Good, Plain
<1>3. t \in DOMAIN m.tables /\ t \in TableName /\ table \in Table /\ SoundTable(table)
  BY DEF CanCreateIndex, Good, Sound, IsMetadata
<1> HIDE DEF table
<1>4. \A k \in 1..Len(names) : at(k) \in 1..Len(table.cols) /\ table.cols[at(k)].name = names[k]
  BY <1>3, PositionFound DEF CanCreateIndex, table
<1>5. \A k \in 1..Len(names) : table.cols[at(k)].id \in Nat
  <2> HIDE DEF at
  <2>1. table.cols \in Seq(Column)
    BY <1>3 DEF Table
  <2>2. \A k \in 1..Len(names) : table.cols[at(k)] \in Column
    BY <1>4, <2>1
  <2> QED
    BY <2>2 DEF Column
<1>6. table.id \in Nat /\ Len(names) \in Nat
  BY <1>3 DEF Table
<1> HIDE DEF at
<1>7. [k \in 1..Len(names) |-> table.cols[at(k)].id] \in Seq(Nat)
  BY <1>5, <1>6
<1>8. new \in Index
  BY <1>2, <1>3, <1>6, <1>7 DEF Index
<1>9. FindsItsColumns(new, table)
  BY <1>3, <1>4, <1>6 DEF FindsItsColumns, SoundTable
<1>10. new.of = t
  OBVIOUS
<1> HIDE DEF n, new
<1>11. DOMAIN n.indexes = DOMAIN m.indexes \cup {name} /\ n.indexes[name] = new
       /\ \A i \in DOMAIN m.indexes \ {name} : n.indexes[i] = m.indexes[i]
  BY <1>1
<1>12. IsMetadata(n)
  BY <1>1, <1>8, <1>11 DEF Good, Sound, IsMetadata
<1>13. \A i \in DOMAIN n.indexes : FindsItsColumns(n.indexes[i], n.tables[n.indexes[i].of])
  BY <1>1, <1>9, <1>10, <1>11 DEF Good, Sound, table
<1>14. Sound(n)
  BY <1>1, <1>12, <1>13 DEF Good, Sound
<1> QED
  BY <1>14 DEF n

\* A table in place of another: indexes find their columns in it if the
\* columns keep their places and names, or some column has been dropped.
LEMMA TableReplaced ==
    ASSUME NEW m, Good(m), NEW t \in DOMAIN m.tables, NEW new, SoundTable(new),
           new.shrunk \/ /\ ~m.tables[t].shrunk /\ Len(m.tables[t].cols) <= Len(new.cols)
                         /\ \A j \in 1..Len(m.tables[t].cols) : new.cols[j].name = m.tables[t].cols[j].name
    PROVE  Sound([m EXCEPT !.tables[t] = new])
<1> DEFINE n == [m EXCEPT !.tables[t] = new]
           old == m.tables[t]
<1>1. DOMAIN n = DOMAIN m /\ n.indexes = m.indexes /\ n.reads = m.reads /\ n.tableDropped = m.tableDropped
      /\ n.tables = [m.tables EXCEPT ![t] = new]
  BY DEF Good, Plain
<1> HIDE DEF n
<1>2. DOMAIN n.tables = DOMAIN m.tables /\ n.tables[t] = new
      /\ \A x \in DOMAIN m.tables \ {t} : n.tables[x] = m.tables[x]
  BY <1>1
<1>3. IsMetadata(n)
  BY <1>1, <1>2 DEF Good, Sound, IsMetadata, SoundTable
<1>4. Len(old.cols) \in Nat /\ Len(new.cols) \in Nat
  BY DEF Good, Sound, SoundTable, Table
<1>5. ASSUME NEW i \in DOMAIN m.indexes, m.indexes[i].of = t PROVE FindsItsColumns(m.indexes[i], new)
  <2>1. SUFFICES ASSUME ~new.shrunk PROVE FindsItsColumns(m.indexes[i], new)
    BY DEF FindsItsColumns
  <2>2. FindsItsColumns(m.indexes[i], old) /\ ~old.shrunk /\ Len(old.cols) <= Len(new.cols)
        /\ \A j \in 1..Len(old.cols) : new.cols[j].name = old.cols[j].name
    BY <1>5, <2>1 DEF Good, Sound
  <2> HIDE DEF old
  <2>3. \A k \in 1..Len(old.cols) : k \in 1..Len(new.cols)
    BY <1>4, <2>2
  <2> QED
    BY <2>2, <2>3 DEF FindsItsColumns
<1>6. \A i \in DOMAIN n.indexes : FindsItsColumns(n.indexes[i], n.tables[n.indexes[i].of])
  BY <1>1, <1>2, <1>5 DEF Good, Sound, Plain, IndexHasItsTable
<1>7. Sound(n)
  BY <1>1, <1>2, <1>3, <1>6 DEF Good, Sound
<1> QED
  BY <1>7 DEF n

LEMMA AddColumnIsSound ==
    ASSUME NEW m, Good(m), NEW t \in DOMAIN m.tables, NEW x \in ColumnName,
           m.tables[t].cols # <<>>
    PROVE  Sound(AddColumn(m, t, x))
<1> DEFINE old == m.tables[t]
           cols == old.cols
           n == Len(cols)
           col == [name |-> x, id |-> n + 1, marks |-> {"nullable"},
                   offset |-> cols[n].offset + Width[cols[n].name]]
           new == [old EXCEPT !.cols = Append(cols, col)]
<1>1. old \in Table /\ SoundTable(old) /\ cols \in Seq(Column) /\ n \in Nat /\ n # 0
  BY DEF Good, Sound, SoundTable, Table
<1>2. \A j \in 1..n : cols[j] \in Column /\ cols[j].offset \in Nat /\ Width[cols[j].name] \in Nat
  <2> HIDE DEF cols
  <2>1. \A j \in 1..n : cols[j] \in Column
    BY <1>1
  <2> QED
    BY <2>1, MetadataAssumption DEF Column
<1>3. col \in Column
  <2>1. cols[n].offset + Width[cols[n].name] \in Nat
    BY <1>1, <1>2
  <2>2. n + 1 \in Nat /\ {"nullable"} \in SUBSET Mark
    BY <1>1 DEF Mark
  <2> HIDE DEF cols, n
  <2> QED
    BY <2>1, <2>2 DEF Column
<1>4. AddColumn(m, t, x) = [m EXCEPT !.tables[t] = new]
  BY Zenon DEF AddColumn
<1>5. new.cols = Append(cols, col) /\ new.shrunk = old.shrunk /\ new \in Table
  <2> HIDE DEF col
  <2>1. Append(cols, col) \in Seq(Column)
    BY <1>1, <1>3
  <2> QED
    BY <1>1, <2>1 DEF Table
<1>6. n \in 1..n /\ ColumnsDisjoint(old) /\ col.offset = cols[n].offset + Width[cols[n].name]
  BY <1>1 DEF SoundTable
<1> HIDE DEF new
<1>7. col.id = n + 1
  OBVIOUS
<1> HIDE DEF col
<1>8. Len(new.cols) = n + 1 /\ new.cols[n + 1] = col /\ \A j \in 1..n : new.cols[j] = cols[j]
  BY <1>1, <1>3, <1>5
<1>9. ColumnsDisjoint(new)
  <2>1. SUFFICES ASSUME NEW i \in 1..(n + 1), NEW j \in 1..(n + 1), i < j
                 PROVE  new.cols[i].offset + Width[new.cols[i].name] <= new.cols[j].offset
    BY <1>8 DEF ColumnsDisjoint
  <2>2. i \in 1..n /\ new.cols[i] = cols[i]
    BY <1>1, <1>8, <2>1
  <2>3. \A k \in 1..n : i < k => cols[i].offset + Width[cols[i].name] <= cols[k].offset
    BY <1>6, <2>2 DEF ColumnsDisjoint
  <2>4. CASE j \in 1..n
    BY <1>8, <2>1, <2>2, <2>3, <2>4
  <2>5. CASE j = n + 1
    <3>1. cols[i].offset + Width[cols[i].name] <= cols[n].offset + Width[cols[n].name]
      <4>1. CASE i = n
        BY <1>2, <2>2, <4>1
      <4>2. CASE i < n
        <5>1. cols[i].offset + Width[cols[i].name] <= cols[n].offset
          BY <1>6, <2>3, <4>2
        <5>2. /\ cols[i].offset \in Nat /\ Width[cols[i].name] \in Nat
              /\ cols[n].offset \in Nat /\ Width[cols[n].name] \in Nat
          BY <1>2, <1>6, <2>2
        <5> HIDE DEF cols, n
        <5> QED
          BY <5>1, <5>2
      <4> QED
        BY <1>1, <2>2, <4>1, <4>2
    <3> QED
      BY <1>6, <1>8, <2>2, <2>5, <3>1
  <2> QED
    BY <1>1, <2>1, <2>4, <2>5
<1>10. SoundTable(new)
  <2>1. ~new.shrunk => \A j \in 1..(n + 1) : new.cols[j].id = j
    BY <1>1, <1>5, <1>7, <1>8 DEF SoundTable
  <2> QED
    BY <1>5, <1>8, <1>9, <2>1 DEF SoundTable
<1>11. new.shrunk \/ /\ ~old.shrunk /\ Len(old.cols) <= Len(new.cols)
                     /\ \A j \in 1..Len(old.cols) : new.cols[j].name = old.cols[j].name
  BY <1>1, <1>5, <1>8 DEF Table
<1> HIDE DEF n
<1> QED
  BY <1>4, <1>10, <1>11, TableReplaced

\* What is left of a sequence without one of its elements.
LEMMA RemoveAtProperties ==
    ASSUME NEW S, NEW s \in Seq(S), NEW p \in 1..Len(s)
    PROVE  /\ RemoveAt(s, p) \in Seq(S)
           /\ Len(RemoveAt(s, p)) = Len(s) - 1
           /\ \A i \in 1..(Len(s) - 1) : RemoveAt(s, p)[i] = s[IF i < p THEN i ELSE i + 1]
<1> DEFINE front == SubSeq(s, 1, p - 1)
           back == SubSeq(s, p + 1, Len(s))
<1>1. RemoveAt(s, p) = front \o back
  BY DEF RemoveAt
<1>2. Len(s) \in Nat /\ p \in Nat
  OBVIOUS
<1>3. front \in Seq(S) /\ Len(front) = p - 1 /\ \A i \in 1..(p - 1) : front[i] = s[i]
  OBVIOUS
<1>4. back \in Seq(S) /\ Len(back) = Len(s) - p /\ \A i \in 1..(Len(s) - p) : back[i] = s[p + i]
  OBVIOUS
<1> HIDE DEF front, back
<1>5. front \o back \in Seq(S) /\ Len(front \o back) = Len(s) - 1
  <2>1. front \o back \in Seq(S) /\ Len(front \o back) = Len(front) + Len(back)
    BY <1>3, <1>4, ConcatProperties
  <2>2. (p - 1) + (Len(s) - p) = Len(s) - 1
    BY <1>2
  <2> QED
    BY <2>1, <2>2, <1>3, <1>4
<1>6. ASSUME NEW i \in 1..(Len(s) - 1)
      PROVE  (front \o back)[i] = s[IF i < p THEN i ELSE i + 1]
  <2>1. CASE i < p
    <3>1. i \in 1..(p - 1)
      BY <1>2, <2>1
    <3> QED
      BY <1>3, <1>4, <2>1, <3>1
  <2>2. CASE ~(i < p)
    <3>1. i - (p - 1) \in 1..(Len(s) - p) /\ p + (i - (p - 1)) = i + 1 /\ i \notin 1..(p - 1)
      BY <1>2, <2>2
    <3>2. (front \o back)[i] = back[i - (p - 1)]
      BY <1>2, <1>3, <1>4, <3>1
    <3> QED
      BY <1>4, <2>2, <3>1, <3>2
  <2> QED
    BY <2>1, <2>2
<1> QED
  BY <1>1, <1>5, <1>6

LEMMA DropColumnIsSound ==
    ASSUME NEW m, Good(m), NEW t \in DOMAIN m.tables, NEW x, HasColumn(m.tables[t], x)
    PROVE  Sound(DropColumn(m, t, x))
<1> DEFINE old == m.tables[t]
           cols == old.cols
           p == Position(old, x)
           new == [old EXCEPT !.cols = RemoveAt(cols, p), !.shrunk = TRUE]
           was(i) == IF i < p THEN i ELSE i + 1
<1>1. old \in Table /\ SoundTable(old) /\ cols \in Seq(Column) /\ Len(cols) \in Nat
  BY DEF Good, Sound, SoundTable, Table
<1>2. p \in 1..Len(cols)
  BY <1>1, PositionFound
<1>3. DropColumn(m, t, x) = [m EXCEPT !.tables[t] = new]
  BY Zenon DEF DropColumn
<1> HIDE DEF p
<1>4. RemoveAt(cols, p) \in Seq(Column) /\ Len(RemoveAt(cols, p)) = Len(cols) - 1
      /\ \A i \in 1..(Len(cols) - 1) : RemoveAt(cols, p)[i] = cols[was(i)]
  BY <1>1, <1>2, RemoveAtProperties
<1>5. new \in Table /\ new.shrunk /\ new.cols = RemoveAt(cols, p)
  BY <1>1, <1>4 DEF Table
<1> HIDE DEF new
<1>6. ColumnsDisjoint(new)
  <2>1. SUFFICES ASSUME NEW i \in 1..(Len(cols) - 1), NEW j \in 1..(Len(cols) - 1), i < j
                 PROVE  cols[was(i)].offset + Width[cols[was(i)].name] <= cols[was(j)].offset
    <3>1. Len(new.cols) = Len(cols) - 1 /\ \A k \in 1..(Len(cols) - 1) : new.cols[k] = cols[was(k)]
      BY <1>4, <1>5
    <3> HIDE DEF was, cols
    <3> QED
      BY <3>1 DEF ColumnsDisjoint
  <2>2. was(i) \in 1..Len(cols) /\ was(j) \in 1..Len(cols) /\ was(i) < was(j)
    BY <1>1, <1>2, <2>1
  <2> HIDE DEF was
  <2> QED
    BY <1>1, <2>2 DEF SoundTable, ColumnsDisjoint
<1>7. SoundTable(new)
  BY <1>5, <1>6 DEF SoundTable
<1> QED
  BY <1>3, <1>5, <1>7, TableReplaced

LEMMA MarkedIsSound ==
    ASSUME NEW m, Good(m), NEW t \in DOMAIN m.tables, NEW x, HasColumn(m.tables[t], x),
           NEW marks \in SUBSET Mark
    PROVE  Sound(Marked(m, t, x, marks)) /\ MarksOf(m, t, x) \in SUBSET Mark
<1> DEFINE old == m.tables[t]
           cols == old.cols
           p == Position(old, x)
           col == [cols[p] EXCEPT !.marks = marks]
           new == [old EXCEPT !.cols = [cols EXCEPT ![p] = col]]
<1>1. old \in Table /\ SoundTable(old) /\ cols \in Seq(Column) /\ Len(cols) \in Nat
  BY DEF Good, Sound, SoundTable, Table
<1>2. p \in 1..Len(cols)
  BY <1>1, PositionFound
<1>3. Marked(m, t, x, marks) = [m EXCEPT !.tables[t] = new] /\ MarksOf(m, t, x) = cols[p].marks
  BY Zenon DEF Marked, MarksOf
<1> HIDE DEF p
<1>4. cols[p] \in Column
  BY <1>1, <1>2
<1>5. col \in Column /\ col.name = cols[p].name /\ col.id = cols[p].id /\ col.offset = cols[p].offset
      /\ cols[p].marks \in SUBSET Mark
  BY <1>4 DEF Column
<1> HIDE DEF col
<1>6. [cols EXCEPT ![p] = col] \in Seq(Column) /\ Len([cols EXCEPT ![p] = col]) = Len(cols)
      /\ \A j \in 1..Len(cols) : [cols EXCEPT ![p] = col][j] = IF j = p THEN col ELSE cols[j]
  BY <1>1, <1>2, <1>5
<1>7. new \in Table /\ new.shrunk = old.shrunk /\ new.cols = [cols EXCEPT ![p] = col]
  BY <1>1, <1>6 DEF Table
<1> HIDE DEF new
<1>8. Len(new.cols) = Len(cols)
      /\ \A j \in 1..Len(cols) : /\ new.cols[j].name = cols[j].name /\ new.cols[j].id = cols[j].id
                                 /\ new.cols[j].offset = cols[j].offset
  BY <1>5, <1>6, <1>7
<1>9. ColumnsDisjoint(new)
  BY <1>1, <1>8 DEF SoundTable, ColumnsDisjoint
<1>10. SoundTable(new)
  BY <1>1, <1>7, <1>8, <1>9 DEF SoundTable
<1>11. new.shrunk \/ /\ ~old.shrunk /\ Len(old.cols) <= Len(new.cols)
                     /\ \A j \in 1..Len(old.cols) : new.cols[j].name = old.cols[j].name
  BY <1>1, <1>7, <1>8 DEF Table
<1> QED
  BY <1>3, <1>5, <1>10, <1>11, TableReplaced

LEMMA CountersAreSound ==
    ASSUME NEW m, Good(m)
    PROVE  Sound(UpdateIOStats(m, 1)) /\ Sound(ResetStatistics(m))
<1>1. ASSUME NEW k \in Nat PROVE Sound([m EXCEPT !.reads = k])
  <2> DEFINE n == [m EXCEPT !.reads = k]
  <2>1. DOMAIN n = DOMAIN m /\ n.indexes = m.indexes /\ n.tables = m.tables /\ n.reads = k
        /\ n.tableDropped = m.tableDropped
    BY DEF Good, Plain
  <2> HIDE DEF n
  <2>2. Sound(n)
    BY <2>1 DEF Good, Sound, IsMetadata
  <2> QED
    BY <2>2 DEF n
<1>2. m.reads \in Nat
  BY DEF Good, Sound, IsMetadata
<1> QED
  BY <1>1, <1>2 DEF UpdateIOStats, ResetStatistics

-----------------------------------------------------------------------------
(* Good metadata stays good *)

LEMMA EmptyIsGood == Good(EmptyMetadata)
BY EmptyIsPlain, EmptyIsSound DEF Good

LEMMA CreateTableIsGood ==
    ASSUME NEW m, Good(m), NEW t \in TableName, CanCreateTable(m, t),
           NEW names \in Seq(ColumnName), NEW page \in Nat
    PROVE  Good(CreateTable(m, t, names, page))
BY CreateTableIsPlain, CreateTableIsSound DEF Good

LEMMA DropTableIsGood ==
    ASSUME NEW m, Good(m), NEW t \in DOMAIN m.tables
    PROVE  Good(DropTable(m, t))
BY DropTableIsPlain, DropTableIsSound DEF Good

LEMMA CreateIndexIsGood ==
    ASSUME NEW m, NEW name \in IndexName, NEW t, NEW names \in Seq(ColumnName),
           Good(m), CanCreateIndex(m, t, names), name \notin DOMAIN m.indexes
    PROVE  Good(CreateIndex(m, name, t, names))
BY CreateIndexIsPlain, CreateIndexIsSound DEF Good

LEMMA AddColumnIsGood ==
    ASSUME NEW m, Good(m), NEW t \in DOMAIN m.tables, NEW x \in ColumnName,
           m.tables[t].cols # <<>>
    PROVE  Good(AddColumn(m, t, x))
BY ColumnChangesArePlain, AddColumnIsSound DEF Good

LEMMA OnColumnsIsGood ==
    ASSUME NEW m, Good(m), NEW t \in DOMAIN m.tables, NEW x, HasColumn(m.tables[t], x)
    PROVE  /\ Good(DropColumn(m, t, x)) /\ Good(SetPrimaryKey(m, t, x))
           /\ Good(SetNullable(m, t, x)) /\ Good(SetUnique(m, t, x))
<1>1. Good(DropColumn(m, t, x))
  BY ColumnChangesArePlain, DropColumnIsSound DEF Good
<1>2. \A marks \in SUBSET Mark : Good(Marked(m, t, x, marks))
  BY ColumnChangesArePlain, MarkedIsSound DEF Good
<1>3. MarksOf(m, t, x) \in SUBSET Mark
  <2>1. {} \in SUBSET Mark
    OBVIOUS
  <2> QED
    BY <2>1, MarkedIsSound
<1> HIDE DEF Good
<1>4. /\ (MarksOf(m, t, x) \cup {"primary"}) \ {"nullable"} \in SUBSET Mark
      /\ MarksOf(m, t, x) \cup {"nullable"} \in SUBSET Mark
      /\ MarksOf(m, t, x) \cup {"unique"} \in SUBSET Mark
  BY <1>3 DEF Mark
<1> QED
  BY <1>1, <1>2, <1>4 DEF SetPrimaryKey, SetNullable, SetUnique

LEMMA CountersAreGood ==
    ASSUME NEW m, Good(m)
    PROVE  Good(UpdateIOStats(m, 1)) /\ Good(ResetStatistics(m))
BY CountersArePlain, CountersAreSound DEF Good

-----------------------------------------------------------------------------
(* Copies and files *)

GoodList(f) ==
    /\ Numbered(f) /\ IdsAreDistinct(f)
    /\ DOMAIN f \subseteq Database
    /\ \A d \in DOMAIN f : f[d] \in [id : Nat]

Setting == {DefaultSetting, NewSetting}

GoodMetas(ms) ==
    /\ DOMAIN ms \subseteq Database /\ IsFiniteSet(DOMAIN ms)
    /\ \A d \in DOMAIN ms : Good(ms[d])

GoodView(v) ==
    /\ DOMAIN v = {"registry", "config", "metas"}
    /\ GoodList(v.registry)
    /\ v.config \in Setting
    /\ GoodMetas(v.metas)

LEMMA EmptyListIsGood == GoodList(<<>>)
<1>1. DOMAIN <<>> = {}
  OBVIOUS
<1> QED
  BY <1>1, NothingIsNumbered DEF GoodList

LEMMA NoMetasAreGood == GoodMetas(<<>>)
<1>1. DOMAIN <<>> = {}
  OBVIOUS
<1> QED
  BY <1>1, FS_EmptySet DEF GoodMetas

LEMMA NoViewIsGood == GoodView(NoView)
BY EmptyListIsGood, NoMetasAreGood DEF GoodView, NoView, Setting

LEMMA WithIsGood ==
    ASSUME NEW ms, GoodMetas(ms), NEW d \in Database, NEW m, Good(m)
    PROVE  GoodMetas(With(ms, d, m)) /\ DOMAIN With(ms, d, m) = DOMAIN ms \cup {d}
<1>1. IsFiniteSet(DOMAIN ms \cup {d})
  BY FS_AddElement DEF GoodMetas
<1> QED
  BY <1>1 DEF GoodMetas, With

LEMMA WithoutIsGood ==
    ASSUME NEW ms, GoodMetas(ms), NEW d
    PROVE  GoodMetas(Without(ms, d))
<1>1. IsFiniteSet(DOMAIN ms \ {d})
  BY FS_Subset DEF GoodMetas
<1> QED
  BY <1>1 DEF GoodMetas, Without

LEMMA RegistryChangesAreGood ==
    ASSUME NEW f, GoodList(f), NEW d \in Database
    PROVE  GoodList(With(f, d, [id |-> NewId(f)])) /\ GoodList(Without(f, d))
<1>1. GoodList(With(f, d, [id |-> NewId(f)]))
  <2> DEFINE g == With(f, d, [id |-> NewId(f)])
  <2>1. Numbered(g) /\ IdsAreDistinct(g)
    <3> DEFINE y == [id |-> NewId(f)]
    <3>1. "id" \in DOMAIN y /\ y.id = NewId(f) /\ Numbered(f) /\ IdsAreDistinct(f)
      BY DEF GoodList
    <3> HIDE DEF y
    <3>2. Numbered(With(f, d, y)) /\ IdsAreDistinct(With(f, d, y))
      BY <3>1, OneMore DEF With
    <3> QED
      BY <3>2 DEF y
  <2>2. NewId(f) \in Nat
    BY NewIdIsNew DEF GoodList
  <2>3. DOMAIN g \subseteq Database /\ \A x \in DOMAIN g : g[x] \in [id : Nat]
    BY <2>2 DEF GoodList, With
  <2> HIDE DEF g
  <2>4. GoodList(g)
    BY <2>1, <2>3 DEF GoodList
  <2> QED
    BY <2>4 DEF g
<1>2. GoodList(Without(f, d))
  BY Fewer DEF GoodList, Without
<1> QED
  BY <1>1, <1>2

LEMMA LoadedIsGood ==
    ASSUME NEW v, GoodView(v), GoodMetas(metaFile), NEW d \in Database
    PROVE  /\ GoodView(Loaded(v, d))
           /\ CanLoad(v, d) => d \in DOMAIN Loaded(v, d).metas
<1>1. CASE d \in DOMAIN v.metas \/ ~CanLoad(v, d)
  BY <1>1 DEF Loaded
<1>2. CASE ~(d \in DOMAIN v.metas \/ ~CanLoad(v, d))
  <2> DEFINE ms == With(v.metas, d, metaFile[d])
  <2>1. Good(metaFile[d])
    BY <1>2 DEF CanLoad, GoodMetas
  <2>2. GoodMetas(v.metas)
    BY DEF GoodView
  <2>3. GoodMetas(ms) /\ DOMAIN ms = DOMAIN v.metas \cup {d}
    BY <2>1, <2>2, WithIsGood, Zenon
  <2>4. Loaded(v, d) = [v EXCEPT !.metas = ms]
    BY <1>2 DEF Loaded
  <2> HIDE DEF ms
  <2> QED
    BY <2>3, <2>4 DEF GoodView
<1> QED
  BY <1>1, <1>2

\* Changed metadata of a database that a copy holds.
LEMMA ChangedIsGood ==
    ASSUME NEW v, GoodView(v), NEW d, NEW m, Good(m)
    PROVE  GoodView([v EXCEPT !.metas[d] = m])
<1> DEFINE w == [v EXCEPT !.metas[d] = m]
           ms == [v.metas EXCEPT ![d] = m]
<1>1. DOMAIN w = DOMAIN v /\ w.registry = v.registry /\ w.config = v.config /\ w.metas = ms
  BY DEF GoodView
<1>2. GoodMetas(ms)
  BY DEF GoodView, GoodMetas
<1> HIDE DEF ms, w
<1>3. GoodView(w)
  BY <1>1, <1>2 DEF GoodView
<1> QED
  BY <1>3 DEF w

-----------------------------------------------------------------------------
(* Calls *)

File == Database \cup {"registry", "config"}

LEMMA CallTypes ==
    /\ \A file \in File, who \in Client \cup {None} : Save(file, who) \in Seq(AnyCall)
    /\ \A d \in Database, op \in {"register", "new_metadata", "unregister", "remove_directory"} :
         [op |-> op, db |-> d] \in AnyCall
    /\ \A t \in TableName, names \in Seq(ColumnName),
          op \in {"add_column", "drop_column", "set_nullable", "set_unique", "update_index_root"} :
         ForEach(names, op, t) \in Seq(AnyCall)
    /\ \A t \in TableName, names \in Seq(ColumnName) : PrimaryKeyCalls(names, t) \in Seq(AnyCall)
<1>1. ASSUME NEW file \in File, NEW who \in Client \cup {None}
      PROVE  Save(file, who) \in Seq(AnyCall)
  <2>1. [op |-> "open", file |-> file, who |-> who] \in AnyCall
        /\ [op |-> "write", file |-> file, who |-> who] \in AnyCall
    BY DEF AnyCall, File
  <2> QED
    BY <2>1 DEF Save
<1>2. ASSUME NEW d \in Database,
             NEW op \in {"register", "new_metadata", "unregister", "remove_directory"}
      PROVE  [op |-> op, db |-> d] \in AnyCall
  BY DEF AnyCall
<1>3. ASSUME NEW t \in TableName, NEW x \in ColumnName,
             NEW op \in {"add_column", "drop_column", "set_primary_key", "set_nullable", "set_unique",
                         "create_index", "update_index_root"}
      PROVE  [op |-> op, table |-> t, col |-> x] \in AnyCall
  BY DEF AnyCall
<1>4. ASSUME NEW t \in TableName, NEW names \in Seq(ColumnName),
             NEW op \in {"add_column", "drop_column", "set_nullable", "set_unique", "update_index_root"}
      PROVE  ForEach(names, op, t) \in Seq(AnyCall)
  <2>1. Len(names) \in Nat /\ \A i \in 1..Len(names) : names[i] \in ColumnName
    OBVIOUS
  <2>2. \A i \in 1..Len(names) : [op |-> op, table |-> t, col |-> names[i]] \in AnyCall
    BY <1>3, <2>1
  <2> QED
    BY <2>1, <2>2 DEF ForEach
<1>5. ASSUME NEW t \in TableName, NEW names \in Seq(ColumnName)
      PROVE  PrimaryKeyCalls(names, t) \in Seq(AnyCall)
  <2>1. Len(names) \in Nat /\ \A i \in 1..Len(names) : names[i] \in ColumnName
    OBVIOUS
  <2>2. \A i \in 1..(2 * Len(names)) : names[(i + 1) \div 2] \in ColumnName
    BY <2>1
  <2>3. \A i \in 1..(2 * Len(names)) :
          [op |-> IF i % 2 = 1 THEN "set_primary_key" ELSE "create_index",
           table |-> t, col |-> names[(i + 1) \div 2]] \in AnyCall
    BY <1>3, <2>2
  <2> QED
    BY <2>1, <2>3 DEF PrimaryKeyCalls
<1> QED
  BY <1>1, <1>2, <1>4, <1>5

\* The saves of Shutdown, in any order of the databases.
LEMMA SaveAllType ==
    ASSUME NEW ms, GoodMetas(ms), NEW order \in SetToSeqs(DOMAIN ms), NEW c \in Client
    PROVE  SaveAll(order, c) \in Seq(AnyCall)
<1>1. Cardinality(DOMAIN ms) \in Nat
  BY FS_CardinalityType DEF GoodMetas
<1>2. order \in [1..Cardinality(DOMAIN ms) -> DOMAIN ms]
  BY DEF SetToSeqs
<1>3. order \in Seq(Database) /\ Len(order) \in Nat /\ \A i \in 1..Len(order) : order[i] \in Database
  BY <1>1, <1>2 DEF GoodMetas
<1>4. \A i \in 1..(2 * Len(order)) : order[(i + 1) \div 2] \in Database
  BY <1>3
<1>5. \A i \in 1..(2 * Len(order)) :
        [op |-> IF i % 2 = 1 THEN "open" ELSE "write", file |-> order[(i + 1) \div 2], who |-> c] \in AnyCall
  BY <1>4 DEF AnyCall
<1> QED
  BY <1>3, <1>5 DEF SaveAll

\* What a call that is next tells by its name.
LEMMA NextCall ==
    ASSUME NEW c \in Client, calls \in [Client -> Seq(AnyCall)], calls[c] # <<>>
    PROVE  /\ Call(c) \in AnyCall /\ Tail(calls[c]) \in Seq(AnyCall)
           /\ Call(c).op \in {"open", "write"} => Call(c).file \in File /\ Call(c).who \in Client \cup {None}
           /\ Call(c).op \in {"register", "new_metadata", "unregister", "remove_directory"}
              => Call(c).db \in Database
           /\ Call(c).op \in {"add_column", "drop_column", "set_primary_key", "set_nullable",
                             "set_unique", "create_index", "update_index_root"}
              => Call(c).table \in TableName /\ Call(c).col \in ColumnName
           /\ Call(c).op = "create_table"
              => Call(c).table \in TableName /\ Call(c).cols \in Seq(ColumnName) /\ Call(c).page \in Nat
<1>1. Call(c) \in AnyCall /\ Tail(calls[c]) \in Seq(AnyCall)
  BY DEF Call
<1> QED
  BY <1>1 DEF AnyCall, File

-----------------------------------------------------------------------------
(* The inductive invariant *)

\* Unique ids and indexes with tables, of every copy in memory and in files;
\* and calls that are calls, for what they are given goes into the copies.
IInv ==
    /\ GoodList(registryFile) /\ GoodMetas(metaFile) /\ configFile \in Setting
    /\ DOMAIN view = Client /\ \A c \in Client : GoodView(view[c])
    /\ calls \in [Client -> Seq(AnyCall)]
    /\ indexOwner \in Client \cup {None}
    /\ dbName \in Database

LEMMA InitIsGood == Init => IInv
<1> SUFFICES ASSUME Init PROVE IInv
  OBVIOUS
<1>1. GoodList(registryFile)
  BY FS_Singleton, CatalogAssumption DEF Init, GoodList, Numbered, IdsAreDistinct
<1>2. GoodMetas(metaFile)
  BY FS_Singleton, EmptyIsGood, CatalogAssumption DEF Init, GoodMetas
<1>3. DOMAIN view = Client /\ \A c \in Client : GoodView(view[c])
  BY NoViewIsGood DEF Init
<1>4. calls \in [Client -> Seq(AnyCall)]
  BY DEF Init
<1> QED
  BY <1>1, <1>2, <1>3, <1>4, CatalogAssumption DEF IInv, Init, Setting

LEMMA ConnectIsGood == ASSUME IInv, NEW c \in Client, Connect(c) PROVE IInv'
<1> DEFINE v == [registry |-> registryFile, config |-> configFile, metas |-> <<>>]
<1>1. GoodView(v)
  BY NoMetasAreGood DEF IInv, GoodView
<1>2. view' = [view EXCEPT ![c] = v] /\ UNCHANGED <<files, calls, dbName, indexOwner>>
  BY DEF Connect
<1> HIDE DEF v
<1> QED
  BY <1>1, <1>2 DEF IInv, files

LEMMA LoginIsGood == ASSUME IInv, NEW c \in Client, Login(c) PROVE IInv'
<1>1. GoodView(Loaded(view[c], SystemData))
  BY LoadedIsGood, CatalogAssumption DEF IInv
<1>2. view' = [view EXCEPT ![c] = Loaded(view[c], SystemData)] /\ UNCHANGED <<files, calls>>
      /\ dbName' = SystemData /\ indexOwner' = c
  BY DEF Login
<1> QED
  BY <1>1, <1>2, CatalogAssumption DEF IInv, files

LEMMA LeaveIsGood == ASSUME IInv, NEW c \in Client, Leave(c) PROVE IInv'
<1>1. PICK order \in SetToSeqs(DOMAIN view[c].metas) :
        calls' = [calls EXCEPT ![c] = SaveAll(order, c) \o Save("config", c) \o Save("registry", c)]
  BY DEF Leave
<1>2. SaveAll(order, c) \in Seq(AnyCall)
  BY SaveAllType DEF IInv, GoodView
<1>3. Save("config", c) \in Seq(AnyCall) /\ Save("registry", c) \in Seq(AnyCall)
  BY CallTypes DEF File
<1>4. SaveAll(order, c) \o Save("config", c) \o Save("registry", c) \in Seq(AnyCall)
  BY <1>2, <1>3
<1>5. UNCHANGED <<files, view, dbName, indexOwner>>
  BY DEF Leave
<1> QED
  BY <1>1, <1>4, <1>5 DEF IInv, files

LEMMA LeftIsGood == ASSUME IInv, NEW c \in Client, Left(c) PROVE IInv'
<1> DEFINE Orphaned(call) == IF Saves(call, c) THEN [call EXCEPT !.who = None] ELSE call
<1>1. \A call \in AnyCall : Orphaned(call) \in AnyCall
  BY DEF AnyCall, Saves
<1>2. ASSUME NEW o \in Client
      PROVE  [i \in 1..Len(calls[o]) |-> Orphaned(calls[o][i])] \in Seq(AnyCall)
  <2>1. calls[o] \in Seq(AnyCall)
    BY DEF IInv
  <2>2. Len(calls[o]) \in Nat /\ \A i \in 1..Len(calls[o]) : Orphaned(calls[o][i]) \in AnyCall
    BY <1>1, <2>1
  <2> HIDE DEF Orphaned
  <2> QED
    BY <2>2
<1>3. calls' = [o \in Client |-> [i \in 1..Len(calls[o]) |-> Orphaned(calls[o][i])]]
  BY DEF Left
<1>4. calls' \in [Client -> Seq(AnyCall)]
  BY <1>2, <1>3
<1>5. view' = [view EXCEPT ![c] = NoView] /\ UNCHANGED <<files, dbName>>
      /\ indexOwner' \in Client \cup {None}
  BY DEF Left, IInv
<1> QED
  BY <1>4, <1>5, NoViewIsGood DEF IInv, files

LEMMA ProcessEndsIsGood == ASSUME IInv, ProcessEnds PROVE IInv'
<1>1. DOMAIN view' = Client /\ \A c \in Client : view'[c] = NoView
  BY DEF ProcessEnds
<1>2. calls' \in [Client -> Seq(AnyCall)]
  BY DEF ProcessEnds
<1> QED
  BY <1>1, <1>2, NoViewIsGood, CatalogAssumption DEF IInv, ProcessEnds, files

-----------------------------------------------------------------------------
(* Statements *)

\* A statement that begins leaves the files, and puts good calls in the list.
LEMMA BeginIsGood ==
    ASSUME IInv, NEW c \in Client, NEW kind, NEW program \in Seq(AnyCall), Begin(c, kind, program)
    PROVE  /\ calls' \in [Client -> Seq(AnyCall)]
           /\ UNCHANGED files
BY DEF IInv, Begin, files

LEMMA UseAndShowAreGood ==
    ASSUME IInv, NEW c \in Client, ShowTables(c) \/ \E d \in Database : UseDatabase(c, d)
    PROVE  IInv'
<1>1. <<>> \in Seq(AnyCall)
  OBVIOUS
<1>2. CASE ShowTables(c)
  <2>1. GoodView(Loaded(view[c], dbName))
    BY LoadedIsGood DEF IInv
  <2>2. view' = [view EXCEPT ![c] = Loaded(view[c], dbName)] /\ UNCHANGED <<dbName, indexOwner>>
    BY <1>2 DEF ShowTables
  <2>3. calls' \in [Client -> Seq(AnyCall)] /\ UNCHANGED files
    BY <1>1, <1>2, BeginIsGood DEF ShowTables
  <2> QED
    BY <2>1, <2>2, <2>3 DEF IInv, files
<1>3. ASSUME NEW d \in Database, UseDatabase(c, d) PROVE IInv'
  <2>1. calls' \in [Client -> Seq(AnyCall)] /\ UNCHANGED files
    BY <1>1, <1>3, BeginIsGood DEF UseDatabase
  <2> QED
    BY <1>3, <2>1 DEF IInv, UseDatabase, files
<1> QED
  BY <1>2, <1>3

LEMMA DatabaseStatementsAreGood ==
    ASSUME IInv, NEW c \in Client, NEW d \in Database, CreateDatabase(c, d) \/ DropDatabase(c, d)
    PROVE  IInv'
<1> DEFINE create == <<[op |-> "register", db |-> d]>> \o Save("registry", c)
                     \o <<[op |-> "new_metadata", db |-> d], [op |-> "write", file |-> d, who |-> c]>>
                     \o Save(d, c)
           drop == <<[op |-> "unregister", db |-> d]>> \o Save("registry", c)
                   \o <<[op |-> "remove_directory", db |-> d]>>
<1>1. Save("registry", c) \in Seq(AnyCall) /\ Save(d, c) \in Seq(AnyCall)
  BY CallTypes DEF File
<1>2. <<[op |-> "register", db |-> d]>> \in Seq(AnyCall)
      /\ <<[op |-> "new_metadata", db |-> d], [op |-> "write", file |-> d, who |-> c]>> \in Seq(AnyCall)
      /\ <<[op |-> "unregister", db |-> d]>> \in Seq(AnyCall)
      /\ <<[op |-> "remove_directory", db |-> d]>> \in Seq(AnyCall)
  BY DEF AnyCall
<1>3. create \in Seq(AnyCall) /\ drop \in Seq(AnyCall) /\ <<>> \in Seq(AnyCall)
  BY <1>1, <1>2
<1>4. \E kind, program : Begin(c, kind, program) /\ program \in {create, drop, <<>>}
  BY DEF CreateDatabase, DropDatabase
<1> HIDE DEF create, drop
<1>5. calls' \in [Client -> Seq(AnyCall)] /\ UNCHANGED files
  BY <1>3, <1>4, BeginIsGood
<1>6. UNCHANGED <<view, indexOwner>> /\ dbName' \in Database
  BY DEF CreateDatabase, DropDatabase, IInv
<1> QED
  BY <1>5, <1>6 DEF IInv, files

LEMMA CreateTableStatementIsGood ==
    ASSUME IInv, NEW c \in Client, NEW t \in TableName, NEW def \in Definition,
           CreateTableStatement(c, t, def)
    PROVE  IInv'
<1> DEFINE v == Loaded(view[c], dbName)
           create == [op |-> "create_table", table |-> t, cols |-> def.cols, page |-> PageOfNewTable(v)]
           program == <<create>> \o PrimaryKeyCalls(def.primary, t)
                      \o ForEach(def.notNull, "set_nullable", t) \o ForEach(def.unique, "set_unique", t)
<1>1. GoodView(v)
  BY LoadedIsGood DEF IInv
<1>2. def.cols \in Seq(ColumnName) /\ def.primary \in Seq(ColumnName)
      /\ def.notNull \in Seq(ColumnName) /\ def.unique \in Seq(ColumnName)
  BY CatalogAssumption
<1>3. PageOfNewTable(v) \in Nat
  <2> HIDE DEF v
  <2>1. dbName \in DOMAIN v.metas => IsFiniteSet(DOMAIN v.metas[dbName].tables)
    BY <1>1 DEF GoodView, GoodMetas, Good, Plain, Numbered
  <2> QED
    BY <2>1, FS_CardinalityType DEF PageOfNewTable
<1>4. create \in AnyCall
  BY <1>2, <1>3 DEF AnyCall
<1>5. PrimaryKeyCalls(def.primary, t) \in Seq(AnyCall)
      /\ ForEach(def.notNull, "set_nullable", t) \in Seq(AnyCall)
      /\ ForEach(def.unique, "set_unique", t) \in Seq(AnyCall)
  BY <1>2, CallTypes
<1>6. program \in Seq(AnyCall)
  <2> HIDE DEF create
  <2> QED
    BY <1>4, <1>5
<1>7. Begin(c, "create_table", program) /\ view' = [view EXCEPT ![c] = v]
      /\ UNCHANGED <<dbName, indexOwner>>
  BY DEF CreateTableStatement
<1> HIDE DEF program, v
<1>8. calls' \in [Client -> Seq(AnyCall)] /\ UNCHANGED files
  BY <1>6, <1>7, BeginIsGood
<1> QED
  BY <1>1, <1>7, <1>8 DEF IInv, files

LEMMA TableStatementsAreGood ==
    ASSUME IInv, NEW c \in Client, NEW t \in TableName,
           \/ DropTableStatement(c, t)
           \/ \E x \in ColumnName : AddColumnStatement(c, t, x) \/ DropColumnStatement(c, t, x)
    PROVE  IInv'
<1>1. <<[op |-> "drop_table", table |-> t]>> \in Seq(AnyCall)
  BY DEF AnyCall
<1>2. \A x \in ColumnName : <<x>> \in Seq(ColumnName)
  OBVIOUS
<1>3. \A x \in ColumnName : ForEach(<<x>>, "add_column", t) \in Seq(AnyCall)
                          /\ ForEach(<<x>>, "drop_column", t) \in Seq(AnyCall)
  BY <1>2, CallTypes
<1>4. \E kind, program : Begin(c, kind, program) /\ program \in Seq(AnyCall)
  BY <1>1, <1>3 DEF DropTableStatement, AddColumnStatement, DropColumnStatement
<1>5. calls' \in [Client -> Seq(AnyCall)] /\ UNCHANGED files
  BY <1>4, BeginIsGood
<1>6. UNCHANGED <<view, dbName, indexOwner>>
  BY DEF DropTableStatement, AddColumnStatement, DropColumnStatement
<1> QED
  BY <1>5, <1>6 DEF IInv, files

LEMMA StatisticsIsGood ==
    ASSUME IInv, NEW c \in Client, NEW op \in {"update_read_count", "reset_statistics"},
           StatisticsStatement(c, op)
    PROVE  IInv'
<1>1. <<[op |-> op]>> \in Seq(AnyCall)
  BY DEF AnyCall
<1>2. calls' \in [Client -> Seq(AnyCall)] /\ UNCHANGED files
  BY <1>1, BeginIsGood DEF StatisticsStatement
<1> QED
  BY <1>2 DEF IInv, StatisticsStatement, files

LEMMA ConfigureIsGood == ASSUME IInv, NEW c \in Client, Configure(c) PROVE IInv'
<1>1. Save("config", c) \in Seq(AnyCall)
  BY CallTypes DEF File
<1>2. calls' \in [Client -> Seq(AnyCall)] /\ UNCHANGED files
  BY <1>1, BeginIsGood DEF Configure
<1>3. GoodView([view[c] EXCEPT !.config = NewSetting])
  BY DEF IInv, GoodView, Setting
<1>4. view' = [view EXCEPT ![c] = [view[c] EXCEPT !.config = NewSetting]] /\ UNCHANGED <<dbName, indexOwner>>
  BY DEF Configure
<1> QED
  BY <1>2, <1>3, <1>4 DEF IInv, files

-----------------------------------------------------------------------------
(* Calls *)

\* Good metadata of a database, once a copy of it can be had.
LEMMA MetaIsGood ==
    ASSUME IInv, NEW who \in Client, CanLoad(view[who], dbName)
    PROVE  Good(Meta(who))
BY LoadedIsGood DEF IInv, Meta, GoodView, GoodMetas

LEMMA ChangesIsGood ==
    ASSUME IInv, NEW c \in Client, NEW who \in Client, NEW m, NEW then \in Seq(AnyCall),
           calls[c] # <<>>, Good(m), Changes(c, who, m, then)
    PROVE  IInv'
<1> DEFINE v == Loaded(view[who], dbName)
<1>1. GoodView(v)
  BY LoadedIsGood DEF IInv
<1>2. view' = [view EXCEPT ![who] = [v EXCEPT !.metas[dbName] = m]]
      /\ calls' = [calls EXCEPT ![c] = then \o Tail(calls[c])]
      /\ UNCHANGED <<files, dbName, indexOwner>>
  BY DEF Changes
<1> HIDE DEF v
<1>3. GoodView([v EXCEPT !.metas[dbName] = m])
  BY <1>1, ChangedIsGood
<1>4. then \o Tail(calls[c]) \in Seq(AnyCall)
  BY NextCall DEF IInv
<1>5. calls' \in [Client -> Seq(AnyCall)]
  BY <1>2, <1>4 DEF IInv
<1> QED
  BY <1>2, <1>3, <1>5 DEF IInv, files

LEMMA FailsIsGood ==
    ASSUME IInv, NEW c \in Client, NEW who \in Client, NEW rest \in Seq(AnyCall), Fails(c, who, rest)
    PROVE  IInv'
<1>1. GoodView(Loaded(view[who], dbName))
  BY LoadedIsGood DEF IInv
<1>2. view' = [view EXCEPT ![who] = Loaded(view[who], dbName)] /\ calls' = [calls EXCEPT ![c] = rest]
      /\ UNCHANGED <<files, dbName, indexOwner>>
  BY DEF Fails
<1> QED
  BY <1>1, <1>2 DEF IInv, files

LEMMA ThrowsOrIgnoredIsGood ==
    ASSUME IInv, NEW c \in Client, NEW who \in Client, calls[c] # <<>>, Throws(c) \/ Ignored(c, who)
    PROVE  IInv'
<1>1. <<>> \in Seq(AnyCall) /\ Tail(calls[c]) \in Seq(AnyCall)
  BY NextCall DEF IInv
<1> QED
  BY <1>1, FailsIsGood DEF Throws, Ignored

\* The saves: a file gets the empty metadata, or a copy that someone holds.
LEMMA SavesAreGood ==
    ASSUME IInv, NEW c \in Client, Open(c) \/ Write(c) \/ LostSave(c)
    PROVE  IInv'
<1> DEFINE file == Call(c).file
<1>1. calls[c] # <<>> /\ Call(c).op \in {"open", "write"}
  BY DEF Open, Write, LostSave, Now, Call
<1>2. Call(c).who \in Client \cup {None} /\ Tail(calls[c]) \in Seq(AnyCall)
  BY <1>1, NextCall DEF IInv
<1>3. calls' \in [Client -> Seq(AnyCall)] /\ UNCHANGED <<view, dbName, indexOwner>>
  BY <1>2 DEF Open, Write, LostSave, IInv
<1>4. GoodMetas(metaFile)
  BY DEF IInv
<1>5. CASE Open(c)
  <2>1. GoodList(registryFile')
    BY <1>5, EmptyListIsGood DEF Open, IInv
  <2>2. metaFile' = metaFile \/ (file \in Database /\ metaFile' = With(metaFile, file, EmptyMetadata))
    BY <1>5 DEF Open, IInv, GoodMetas
  <2>3. GoodMetas(metaFile')
    <3>1. file \in Database => GoodMetas(With(metaFile, file, EmptyMetadata))
      BY <1>4, WithIsGood, EmptyIsGood, Zenon
    <3> QED
      BY <1>4, <2>2, <3>1, Zenon
  <2> QED
    BY <1>3, <1>5, <2>1, <2>3 DEF IInv, Open, Setting
<1>6. CASE Write(c)
  <2> DEFINE v == view[Call(c).who]
  <2>1. GoodView(v)
    BY <1>2, <1>6 DEF Write, IInv
  <2>2. GoodList(registryFile')
    BY <1>6, <2>1 DEF Write, IInv, GoodView
  <2>3. metaFile' = metaFile
        \/ (file \in Database /\ Good(v.metas[file]) /\ metaFile' = With(metaFile, file, v.metas[file]))
    BY <1>6, <2>1 DEF Write, IInv, GoodMetas, GoodView
  <2>5. configFile' \in Setting
    BY <1>6, <2>1 DEF Write, IInv, GoodView
  <2>4. GoodMetas(metaFile')
    <3>1. file \in Database /\ Good(v.metas[file]) => GoodMetas(With(metaFile, file, v.metas[file]))
      BY <1>4, WithIsGood, Zenon
    <3> QED
      BY <1>4, <2>3, <3>1, Zenon
  <2> QED
    BY <1>3, <2>2, <2>4, <2>5 DEF IInv
<1>7. CASE LostSave(c)
  BY <1>3, <1>7 DEF LostSave, IInv, files
<1> QED
  BY <1>5, <1>6, <1>7

LEMMA RegistrationsAreGood ==
    ASSUME IInv, NEW c \in Client,
           Register(c) \/ NewMetadata(c) \/ Unregister(c) \/ RemoveDirectory(c)
    PROVE  IInv'
<1> DEFINE d == Call(c).db
<1>1. calls[c] # <<>>
      /\ Call(c).op \in {"register", "new_metadata", "unregister", "remove_directory"}
  BY DEF Register, NewMetadata, Unregister, RemoveDirectory, Now, Call
<1>2. d \in Database /\ Tail(calls[c]) \in Seq(AnyCall)
  BY <1>1, NextCall DEF IInv
<1>3. calls' \in [Client -> Seq(AnyCall)] /\ UNCHANGED <<dbName, indexOwner>>
  BY <1>2 DEF Register, NewMetadata, Unregister, RemoveDirectory, IInv
<1> HIDE DEF d
<1>4. GoodView(view[c]) /\ GoodMetas(metaFile) /\ GoodList(registryFile)
  BY DEF IInv
<1>5. CASE Register(c)
  <2> DEFINE r == With(view[c].registry, d, [id |-> NewId(view[c].registry)])
  <2>1. GoodList(r)
    BY <1>2, <1>4, RegistryChangesAreGood DEF GoodView
  <2>2. view' = [view EXCEPT ![c] = [view[c] EXCEPT !.registry = r]] /\ UNCHANGED files
    BY <1>5 DEF Register, d
  <2> HIDE DEF r
  <2>3. GoodView([view[c] EXCEPT !.registry = r])
    BY <1>4, <2>1 DEF GoodView
  <2> QED
    BY <1>3, <2>2, <2>3 DEF IInv, files
<1>6. CASE NewMetadata(c)
  <2> DEFINE ms == With(view[c].metas, d, EmptyMetadata)
             fs == With(metaFile, d, EmptyMetadata)
  <2>1. GoodMetas(ms) /\ GoodMetas(fs)
    BY <1>2, <1>4, WithIsGood, EmptyIsGood DEF GoodView
  <2>2. view' = [view EXCEPT ![c] = [view[c] EXCEPT !.metas = ms]] /\ metaFile' = fs
        /\ registryFile' = registryFile /\ configFile' = configFile
    BY <1>6 DEF NewMetadata, d
  <2> HIDE DEF ms, fs
  <2>3. GoodView([view[c] EXCEPT !.metas = ms])
    BY <1>4, <2>1 DEF GoodView
  <2> QED
    BY <1>3, <2>1, <2>2, <2>3 DEF IInv
<1>7. CASE Unregister(c)
  <2> DEFINE ms == Without(view[c].metas, d)
             r == Without(view[c].registry, d)
             v == [[view[c] EXCEPT !.metas = ms] EXCEPT !.registry = r]
  <2>1. GoodMetas(ms) /\ GoodList(r)
    BY <1>2, <1>4, WithoutIsGood, RegistryChangesAreGood DEF GoodView
  <2>2. view' = [view EXCEPT ![c] = v] /\ UNCHANGED files
    BY <1>7 DEF Unregister, d
  <2> HIDE DEF ms, r
  <2>3. GoodView(v)
    BY <1>4, <2>1 DEF GoodView
  <2> QED
    BY <1>3, <2>2, <2>3 DEF IInv, files
<1>8. CASE RemoveDirectory(c)
  <2>1. GoodMetas(metaFile') /\ UNCHANGED <<view, registryFile, configFile>>
    BY <1>4, <1>8, WithoutIsGood DEF RemoveDirectory
  <2> QED
    BY <1>3, <2>1 DEF IInv
<1> QED
  BY <1>5, <1>6, <1>7, <1>8

LEMMA SaveCurrentType ==
    ASSUME IInv, NEW who \in Client
    PROVE  Save(dbName, who) \in Seq(AnyCall)
BY CallTypes DEF IInv, File

LEMMA TableCallsAreGood ==
    ASSUME IInv, NEW c \in Client, CallCreateTable(c) \/ CallDropTable(c) \/ CallAddColumn(c)
    PROVE  IInv'
<1> DEFINE t == Call(c).table
<1>1. calls[c] # <<>> /\ Save(dbName, c) \in Seq(AnyCall)
  BY SaveCurrentType DEF CallCreateTable, CallDropTable, CallAddColumn, Now
<1>2. CASE CallCreateTable(c)
  <2>1. CASE CanLoad(view[c], dbName) /\ CanCreateTable(Meta(c), t)
             /\ Changes(c, c, CreateTable(Meta(c), t, Call(c).cols, Call(c).page), Save(dbName, c))
    <3>1. t \in TableName /\ Call(c).cols \in Seq(ColumnName) /\ Call(c).page \in Nat
      BY <1>1, <1>2, NextCall DEF CallCreateTable, Now, Call, IInv
    <3>2. Good(CreateTable(Meta(c), t, Call(c).cols, Call(c).page))
      BY <2>1, <3>1, MetaIsGood, CreateTableIsGood
    <3> QED
      BY <1>1, <2>1, <3>2, ChangesIsGood
  <2>2. CASE Throws(c)
    BY <1>1, <2>2, ThrowsOrIgnoredIsGood
  <2> QED
    BY <1>2, <2>1, <2>2 DEF CallCreateTable
<1>3. CASE CallDropTable(c)
  <2>1. CASE HasTable(c, t) /\ Changes(c, c, DropTable(Meta(c), t), Save(dbName, c))
    <3>1. Good(DropTable(Meta(c), t))
      BY <2>1, MetaIsGood, DropTableIsGood DEF HasTable
    <3> QED
      BY <1>1, <2>1, <3>1, ChangesIsGood
  <2>2. CASE Ignored(c, c)
    BY <1>1, <2>2, ThrowsOrIgnoredIsGood
  <2> QED
    BY <1>3, <2>1, <2>2 DEF CallDropTable
<1>4. CASE CallAddColumn(c)
  <2>1. CASE ProcessEnds
    BY <2>1, ProcessEndsIsGood
  <2>2. CASE HasTable(c, t) /\ Meta(c).tables[t].cols # <<>>
             /\ Changes(c, c, AddColumn(Meta(c), t, Call(c).col), Save(dbName, c))
    <3>2. Call(c).col \in ColumnName
      BY <1>1, <1>4, NextCall DEF CallAddColumn, Now, Call, IInv
    <3>1. Good(AddColumn(Meta(c), t, Call(c).col))
      BY <2>2, <3>2, MetaIsGood, AddColumnIsGood DEF HasTable
    <3> QED
      BY <1>1, <2>2, <3>1, ChangesIsGood
  <2>3. CASE Throws(c)
    BY <1>1, <2>3, ThrowsOrIgnoredIsGood
  <2> QED
    BY <1>4, <2>1, <2>2, <2>3 DEF CallAddColumn
<1> QED
  BY <1>2, <1>3, <1>4

LEMMA OnColumnIsGood ==
    ASSUME IInv, NEW c \in Client, NEW op, NEW can \in BOOLEAN, NEW m,
           OnColumn(c, op, can, m), can => Good(m)
    PROVE  IInv'
<1>1. calls[c] # <<>> /\ Save(dbName, c) \in Seq(AnyCall)
  BY SaveCurrentType DEF OnColumn, Now
<1>2. CASE can /\ Changes(c, c, m, Save(dbName, c))
  BY <1>1, <1>2, ChangesIsGood
<1>3. CASE Throws(c)
  BY <1>1, <1>3, ThrowsOrIgnoredIsGood
<1> QED
  BY <1>2, <1>3 DEF OnColumn

LEMMA ColumnCallsAreGood ==
    ASSUME IInv, NEW c \in Client,
           CallSetPrimaryKey(c) \/ CallSetNullable(c) \/ CallSetUnique(c) \/ CallDropColumn(c)
    PROVE  IInv'
<1> DEFINE t == Call(c).table
           x == Call(c).col
           can == HasTheColumn(c, t, x)
<1>1. can \in BOOLEAN /\ (can /\ CanSetNullable(Meta(c), t, x)) \in BOOLEAN
  BY DEF HasTheColumn, HasTable
<1>2. can => Good(Meta(c)) /\ t \in DOMAIN Meta(c).tables /\ HasColumn(Meta(c).tables[t], x)
  BY MetaIsGood DEF HasTheColumn, HasTable
<1>3. can => /\ Good(SetPrimaryKey(Meta(c), t, x)) /\ Good(SetNullable(Meta(c), t, x))
             /\ Good(SetUnique(Meta(c), t, x)) /\ Good(DropColumn(Meta(c), t, x))
  BY <1>2, OnColumnsIsGood
<1>4. \/ OnColumn(c, "set_primary_key", can, SetPrimaryKey(Meta(c), t, x))
      \/ OnColumn(c, "set_nullable", can /\ CanSetNullable(Meta(c), t, x), SetNullable(Meta(c), t, x))
      \/ OnColumn(c, "set_unique", can, SetUnique(Meta(c), t, x))
      \/ OnColumn(c, "drop_column", can, DropColumn(Meta(c), t, x))
  BY DEF CallSetPrimaryKey, CallSetNullable, CallSetUnique, CallDropColumn
<1> HIDE DEF can
<1> QED
  BY <1>1, <1>3, <1>4, OnColumnIsGood

LEMMA IndexCallsAreGood ==
    ASSUME IInv, NEW c \in Client, CallCreateIndex(c) \/ CallUpdateIndexRoot(c)
    PROVE  IInv'
<1> DEFINE t == Call(c).table
           x == Call(c).col
           o == indexOwner
           created == CreateIndex(Meta(o), <<t, x>>, t, <<x>>)
           next == Save(dbName, o) \o ForEach(<<x>>, "update_index_root", t)
<1>1. calls[c] # <<>> /\ o \in Client \cup {None}
  BY DEF CallCreateIndex, CallUpdateIndexRoot, Now, IInv
<1>2. CASE ProcessEnds
  BY <1>2, ProcessEndsIsGood
<1>3. CASE Ignored(c, c) \/ (o # None /\ Ignored(c, o))
  BY <1>1, <1>3, ThrowsOrIgnoredIsGood
<1>4. CASE /\ CallCreateIndex(c) /\ o # None /\ CanLoad(view[o], dbName)
           /\ <<t, x>> \notin DOMAIN Meta(o).indexes /\ CanCreateIndex(Meta(o), t, <<x>>)
           /\ Changes(c, o, created, next)
  <2>1. o \in Client /\ t \in TableName /\ x \in ColumnName
    BY <1>1, <1>4, NextCall DEF CallCreateIndex, Now, Call, IInv
  <2>3. <<x>> \in Seq(ColumnName) /\ <<t, x>> \in IndexName
    BY <2>1 DEF IndexName
  <2>2. Good(created)
    BY <1>4, <2>1, <2>3, MetaIsGood, CreateIndexIsGood
  <2>4. Save(dbName, o) \in Seq(AnyCall) /\ ForEach(<<x>>, "update_index_root", t) \in Seq(AnyCall)
    BY <2>1, <2>3, SaveCurrentType, CallTypes
  <2>5. next \in Seq(AnyCall)
    BY <2>4
  <2> HIDE DEF created, next, o
  <2> QED
    BY <1>1, <1>4, <2>1, <2>2, <2>5, ChangesIsGood
<1>5. CASE o # None /\ CanLoad(view[o], dbName) /\ Changes(c, o, Meta(o), Save(dbName, o))
  <2>1. Good(Meta(o)) /\ Save(dbName, o) \in Seq(AnyCall)
    BY <1>1, <1>5, MetaIsGood, SaveCurrentType
  <2> QED
    BY <1>1, <1>5, <2>1, ChangesIsGood
<1> QED
  BY <1>2, <1>3, <1>4, <1>5 DEF CallCreateIndex, CallUpdateIndexRoot

LEMMA StatisticsCallsAreGood ==
    ASSUME IInv, NEW c \in Client, CallUpdateReadCount(c) \/ CallResetStatistics(c)
    PROVE  IInv'
<1>1. calls[c] # <<>> /\ Save(dbName, c) \in Seq(AnyCall) /\ <<>> \in Seq(AnyCall)
  BY SaveCurrentType DEF CallUpdateReadCount, CallResetStatistics, Now
<1>2. CASE CanLoad(view[c], dbName) /\ Changes(c, c, UpdateIOStats(Meta(c), 1), <<>>)
  BY <1>1, <1>2, MetaIsGood, CountersAreGood, ChangesIsGood
<1>3. CASE CanLoad(view[c], dbName) /\ Changes(c, c, ResetStatistics(Meta(c)), Save(dbName, c))
  BY <1>1, <1>3, MetaIsGood, CountersAreGood, ChangesIsGood
<1>4. CASE Throws(c)
  BY <1>1, <1>4, ThrowsOrIgnoredIsGood
<1> QED
  BY <1>2, <1>3, <1>4 DEF CallUpdateReadCount, CallResetStatistics

-----------------------------------------------------------------------------
(* The theorems *)

LEMMA NextIsGood == IInv /\ [Next]_vars => IInv'
<1> SUFFICES ASSUME IInv, [Next]_vars PROVE IInv'
  OBVIOUS
<1>1. CASE Kill
  BY <1>1, ProcessEndsIsGood DEF Kill
<1>2. ASSUME NEW c \in Client, Session(c) PROVE IInv'
  BY <1>2, ConnectIsGood, LoginIsGood, LeaveIsGood, LeftIsGood DEF Session
<1>3. ASSUME NEW c \in Client, Statement(c) PROVE IInv'
  BY <1>3, UseAndShowAreGood, DatabaseStatementsAreGood, CreateTableStatementIsGood,
     TableStatementsAreGood, StatisticsIsGood, ConfigureIsGood DEF Statement
<1>4. ASSUME NEW c \in Client, CallStep(c) PROVE IInv'
  BY <1>4, SavesAreGood, RegistrationsAreGood, TableCallsAreGood, ColumnCallsAreGood,
     IndexCallsAreGood, StatisticsCallsAreGood DEF CallStep
<1>5. CASE UNCHANGED vars
  BY <1>5 DEF vars, IInv
<1> QED
  BY <1>1, <1>2, <1>3, <1>4, <1>5 DEF Next

\* Every copy of the catalog, in a file or in the memory of a session, has
\* distinct ids and indexes with tables, whatever the sessions do.
THEOREM IInvHolds == Spec => []IInv
BY InitIsGood, NextIsGood, PTL DEF Spec

LEMMA EveryCopyIsGood ==
    ASSUME IInv
    PROVE  (\A m \in Metadatas : Good(m)) /\ (\A r \in Registries : GoodList(r))
BY DEF IInv, Metadatas, Registries, GoodView, GoodMetas

\* No two tables, indexes or databases of one catalog share an id
\* (GenerateNewTableId, GenerateNewIndexId, GenerateNewDatabaseId), for any
\* number of sessions that overwrite each other's files and are killed.
THEOREM IdsStayUnique == Spec => []IdsAreUnique
<1>1. IInv => IdsAreUnique
  BY EveryCopyIsGood DEF IdsAreUnique, Good, Plain, GoodList
<1> QED
  BY <1>1, IInvHolds, PTL

\* An index never outlives its table, nor passes to another one
\* (DatabaseMetadataManager::DropTable, CatalogManager::CreateIndex).
THEOREM IndexesKeepTheirTable == Spec => []IndexesHaveTheirTable
<1>1. IInv => IndexesHaveTheirTable
  BY EveryCopyIsGood DEF IndexesHaveTheirTable, Good, Plain
<1> QED
  BY <1>1, IInvHolds, PTL

-----------------------------------------------------------------------------
(* Types *)

\* A session that has just begun has no calls to make.
Modes ==
    /\ mode \in [Client -> {"out", "login", "idle", "leaving"}]
    /\ \A c \in Client : mode[c] \in {"out", "login"} => calls[c] = <<>>
    /\ serial \in BOOLEAN

\* A call a client makes takes it nowhere else.
LEMMA CallsHaveModes ==
    ASSUME IInv, Modes, NEW c \in Client, CallStep(c)
    PROVE  Modes'
<1>1. CASE ProcessEnds
  BY <1>1 DEF ProcessEnds, Modes
<1>2. CASE /\ calls[c] # <<>> /\ mode' = mode /\ serial' = serial
           /\ \E rest : calls' = [calls EXCEPT ![c] = rest]
  BY <1>2 DEF Modes, IInv
<1> USE DEF Now, Changes, Fails, Throws, Ignored, history
<1>3. CASE Open(c) \/ Write(c) \/ LostSave(c)
  BY <1>2, <1>3, Zenon DEF Open, Write, LostSave
<1>4. CASE Register(c) \/ NewMetadata(c) \/ Unregister(c) \/ RemoveDirectory(c)
  BY <1>2, <1>4, Zenon DEF Register, NewMetadata, Unregister, RemoveDirectory
<1>5. CASE CallCreateTable(c) \/ CallDropTable(c) \/ CallAddColumn(c)
  BY <1>1, <1>2, <1>5, Zenon DEF CallCreateTable, CallDropTable, CallAddColumn
<1>6. CASE CallSetPrimaryKey(c) \/ CallSetNullable(c) \/ CallSetUnique(c) \/ CallDropColumn(c)
  BY <1>2, <1>6, Zenon DEF CallSetPrimaryKey, CallSetNullable, CallSetUnique, CallDropColumn, OnColumn
<1>7. CASE CallCreateIndex(c) \/ CallUpdateIndexRoot(c)
  BY <1>1, <1>2, <1>7, Zenon DEF CallCreateIndex, CallUpdateIndexRoot
<1>8. CASE CallUpdateReadCount(c) \/ CallResetStatistics(c)
  BY <1>2, <1>8, Zenon DEF CallUpdateReadCount, CallResetStatistics
<1> QED
  BY <1>3, <1>4, <1>5, <1>6, <1>7, <1>8 DEF CallStep

LEMMA ModesNext == IInv /\ Modes /\ [Next]_vars => Modes'
<1> SUFFICES ASSUME IInv, Modes, [Next]_vars PROVE Modes'
  OBVIOUS
<1>1. CASE Kill
  BY <1>1 DEF Kill, ProcessEnds, Modes
<1>2. ASSUME NEW c \in Client, Session(c) PROVE Modes'
  <2>1. CASE Connect(c)
    BY <2>1 DEF Connect, Modes
  <2>2. CASE Login(c)
    BY <2>2 DEF Login, Modes
  <2>3. CASE Leave(c)
    BY <2>3 DEF Leave, Modes, IInv
  <2>4. CASE Left(c)
    <3>1. \A o \in Client : calls[o] = <<>> => calls'[o] = <<>>
      BY <2>4 DEF Left
    <3> QED
      BY <2>4, <3>1 DEF Left, Modes
  <2> QED
    BY <1>2, <2>1, <2>2, <2>3, <2>4 DEF Session
<1>3. ASSUME NEW c \in Client, Statement(c) PROVE Modes'
  <2>1. PICK kind, program : Begin(c, kind, program)
    BY <1>3 DEF Statement, ShowTables, Configure, UseDatabase, CreateDatabase, DropDatabase,
                DropTableStatement, CreateTableStatement, AddColumnStatement, DropColumnStatement,
                StatisticsStatement
  <2> QED
    BY <2>1 DEF Begin, Modes, IInv
<1>4. ASSUME NEW c \in Client, CallStep(c) PROVE Modes'
  BY <1>4, CallsHaveModes
<1>5. CASE UNCHANGED vars
  BY <1>5 DEF vars, Modes
<1> QED
  BY <1>1, <1>2, <1>3, <1>4, <1>5 DEF Next

\* Types: whatever the sessions do, the files and the sessions' copies hold
\* metadata of tables and indexes, and a statement is a list of calls.
THEOREM TypeCorrect == Spec => []TypeOK
<1>1. Init => Modes
  BY DEF Init, Modes
<1>2. ASSUME NEW v, GoodView(v) PROVE IsView(v)
  BY <1>2 DEF GoodView, GoodList, GoodMetas, Good, Sound, IsView, Setting
<1>3. IInv /\ Modes => TypeOK
  <2> SUFFICES ASSUME IInv, Modes PROVE TypeOK
    OBVIOUS
  <2> DEFINE v == [registry |-> registryFile, config |-> configFile, metas |-> metaFile]
  <2>1. GoodView(v)
    BY DEF IInv, GoodView
  <2>2. IsView(v) /\ \A c \in Client : IsView(view[c])
    BY <1>2, <2>1 DEF IInv
  <2> QED
    BY <2>2 DEF IInv, Modes, TypeOK
<1> QED
  BY <1>1, <1>3, ModesNext, IInvHolds, InitIsGood, NextIsGood, PTL DEF Spec

\* An index is listed with the columns it was made on, until one of the
\* table's columns is dropped (CatalogManager::ListIndexes finds them by their
\* ids; AddColumn gives the new column the id after the last).
THEOREM IndexesListColumns == Spec => []IndexesListTheirColumns
<1>1. IInv => IndexesListTheirColumns
  <2> SUFFICES ASSUME IInv, NEW m \in Metadatas, NEW i \in DOMAIN m.indexes,
                      IndexHasItsTable(m, i), ~m.tables[m.indexes[i].of].shrunk
               PROVE  IndexListsItsColumns(m, i)
    BY DEF IndexesListTheirColumns
  <2>1. Good(m)
    BY EveryCopyIsGood
  <2>2. SoundTable(m.tables[m.indexes[i].of]) /\ m.indexes[i] \in Index
        /\ FindsItsColumns(m.indexes[i], m.tables[m.indexes[i].of])
    BY <2>1 DEF Good, Sound, IsMetadata, IndexHasItsTable
  <2> QED
    BY <2>2, ListsItsColumns DEF IndexListsItsColumns
<1> QED
  BY <1>1, IInvHolds, PTL

-----------------------------------------------------------------------------
(* Calls that a session has yet to make *)

TableOp == {"create_table", "drop_table", "add_column", "drop_column", "set_primary_key", "set_nullable",
            "set_unique", "create_index", "update_index_root", "update_read_count", "reset_statistics"}
SaveOp == {"open", "write"}

Pending(s, file) == \E i \in 1..Len(s) : s[i].op = "write" /\ s[i].file = file

\* The saves are client c's, of databases it holds; what is cut is written.
SavesOnly(s, c, held) ==
    \A i \in 1..Len(s) :
        /\ s[i].op \in SaveOp /\ s[i].who = c
        /\ s[i].file \in Database => s[i].file \in held
        /\ s[i].op = "open" => \E j \in (i + 1)..Len(s) : s[j].op = "write" /\ s[j].file = s[i].file

\* What may be left of a statement of client c that holds copies of the
\* databases "held", when those in "there" have metadata: saves come before
\* calls on tables; what is cut is written; a new or removed entry of the
\* registry is saved; and a database that is dropped is first unregistered,
\* then removed, with nothing else in between but the save of the registry.
Shaped(s, c, held, there) ==
    \A i \in 1..Len(s) :
        /\ s[i].op \in TableOp => \A j \in (i + 1)..Len(s) : s[j].op \in TableOp
        /\ s[i].op = "create_table" => i = 1
        /\ s[i].op \in SaveOp =>
             /\ s[i].who = c
             /\ s[i].file \in Database =>
                  \/ s[i].file \in held
                  \/ \E j \in 1..(i - 1) : s[j].op = "new_metadata" /\ s[j].db = s[i].file
        /\ s[i].op = "open" => \E j \in (i + 1)..Len(s) : s[j].op = "write" /\ s[j].file = s[i].file
        /\ s[i].op \in {"register", "unregister"} =>
             \E j \in (i + 1)..Len(s) : s[j].op = "write" /\ s[j].file = "registry"
        /\ s[i].op = "unregister" =>
             \E j \in (i + 1)..Len(s) : s[j].op = "remove_directory" /\ s[j].db = s[i].db
        /\ s[i].op = "remove_directory" =>
             \/ s[i].db \notin there
             \/ \E j \in 1..(i - 1) : s[j].op = "unregister" /\ s[j].db = s[i].db
        /\ s[i].op \in {"unregister", "remove_directory"} =>
             \A j \in 1..Len(s) :
                \/ s[j].op \in {"unregister", "remove_directory"} /\ s[j].db = s[i].db
                \/ s[j].op \in SaveOp /\ s[j].file = "registry"

LEMMA NothingIsShaped ==
    ASSUME NEW c, NEW held, NEW there
    PROVE  Shaped(<<>>, c, held, there) /\ SavesOnly(<<>>, c, held)
BY DEF Shaped, SavesOnly

LEMMA SaveIsSavesOnly ==
    ASSUME NEW c \in Client, NEW held, NEW file \in File, file \in Database => file \in held
    PROVE  SavesOnly(Save(file, c), c, held) /\ Pending(Save(file, c), file)
<1> DEFINE s == Save(file, c)
<1>1. Len(s) = 2 /\ s[1] = [op |-> "open", file |-> file, who |-> c]
      /\ s[2] = [op |-> "write", file |-> file, who |-> c]
  BY DEF Save
<1>2. \A i \in 1..2 : i = 1 \/ i = 2
  OBVIOUS
<1>3. s[1].op = "open" /\ s[1].file = file /\ s[1].who = c /\ s[2].op = "write" /\ s[2].file = file
      /\ s[2].who = c /\ 2 \in (1 + 1)..2 /\ 2 \in 1..2
  BY <1>1
<1> HIDE DEF s
<1>4. SavesOnly(s, c, held)
  BY <1>1, <1>2, <1>3 DEF SavesOnly, SaveOp
<1>5. Pending(s, file)
  BY <1>1, <1>3 DEF Pending
<1> QED
  BY <1>4, <1>5 DEF s

\* Where the elements of two sequences are when one is put after the other.
LEMMA PlacesOf ==
    ASSUME NEW S, NEW s \in Seq(S), NEW t \in Seq(S)
    PROVE  /\ s \o t \in Seq(S) /\ Len(s \o t) = Len(s) + Len(t)
           /\ Len(s) \in Nat /\ Len(t) \in Nat
           /\ \A i \in 1..Len(s) : (s \o t)[i] = s[i] /\ i \in 1..Len(s \o t)
           /\ \A i \in 1..Len(t) : (s \o t)[Len(s) + i] = t[i] /\ Len(s) + i \in 1..Len(s \o t)
           /\ \A i \in 1..Len(s \o t) : i \in 1..Len(s) \/ \E j \in 1..Len(t) : i = Len(s) + j
<1>1. s \o t \in Seq(S) /\ Len(s \o t) = Len(s) + Len(t) /\ Len(s) \in Nat /\ Len(t) \in Nat
  OBVIOUS
<1>2. \A i \in 1..Len(s) : (s \o t)[i] = s[i]
  OBVIOUS
<1>3. \A i \in 1..Len(t) : (s \o t)[Len(s) + i] = t[i]
  OBVIOUS
<1> DEFINE u == s \o t
           n == Len(s)
           k == Len(t)
<1> HIDE DEF u, n, k
<1>4. /\ \A i \in 1..n : i \in 1..Len(u)
      /\ \A i \in 1..k : n + i \in 1..Len(u)
      /\ \A i \in 1..Len(u) : i \in 1..n \/ (i - n \in 1..k /\ i = n + (i - n))
  BY <1>1 DEF u, n, k
<1> QED
  BY <1>1, <1>2, <1>3, <1>4 DEF u, n, k

LEMMA JoinedPlaces ==
    ASSUME NEW S, NEW s \in Seq(S), NEW t \in Seq(S), 1 \in 1..Len(s)
    PROVE  /\ s \o t \in Seq(S) /\ Len(s \o t) = Len(s) + Len(t) /\ (s \o t)[1] = s[1] /\ Head(s \o t) = s[1]
           /\ \A i \in 1..Len(s \o t) : \/ i \in 1..Len(s) /\ (s \o t)[i] = s[i]
                                        \/ i - Len(s) \in 1..Len(t) /\ (s \o t)[i] = t[i - Len(s)]
OBVIOUS

\* What holds of the elements of two sequences holds of those of the two in a row.
LEMMA JoinedElements ==
    ASSUME NEW s \in Seq(AnyCall), NEW t \in Seq(AnyCall)
    PROVE  /\ s \o t \in Seq(AnyCall)
           /\ \A A, B : (\A i \in 1..Len(s) : s[i].op \in A) /\ (\A i \in 1..Len(t) : t[i].op \in B)
                    => \A i \in 1..Len(s \o t) : (s \o t)[i].op \in A \cup B
<1> DEFINE u == s \o t
<1>1. /\ u \in Seq(AnyCall)
      /\ \A i \in 1..Len(s) : u[i] = s[i]
      /\ \A i \in 1..Len(t) : u[Len(s) + i] = t[i]
      /\ \A i \in 1..Len(u) : i \in 1..Len(s) \/ \E j \in 1..Len(t) : i = Len(s) + j
  BY PlacesOf, SMTT(40)
<1> HIDE DEF u
<1>2. \A A, B : (\A i \in 1..Len(s) : s[i].op \in A) /\ (\A i \in 1..Len(t) : t[i].op \in B)
                    => \A i \in 1..Len(u) : u[i].op \in A \cup B
  <2> SUFFICES ASSUME NEW A, NEW B, \A i \in 1..Len(s) : s[i].op \in A, \A i \in 1..Len(t) : t[i].op \in B,
                      NEW i \in 1..Len(u)
               PROVE  u[i].op \in A \cup B
    OBVIOUS
  <2> QED
    BY <1>1
<1> QED
  BY <1>1, <1>2 DEF u

\* Joining sequences is associative.
LEMMA JoinedTwice ==
    ASSUME NEW s \in Seq(AnyCall), NEW t \in Seq(AnyCall), NEW u \in Seq(AnyCall)
    PROVE  (s \o t) \o u = s \o (t \o u) /\ s \o <<>> = s /\ <<>> \o t = t
<1>1. (s \o t) \o u = s \o (t \o u)
  BY ConcatAssociative
<1>2. s \o <<>> = s /\ <<>> \o t = t
  BY ConcatEmptySeq
<1> QED
  BY <1>1, <1>2

LEMMA SavesAfterSaves ==
    ASSUME NEW c, NEW held, NEW s \in Seq(AnyCall), NEW t \in Seq(AnyCall),
           SavesOnly(s, c, held), SavesOnly(t, c, held)
    PROVE  /\ SavesOnly(s \o t, c, held)
           /\ \A f : Pending(s, f) \/ Pending(t, f) => Pending(s \o t, f)
<1> DEFINE u == s \o t
<1>1. /\ Len(u) = Len(s) + Len(t) /\ Len(s) \in Nat /\ Len(t) \in Nat
      /\ \A i \in 1..Len(s) : u[i] = s[i] /\ i \in 1..Len(u)
      /\ \A i \in 1..Len(t) : u[Len(s) + i] = t[i] /\ Len(s) + i \in 1..Len(u)
      /\ \A i \in 1..Len(u) : i \in 1..Len(s) \/ \E j \in 1..Len(t) : i = Len(s) + j
  BY PlacesOf, SMTT(40)
<1> HIDE DEF u
<1>2. ASSUME NEW i \in 1..Len(s)
      PROVE  /\ u[i].op \in SaveOp /\ u[i].who = c
             /\ u[i].file \in Database => u[i].file \in held
             /\ u[i].op = "open" => \E j \in (i + 1)..Len(u) : u[j].op = "write" /\ u[j].file = u[i].file
  <2>1. \A j \in (i + 1)..Len(s) : j \in 1..Len(s) /\ j \in (i + 1)..Len(u) /\ u[j] = s[j]
    BY <1>1
  <2> QED
    BY <1>1, <2>1 DEF SavesOnly
<1>3. ASSUME NEW i \in 1..Len(t)
      PROVE  LET k == Len(s) + i
             IN  /\ u[k].op \in SaveOp /\ u[k].who = c
                 /\ u[k].file \in Database => u[k].file \in held
                 /\ u[k].op = "open" => \E j \in (k + 1)..Len(u) : u[j].op = "write" /\ u[j].file = u[k].file
  <2> DEFINE k == Len(s) + i
  <2>1. \A j \in (i + 1)..Len(t) : j \in 1..Len(t) /\ Len(s) + j \in (k + 1)..Len(u)
    BY <1>1
  <2>2. \A j \in (i + 1)..Len(t) : u[Len(s) + j] = t[j]
    BY <1>1, <2>1
  <2>3. u[k] = t[i]
    BY <1>1
  <2> HIDE DEF k
  <2>4. t[i].op = "open" => \E j \in (k + 1)..Len(u) : u[j].op = "write" /\ u[j].file = t[i].file
    <3>1. SUFFICES ASSUME t[i].op = "open"
                   PROVE  \E j \in (k + 1)..Len(u) : u[j].op = "write" /\ u[j].file = t[i].file
      OBVIOUS
    <3>2. PICK j \in (i + 1)..Len(t) : t[j].op = "write" /\ t[j].file = t[i].file
      BY <3>1 DEF SavesOnly
    <3> QED
      BY <2>1, <2>2, <3>2
  <2> QED
    BY <2>3, <2>4 DEF SavesOnly, k
<1>4. SavesOnly(u, c, held)
  <2>1. \A k \in 1..Len(u) :
          /\ u[k].op \in SaveOp /\ u[k].who = c
          /\ u[k].file \in Database => u[k].file \in held
          /\ u[k].op = "open" => \E j \in (k + 1)..Len(u) : u[j].op = "write" /\ u[j].file = u[k].file
    <3>1. TAKE k \in 1..Len(u)
    <3>2. CASE k \in 1..Len(s)
      BY <1>2, <3>2
    <3>3. CASE \E j \in 1..Len(t) : k = Len(s) + j
      BY <1>3, <3>3
    <3> QED
      BY <1>1, <3>2, <3>3
  <2> QED
    BY <2>1 DEF SavesOnly
<1>5. \A f : Pending(s, f) \/ Pending(t, f) => Pending(u, f)
  BY <1>1 DEF Pending
<1> QED
  BY <1>4, <1>5 DEF u

\* Saves and calls on tables after them.
LEMMA SavesThenTables ==
    ASSUME NEW c, NEW held, NEW there, NEW s \in Seq(AnyCall), NEW t \in Seq(AnyCall),
           SavesOnly(s, c, held),
           \A i \in 1..Len(t) : t[i].op \in TableOp /\ (t[i].op = "create_table" => i = 1 /\ s = <<>>)
    PROVE  /\ Shaped(s \o t, c, held, there)
           /\ \A f : Pending(s, f) => Pending(s \o t, f)
<1> DEFINE u == s \o t
<1>1. /\ Len(u) = Len(s) + Len(t) /\ Len(s) \in Nat /\ Len(t) \in Nat
      /\ \A i \in 1..Len(s) : u[i] = s[i] /\ i \in 1..Len(u)
      /\ \A i \in 1..Len(t) : u[Len(s) + i] = t[i] /\ Len(s) + i \in 1..Len(u)
      /\ \A i \in 1..Len(u) : i \in 1..Len(s) \/ \E j \in 1..Len(t) : i = Len(s) + j
      /\ s = <<>> => Len(s) = 0
  BY PlacesOf
<1> HIDE DEF u
<1>2. ASSUME NEW i \in 1..Len(s)
      PROVE  /\ u[i].op \in SaveOp /\ u[i].who = c
             /\ u[i].file \in Database => u[i].file \in held
             /\ u[i].op = "open" => \E j \in (i + 1)..Len(u) : u[j].op = "write" /\ u[j].file = u[i].file
  <2>1. \A j \in (i + 1)..Len(s) : j \in 1..Len(s) /\ j \in (i + 1)..Len(u)
    BY <1>1
  <2>2. \A j \in (i + 1)..Len(s) : u[j] = s[j]
    BY <1>1, <2>1
  <2>3. u[i] = s[i]
    BY <1>1
  <2> QED
    BY <2>1, <2>2, <2>3 DEF SavesOnly
<1>4. \A i \in 1..Len(u) : i \in 1..Len(s) \/ u[i].op \in TableOp
  <2>1. TAKE i \in 1..Len(u)
  <2>2. CASE \E j \in 1..Len(t) : i = Len(s) + j
    <3>1. PICK j \in 1..Len(t) : i = Len(s) + j
      BY <2>2
    <3>2. u[i] = t[j]
      BY <1>1, <3>1
    <3> QED
      BY <3>2
  <2> QED
    BY <1>1, <2>2
<1>3. ASSUME NEW i \in 1..Len(u), u[i].op \in TableOp
      PROVE  (\A j \in (i + 1)..Len(u) : u[j].op \in TableOp) /\ (u[i].op = "create_table" => i = 1)
  <2>1. i \notin 1..Len(s)
    BY <1>2, <1>3 DEF SaveOp, TableOp
  <2>2. PICK k \in 1..Len(t) : i = Len(s) + k
    BY <1>1, <2>1
  <2>3. ASSUME NEW j \in (i + 1)..Len(u) PROVE u[j].op \in TableOp
    <3>1. j \in 1..Len(u) /\ j \notin 1..Len(s)
      BY <1>1, <2>2
    <3> QED
      BY <1>4, <3>1
  <2>4. u[i] = t[k]
    BY <1>1, <2>2
  <2> QED
    BY <1>1, <2>2, <2>3, <2>4
<1>5. Shaped(u, c, held, there)
  <2>1. SUFFICES ASSUME NEW i \in 1..Len(u)
                 PROVE  /\ u[i].op \in TableOp => \A j \in (i + 1)..Len(u) : u[j].op \in TableOp
                        /\ u[i].op = "create_table" => i = 1
                        /\ u[i].op \in TableOp
                           \/ /\ u[i].op \in SaveOp /\ u[i].who = c
                              /\ u[i].file \in Database => u[i].file \in held
                              /\ u[i].op = "open" =>
                                   \E j \in (i + 1)..Len(u) : u[j].op = "write" /\ u[j].file = u[i].file
    <3>1. \A op \in SaveOp \cup TableOp : op \notin {"register", "unregister", "remove_directory"}
      BY DEF SaveOp, TableOp
    <3>2. "create_table" \in TableOp /\ "open" \notin TableOp /\ \A op \in SaveOp : op \notin TableOp
      BY DEF SaveOp, TableOp
    <3> HIDE DEF SaveOp, TableOp
    <3> QED
      BY <2>1, <3>1, <3>2 DEF Shaped
  <2>2. "create_table" \in TableOp
    BY DEF TableOp
  <2> QED
    BY <1>2, <1>3, <1>4, <2>2
<1>6. \A f : Pending(s, f) => Pending(u, f)
  BY <1>1 DEF Pending
<1> QED
  BY <1>5, <1>6 DEF u

\* What is to be saved is still held after the first call, and what is to be
\* removed is still not there.
StillHeld(s, held, held2) ==
    /\ \A i \in 2..Len(s) : s[i].op \in SaveOp /\ s[i].file \in held => s[i].file \in held2
    /\ s[1].op = "new_metadata" => s[1].db \in held2
StillGone(s, there, there2) ==
    /\ \A i \in 2..Len(s) : s[i].op = "remove_directory" /\ s[i].db \notin there => s[i].db \notin there2
    /\ s[1].op = "unregister" => s[1].db \notin there2

\* The rest keeps its shape when the first call has been made.
LEMMA RestIsShaped ==
    ASSUME NEW s \in Seq(AnyCall), s # <<>>, NEW c, NEW held, NEW there, Shaped(s, c, held, there),
           NEW held2, NEW there2, StillHeld(s, held, held2), StillGone(s, there, there2)
    PROVE  /\ Shaped(Tail(s), c, held2, there2)
           /\ \A i \in 1..Len(Tail(s)) : Tail(s)[i].op # "create_table"
           /\ \A f : Pending(s, f) /\ ~(s[1].op = "write" /\ s[1].file = f) => Pending(Tail(s), f)
<1> DEFINE t == Tail(s)
           n == Len(s)
<1>1. n \in Nat /\ n >= 1 /\ Len(t) = n - 1 /\ \A i \in 1..(n - 1) : t[i] = s[i + 1] /\ i + 1 \in 2..n /\ i + 1 \in 1..n
  OBVIOUS
<1>2. \A j \in 2..n : j - 1 \in 1..(n - 1) /\ t[j - 1] = s[j]
  BY <1>1
<1> HIDE DEF t, n
<1>3. ASSUME NEW i \in 1..(n - 1)
      PROVE  /\ t[i].op \in TableOp => \A j \in (i + 1)..(n - 1) : t[j].op \in TableOp
             /\ t[i].op # "create_table"
             /\ t[i].op = "open" => \E j \in (i + 1)..(n - 1) : t[j].op = "write" /\ t[j].file = t[i].file
             /\ t[i].op \in {"register", "unregister"} =>
                  \E j \in (i + 1)..(n - 1) : t[j].op = "write" /\ t[j].file = "registry"
             /\ t[i].op = "unregister" =>
                  \E j \in (i + 1)..(n - 1) : t[j].op = "remove_directory" /\ t[j].db = t[i].db
  <2>1. t[i] = s[i + 1] /\ i + 1 \in 1..n /\ i + 1 # 1
    BY <1>1
  <2>2. \A j \in (i + 1)..(n - 1) : t[j] = s[j + 1] /\ j + 1 \in ((i + 1) + 1)..n
    BY <1>1
  <2>3. \A j \in ((i + 1) + 1)..n : j - 1 \in (i + 1)..(n - 1) /\ t[j - 1] = s[j]
    BY <1>1, <1>2
  <2> DEFINE h == i + 1
  <2>4. h \in 1..n /\ h # 1 /\ t[i] = s[h]
    BY <2>1
  <2>5. /\ \A j \in (i + 1)..(n - 1) : t[j] = s[j + 1] /\ j + 1 \in (h + 1)..n
        /\ \A j \in (h + 1)..n : j - 1 \in (i + 1)..(n - 1) /\ t[j - 1] = s[j]
    BY <2>2, <2>3
  <2> HIDE DEF h
  <2>6. /\ s[h].op \in TableOp => \A j \in (h + 1)..n : s[j].op \in TableOp
        /\ s[h].op = "create_table" => h = 1
        /\ s[h].op = "open" => \E j \in (h + 1)..n : s[j].op = "write" /\ s[j].file = s[h].file
        /\ s[h].op \in {"register", "unregister"} =>
             \E j \in (h + 1)..n : s[j].op = "write" /\ s[j].file = "registry"
        /\ s[h].op = "unregister" =>
             \E j \in (h + 1)..n : s[j].op = "remove_directory" /\ s[j].db = s[h].db
    BY <2>4 DEF Shaped, n
  <2>7. ASSUME NEW j \in (h + 1)..n PROVE \E k \in (i + 1)..(n - 1) : t[k] = s[j]
    BY <2>5
  <2>8. \A j \in (i + 1)..(n - 1) : \E k \in (h + 1)..n : t[j] = s[k]
    BY <2>5
  <2>9. t[i].op \in TableOp => \A j \in (i + 1)..(n - 1) : t[j].op \in TableOp
    BY <2>4, <2>6, <2>8
  <2>10. t[i].op # "create_table"
    BY <2>4, <2>6
  <2>11. t[i].op = "open" => \E j \in (i + 1)..(n - 1) : t[j].op = "write" /\ t[j].file = t[i].file
    BY <2>4, <2>6, <2>7
  <2>12. t[i].op \in {"register", "unregister"} =>
           \E j \in (i + 1)..(n - 1) : t[j].op = "write" /\ t[j].file = "registry"
    BY <2>4, <2>6, <2>7
  <2>13. t[i].op = "unregister" =>
           \E j \in (i + 1)..(n - 1) : t[j].op = "remove_directory" /\ t[j].db = t[i].db
    BY <2>4, <2>6, <2>7
  <2> QED
    BY <2>9, <2>10, <2>11, <2>12, <2>13
<1>4. ASSUME NEW i \in 1..(n - 1)
      PROVE  /\ t[i].op \in SaveOp =>
                  /\ t[i].who = c
                  /\ t[i].file \in Database =>
                       \/ t[i].file \in held2
                       \/ \E j \in 1..(i - 1) : t[j].op = "new_metadata" /\ t[j].db = t[i].file
             /\ t[i].op = "remove_directory" =>
                  \/ t[i].db \notin there2
                  \/ \E j \in 1..(i - 1) : t[j].op = "unregister" /\ t[j].db = t[i].db
  <2>1. t[i] = s[i + 1] /\ i + 1 \in 2..n /\ i + 1 \in 1..n
    BY <1>1
  <2> DEFINE h == i + 1
  <2>2. \A j \in 1..(h - 1) : j = 1 \/ (j - 1 \in 1..(i - 1) /\ t[j - 1] = s[j])
    BY <1>1, <1>2
  <2>3. t[i] = s[h] /\ h \in 2..n /\ h \in 1..n
    BY <2>1
  <2> HIDE DEF h
  <2>4. /\ s[h].op \in SaveOp =>
             /\ s[h].who = c
             /\ s[h].file \in Database =>
                  \/ s[h].file \in held
                  \/ \E j \in 1..(h - 1) : s[j].op = "new_metadata" /\ s[j].db = s[h].file
        /\ s[h].op = "remove_directory" =>
             \/ s[h].db \notin there
             \/ \E j \in 1..(h - 1) : s[j].op = "unregister" /\ s[j].db = s[h].db
    BY <2>3 DEF Shaped, n
  <2>5. ASSUME NEW j \in 1..(h - 1) PROVE j = 1 \/ \E k \in 1..(i - 1) : t[k] = s[j]
    BY <2>2
  <2>6. s[h].op \in SaveOp =>
          /\ s[h].who = c
          /\ s[h].file \in Database =>
               \/ s[h].file \in held2
               \/ \E j \in 1..(i - 1) : t[j].op = "new_metadata" /\ t[j].db = s[h].file
    BY <2>3, <2>4, <2>5 DEF n, StillHeld
  <2>7. s[h].op = "remove_directory" =>
          \/ s[h].db \notin there2
          \/ \E j \in 1..(i - 1) : t[j].op = "unregister" /\ t[j].db = s[h].db
    BY <2>3, <2>4, <2>5 DEF n, StillGone
  <2> QED
    BY <2>3, <2>6, <2>7
<1>5. ASSUME NEW i \in 1..(n - 1), t[i].op \in {"unregister", "remove_directory"}, NEW j \in 1..(n - 1)
      PROVE  \/ t[j].op \in {"unregister", "remove_directory"} /\ t[j].db = t[i].db
             \/ t[j].op \in SaveOp /\ t[j].file = "registry"
  <2>1. t[i] = s[i + 1] /\ i + 1 \in 1..n /\ t[j] = s[j + 1] /\ j + 1 \in 1..n
    BY <1>1
  <2> QED
    BY <1>5, <2>1 DEF Shaped, n
<1>6. Shaped(t, c, held2, there2)
  BY <1>1, <1>3, <1>4, <1>5 DEF Shaped
<1>7. ASSUME NEW f, Pending(s, f), ~(s[1].op = "write" /\ s[1].file = f)
      PROVE  Pending(t, f)
  <2>1. PICK j \in 1..n : s[j].op = "write" /\ s[j].file = f
    BY <1>7 DEF Pending, n
  <2>2. j \in 2..n
    BY <1>1, <1>7, <2>1
  <2> QED
    BY <1>1, <1>2, <2>1, <2>2 DEF Pending
<1> QED
  BY <1>1, <1>3, <1>6, <1>7 DEF t

-----------------------------------------------------------------------------
(* Sessions that follow one another *)

Function(f) == f = [x \in DOMAIN f |-> f[x]]

\* The pages that tables have been given are below their number, as long as
\* none has been dropped: the next page is a new one.
PagesPacked(m) ==
    ~m.tableDropped =>
      /\ PagesDistinct(m)
      /\ \A t \in DOMAIN m.tables : m.tables[t].page < Cardinality(DOMAIN m.tables)
Packed(ms) == \A d \in DOMAIN ms : PagesPacked(ms[d])

\* Session c has in memory what serial sessions have made of the catalog.
ViewAgrees(c) ==
    /\ view[c].registry = latest.registry /\ view[c].config = latest.config
    /\ \A d \in DOMAIN view[c].metas : d \in DOMAIN latest.metas /\ view[c].metas[d] = latest.metas[d]

\* So have the files, or session c will yet write them; statistics it will
\* write when it leaves.
FilesAgree(c) ==
    /\ registryFile = latest.registry \/ Pending(calls[c], "registry")
    /\ configFile = latest.config \/ Pending(calls[c], "config")
    /\ DOMAIN latest.metas \subseteq DOMAIN metaFile
    /\ \A d \in DOMAIN latest.metas :
         \/ metaFile[d] = latest.metas[d]
         \/ d \in DOMAIN view[c].metas /\ Pending(calls[c], d)
         \/ /\ d \in DOMAIN view[c].metas /\ mode[c] = "idle"
            /\ metaFile[d] = [latest.metas[d] EXCEPT !.reads = metaFile[d].reads]
    /\ \A d \in DOMAIN metaFile \ DOMAIN latest.metas :
         \E i \in 1..Len(calls[c]) : calls[c][i].op = "remove_directory" /\ calls[c][i].db = d

CallsFit(c) ==
    /\ Shaped(calls[c], c, DOMAIN view[c].metas, DOMAIN latest.metas)
    /\ mode[c] = "leaving" => \A i \in 1..Len(calls[c]) : calls[c][i].op \in SaveOp
    /\ mode[c] = "idle" => indexOwner = c

\* The page of the table that is about to be created is still the next one.
PagePlanned(c) ==
    calls[c] # <<>> /\ Call(c).op = "create_table" /\ CanLoad(view[c], dbName) =>
      /\ dbName \in DOMAIN view[c].metas
      /\ Call(c).page = Cardinality(DOMAIN view[c].metas[dbName].tables)

SessionInv(c) == ViewAgrees(c) /\ FilesAgree(c) /\ CallsFit(c) /\ PagePlanned(c)

Files == [registry |-> registryFile, config |-> configFile, metas |-> metaFile]

\* What the history variable "latest" is: a catalog.
Recorded ==
    /\ latest = [registry |-> latest.registry, config |-> latest.config, metas |-> latest.metas]
    /\ Function(latest.metas) /\ \A d \in DOMAIN latest.metas : Function(latest.metas[d])

OneSession == \A c, d \in Client : mode[c] # "out" /\ mode[d] # "out" => c = d

AllPacked == Packed(metaFile) /\ \A c \in Client : Packed(view[c].metas)

SerialInv ==
    serial =>
      /\ OneSession
      /\ Recorded /\ Function(metaFile)
      /\ AllPacked
      /\ \A c \in Client : mode[c] # "out" => SessionInv(c)
      /\ (\A c \in Client : mode[c] = "out") => Files = latest

LEMMA EmptyIsPacked == PagesPacked(EmptyMetadata) /\ Packed(<<>>) /\ Function(EmptyMetadata)
<1> DEFINE m == EmptyMetadata
<1>1. m.tables = <<>> /\ DOMAIN m.tables = {} /\ Function(m) /\ DOMAIN <<>> = {}
  BY DEF EmptyMetadata, Function
<1> QED
  BY <1>1 DEF PagesPacked, PagesDistinct, Packed

LEMMA SerialInit == Init => SerialInv
<1> SUFFICES ASSUME Init PROVE SerialInv
  OBVIOUS
<1>1. Function(metaFile)
  BY DEF Init, Function
<1>2. latest = Files
  BY DEF Init, Files
<1>3. DOMAIN metaFile = {SystemData} /\ metaFile[SystemData] = EmptyMetadata
  BY DEF Init
<1>4. latest.metas = metaFile
  BY <1>2 DEF Files
<1>5. Recorded
  <2>1. latest = [registry |-> latest.registry, config |-> latest.config, metas |-> latest.metas]
    BY <1>2 DEF Files
  <2> QED
    BY <1>1, <1>3, <1>4, <2>1, EmptyIsPacked DEF Recorded
<1>6. AllPacked
  <2>1. \A c \in Client : view[c].metas = <<>>
    BY DEF Init, NoView
  <2> QED
    BY <1>3, <2>1, EmptyIsPacked DEF AllPacked, Packed
<1>7. \A c \in Client : mode[c] = "out"
  BY DEF Init
<1> QED
  BY <1>1, <1>2, <1>5, <1>6, <1>7 DEF SerialInv, OneSession

\* What is known while session c runs.
LEMMA Running ==
    ASSUME SerialInv, serial, NEW c \in Client, mode[c] # "out"
    PROVE  /\ SessionInv(c) /\ Recorded /\ Function(metaFile) /\ AllPacked
           /\ \A o \in Client \ {c} : mode[o] = "out"
BY DEF SerialInv, OneSession

\* What is left to be shown when it has made a step and still runs.
LEMMA StillRunning ==
    ASSUME NEW c \in Client, \A o \in Client \ {c} : mode'[o] = "out",
           Recorded', Function(metaFile)', AllPacked', mode'[c] # "out", SessionInv(c)'
    PROVE  SerialInv'
BY DEF SerialInv, OneSession

\* Nothing is to be saved or removed: the files agree but for statistics.
Settled(c) ==
    /\ registryFile = latest.registry /\ configFile = latest.config
    /\ DOMAIN metaFile = DOMAIN latest.metas
    /\ \A d \in DOMAIN latest.metas :
         \/ metaFile[d] = latest.metas[d]
         \/ /\ d \in DOMAIN view[c].metas /\ mode[c] = "idle"
            /\ metaFile[d] = [latest.metas[d] EXCEPT !.reads = metaFile[d].reads]

LEMMA NothingPending ==
    ASSUME NEW c \in Client, FilesAgree(c),
           \A i \in 1..Len(calls[c]) : calls[c][i].op \notin {"write", "remove_directory"}
    PROVE  Settled(c)
<1>1. \A f : ~Pending(calls[c], f)
  BY DEF Pending
<1>2. DOMAIN metaFile \subseteq DOMAIN latest.metas
  BY DEF FilesAgree
<1> QED
  BY <1>1, <1>2 DEF FilesAgree, Settled

LEMMA SettledAgrees ==
    ASSUME NEW c \in Client, Settled(c)'
    PROVE  FilesAgree(c)'
BY DEF Settled, FilesAgree

\* What LoadDatabaseManager gives.
LEMMA LoadedParts ==
    ASSUME NEW v, GoodView(v), NEW d
    PROVE  LET w == Loaded(v, d)
           IN  /\ w.registry = v.registry /\ w.config = v.config
               /\ DOMAIN v.metas \subseteq DOMAIN w.metas
               /\ \A e \in DOMAIN w.metas :
                    \/ e \in DOMAIN v.metas /\ w.metas[e] = v.metas[e]
                    \/ e = d /\ d \notin DOMAIN v.metas /\ d \in DOMAIN metaFile /\ w.metas[e] = metaFile[d]
               /\ CanLoad(v, d) <=> d \in DOMAIN w.metas
<1>1. CASE d \in DOMAIN v.metas \/ ~CanLoad(v, d)
  BY <1>1 DEF Loaded, CanLoad
<1>2. CASE ~(d \in DOMAIN v.metas \/ ~CanLoad(v, d))
  <2> DEFINE ms == With(v.metas, d, metaFile[d])
  <2>1. Loaded(v, d) = [v EXCEPT !.metas = ms]
    BY <1>2 DEF Loaded
  <2>2. DOMAIN ms = DOMAIN v.metas \cup {d} /\ ms[d] = metaFile[d]
        /\ \A e \in DOMAIN v.metas \ {d} : ms[e] = v.metas[e]
    BY DEF With
  <2>3. d \in DOMAIN metaFile /\ d \notin DOMAIN v.metas
    BY <1>2 DEF CanLoad
  <2> HIDE DEF ms
  <2>4. Loaded(v, d).metas = ms /\ Loaded(v, d).registry = v.registry /\ Loaded(v, d).config = v.config
    BY <2>1 DEF GoodView
  <2> QED
    BY <1>2, <2>2, <2>3, <2>4
<1> QED
  BY <1>1, <1>2

\* A copy that is loaded while nothing is to be saved is the latest.
LEMMA LoadedAgrees ==
    ASSUME IInv, NEW c \in Client, ViewAgrees(c), Settled(c), AllPacked, NEW d
    PROVE  LET w == Loaded(view[c], d)
           IN  /\ w.registry = latest.registry /\ w.config = latest.config
               /\ \A e \in DOMAIN w.metas : e \in DOMAIN latest.metas /\ w.metas[e] = latest.metas[e]
               /\ DOMAIN view[c].metas \subseteq DOMAIN w.metas
               /\ CanLoad(view[c], d) <=> d \in DOMAIN w.metas
               /\ Packed(w.metas)
<1> DEFINE w == Loaded(view[c], d)
<1>1. GoodView(view[c])
  BY DEF IInv
<1>2. /\ w.registry = view[c].registry /\ w.config = view[c].config
      /\ DOMAIN view[c].metas \subseteq DOMAIN w.metas
      /\ \A e \in DOMAIN w.metas :
           \/ e \in DOMAIN view[c].metas /\ w.metas[e] = view[c].metas[e]
           \/ e = d /\ d \notin DOMAIN view[c].metas /\ d \in DOMAIN metaFile /\ w.metas[e] = metaFile[d]
      /\ CanLoad(view[c], d) <=> d \in DOMAIN w.metas
  BY <1>1, LoadedParts
<1> HIDE DEF w
<1>3. \A e \in DOMAIN w.metas : e \in DOMAIN latest.metas /\ w.metas[e] = latest.metas[e]
  BY <1>2 DEF ViewAgrees, Settled
<1>4. Packed(w.metas)
  BY <1>2 DEF AllPacked, Packed
<1> QED
  BY <1>2, <1>3, <1>4 DEF ViewAgrees, w

-----------------------------------------------------------------------------
(* Sessions begin and end *)

LEMMA ConnectIsSerial ==
    ASSUME IInv, Modes, SerialInv, NEW c \in Client, Connect(c)
    PROVE  SerialInv'
<1>1. SUFFICES ASSUME serial' PROVE SerialInv'
  BY DEF SerialInv
<1>2. serial /\ \A o \in Client : mode[o] = "out"
  BY <1>1 DEF Connect
<1>3. Files = latest /\ Recorded /\ Function(metaFile) /\ AllPacked
  BY <1>2 DEF SerialInv
<1>4. UNCHANGED <<files, calls, latest>> /\ mode' = [mode EXCEPT ![c] = "login"]
      /\ view' = [view EXCEPT ![c] = [registry |-> registryFile, config |-> configFile, metas |-> <<>>]]
  BY DEF Connect
<1>5. registryFile = latest.registry /\ configFile = latest.config /\ metaFile = latest.metas
  BY <1>3 DEF Files
<1>6. /\ view'[c].registry = registryFile /\ view'[c].config = configFile /\ view'[c].metas = <<>>
      /\ DOMAIN view'[c].metas = {} /\ \A o \in Client \ {c} : view'[o] = view[o]
      /\ mode'[c] = "login" /\ \A o \in Client \ {c} : mode'[o] = "out"
  BY <1>2, <1>4 DEF IInv, Modes
<1>7. calls'[c] = <<>>
  BY <1>2, <1>4 DEF Modes
<1>8. ViewAgrees(c)'
  BY <1>4, <1>5, <1>6 DEF ViewAgrees
<1>9. FilesAgree(c)'
  BY <1>4, <1>5 DEF FilesAgree, files
<1>10. CallsFit(c)' /\ PagePlanned(c)'
  <2>1. Shaped(<<>>, c, DOMAIN view'[c].metas, DOMAIN latest'.metas)
    BY NothingIsShaped
  <2> QED
    BY <1>6, <1>7, <2>1 DEF CallsFit, PagePlanned
<1>11. AllPacked'
  BY <1>3, <1>4, <1>6 DEF AllPacked, Packed, files
<1>12. Recorded' /\ Function(metaFile)'
  BY <1>3, <1>4 DEF Recorded, files
<1> QED
  BY <1>6, <1>8, <1>9, <1>10, <1>11, <1>12, StillRunning DEF SessionInv

LEMMA LoginIsSerial ==
    ASSUME IInv, Modes, SerialInv, NEW c \in Client, Login(c)
    PROVE  SerialInv'
<1>1. SUFFICES ASSUME serial' PROVE SerialInv'
  BY DEF SerialInv
<1> DEFINE w == Loaded(view[c], SystemData)
<1>2. serial /\ mode[c] = "login" /\ calls[c] = <<>>
  BY <1>1 DEF Login, Modes
<1>3. SessionInv(c) /\ Recorded /\ Function(metaFile) /\ AllPacked /\ \A o \in Client \ {c} : mode[o] = "out"
  BY <1>2, Running
<1>4. UNCHANGED <<files, calls, latest>> /\ mode' = [mode EXCEPT ![c] = "idle"] /\ indexOwner' = c
      /\ view' = [view EXCEPT ![c] = w]
  BY DEF Login
<1>5. Settled(c)
  BY <1>2, <1>3, NothingPending DEF SessionInv
<1>6. /\ w.registry = latest.registry /\ w.config = latest.config
      /\ \A e \in DOMAIN w.metas : e \in DOMAIN latest.metas /\ w.metas[e] = latest.metas[e]
      /\ Packed(w.metas)
  BY <1>3, <1>5, LoadedAgrees DEF SessionInv
<1> HIDE DEF w
<1>7. view'[c] = w /\ mode'[c] = "idle" /\ calls'[c] = <<>>
      /\ \A o \in Client \ {c} : mode'[o] = "out" /\ view'[o] = view[o]
  BY <1>2, <1>3, <1>4 DEF IInv, Modes
<1>8. ViewAgrees(c)'
  BY <1>4, <1>6, <1>7 DEF ViewAgrees
<1>9. FilesAgree(c)'
  BY <1>2, <1>4, <1>5 DEF FilesAgree, Settled, files
<1>10. CallsFit(c)' /\ PagePlanned(c)'
  <2>1. Shaped(<<>>, c, DOMAIN view'[c].metas, DOMAIN latest'.metas)
    BY NothingIsShaped
  <2> QED
    BY <1>4, <1>7, <2>1 DEF CallsFit, PagePlanned
<1>11. AllPacked'
  BY <1>3, <1>4, <1>6, <1>7 DEF AllPacked, files
<1>12. Recorded' /\ Function(metaFile)'
  BY <1>3, <1>4 DEF Recorded, files
<1> QED
  BY <1>7, <1>8, <1>9, <1>10, <1>11, <1>12, StillRunning DEF SessionInv

\* The saves of Shutdown: of every database the session has looked at.
LEMMA SaveAllSaves ==
    ASSUME NEW c \in Client, NEW ms, GoodMetas(ms), NEW order \in SetToSeqs(DOMAIN ms)
    PROVE  /\ SavesOnly(SaveAll(order, c), c, DOMAIN ms)
           /\ \A d \in DOMAIN ms : Pending(SaveAll(order, c), d)
<1> DEFINE n == Cardinality(DOMAIN ms)
           s == SaveAll(order, c)
<1>1. n \in Nat /\ IsFiniteSet(DOMAIN ms)
  BY FS_CardinalityType DEF GoodMetas
<1>2. order \in [1..n -> DOMAIN ms] /\ \A i, j \in 1..n : i # j => order[i] # order[j]
  BY DEF SetToSeqs
<1>3. Len(order) = n
  BY <1>1, <1>2
<1>4. s = [i \in 1..(2 * n) |-> [op |-> IF i % 2 = 1 THEN "open" ELSE "write",
                                 file |-> order[(i + 1) \div 2], who |-> c]]
  BY <1>3 DEF SaveAll
<1>5. 1..n = {} \/ 1 <= n
  BY <1>1
<1>6. order \in Surjection(1..n, DOMAIN ms)
  <2>1. order \in Injection(1..n, DOMAIN ms)
    BY <1>2 DEF Injection, IsInjective
  <2>2. IsFiniteSet(1..n) /\ Cardinality(1..n) = n
    <3>1. \A i \in Int : IsFiniteSet(1..i) /\ Cardinality(1..i) = IF 1 > i THEN 0 ELSE i - 1 + 1
      BY FS_Interval
    <3> QED
      BY <1>1, <3>1
  <2> HIDE DEF n
  <2> QED
    BY <1>1, <2>1, <2>2, FS_Injection DEF n
<1> HIDE DEF s, n
<1>7. Len(s) = 2 * n
      /\ \A i \in 1..(2 * n) : /\ s[i].op = IF i % 2 = 1 THEN "open" ELSE "write"
                               /\ s[i].file = order[(i + 1) \div 2] /\ s[i].who = c
                               /\ (i + 1) \div 2 \in 1..n
  <2>1. 2 * n \in Nat
    BY <1>1
  <2>2. \A i \in 1..(2 * n) : (i + 1) \div 2 \in 1..n
    BY <1>1
  <2> QED
    BY <1>4, <2>1, <2>2
<1>8. ASSUME NEW i \in 1..(2 * n), s[i].op = "open"
      PROVE  \E j \in (i + 1)..(2 * n) : s[j].op = "write" /\ s[j].file = s[i].file
  <2>1. i % 2 = 1
    BY <1>7, <1>8
  <2>2. i + 1 \in (i + 1)..(2 * n) /\ i + 1 \in 1..(2 * n) /\ (i + 1) % 2 = 0
        /\ ((i + 1) + 1) \div 2 = (i + 1) \div 2
    BY <1>1, <2>1
  <2> QED
    BY <1>7, <2>2
<1>9. SavesOnly(s, c, DOMAIN ms)
  <2>1. \A i \in 1..(2 * n) : order[(i + 1) \div 2] \in DOMAIN ms
    BY <1>2, <1>7
  <2> QED
    BY <1>7, <1>8, <2>1 DEF SavesOnly, SaveOp
<1>10. ASSUME NEW d \in DOMAIN ms PROVE Pending(s, d)
  <2>1. PICK k \in 1..n : order[k] = d
    BY <1>6 DEF Surjection
  <2>2. 2 * k \in 1..(2 * n) /\ (2 * k) % 2 = 0 /\ (2 * k + 1) \div 2 = k
    BY <1>1
  <2> QED
    BY <1>7, <2>1, <2>2 DEF Pending
<1> QED
  BY <1>9, <1>10 DEF s

LEMMA LeaveIsSerial ==
    ASSUME IInv, Modes, SerialInv, NEW c \in Client, Leave(c)
    PROVE  SerialInv'
<1>1. SUFFICES ASSUME serial' PROVE SerialInv'
  BY DEF SerialInv
<1> DEFINE held == DOMAIN view[c].metas
<1>2. serial /\ mode[c] \in {"login", "idle"} /\ mode[c] # "out" /\ calls[c] = <<>>
  BY <1>1 DEF Leave
<1>3. SessionInv(c) /\ Recorded /\ Function(metaFile) /\ AllPacked /\ \A o \in Client \ {c} : mode[o] = "out"
  BY <1>2, Running
<1>4. UNCHANGED <<files, view, indexOwner, latest>> /\ mode' = [mode EXCEPT ![c] = "leaving"]
  BY DEF Leave
<1>5. PICK order \in SetToSeqs(held) :
        calls' = [calls EXCEPT ![c] = SaveAll(order, c) \o Save("config", c) \o Save("registry", c)]
  BY DEF Leave
<1> DEFINE all == SaveAll(order, c)
           s == all \o Save("config", c)
           u == s \o Save("registry", c)
<1>6. Settled(c)
  BY <1>2, <1>3, NothingPending DEF SessionInv
<1>7. all \in Seq(AnyCall) /\ Save("config", c) \in Seq(AnyCall) /\ Save("registry", c) \in Seq(AnyCall)
  BY SaveAllType, CallTypes DEF IInv, GoodView, File
<1>8. SavesOnly(all, c, held) /\ \A d \in held : Pending(all, d)
  BY SaveAllSaves DEF IInv, GoodView
<1>9. "config" \in File /\ "config" \notin Database /\ "registry" \in File /\ "registry" \notin Database
  BY CatalogAssumption DEF File
<1>10. /\ SavesOnly(Save("config", c), c, held) /\ Pending(Save("config", c), "config")
       /\ SavesOnly(Save("registry", c), c, held) /\ Pending(Save("registry", c), "registry")
  BY <1>9, SaveIsSavesOnly
<1> HIDE DEF all, held
<1>11. s \in Seq(AnyCall)
  BY <1>7
<1>12. SavesOnly(s, c, held) /\ \A d \in held : Pending(s, d)
  BY <1>7, <1>8, <1>10, SavesAfterSaves
<1> HIDE DEF s
<1>13. u \in Seq(AnyCall)
  BY <1>7, <1>11
<1>14. SavesOnly(u, c, held) /\ \A d \in held : Pending(u, d)
  BY <1>7, <1>10, <1>11, <1>12, SavesAfterSaves
<1> HIDE DEF u
<1>15. calls'[c] = u /\ mode'[c] = "leaving" /\ \A o \in Client \ {c} : mode'[o] = "out"
  BY <1>2, <1>3, <1>4, <1>5 DEF IInv, Modes, u, s, all
<1>16. ViewAgrees(c)'
  BY <1>3, <1>4 DEF SessionInv, ViewAgrees
<1>17. FilesAgree(c)'
  BY <1>4, <1>6, <1>14, <1>15 DEF FilesAgree, Settled, files, held
<1>18. CallsFit(c)'
  <2>1. \A i \in 1..Len(u) : u[i].op \in SaveOp
    BY <1>14 DEF SavesOnly
  <2>2. Shaped(u, c, held, DOMAIN latest.metas)
    BY <1>14 DEF SavesOnly, Shaped, SaveOp, TableOp
  <2> QED
    BY <1>4, <1>15, <2>1, <2>2 DEF CallsFit, held
<1>19. PagePlanned(c)'
  <2>1. ASSUME u # <<>> PROVE Head(u).op \in SaveOp
    <3>1. Head(u) = u[1] /\ 1 \in 1..Len(u)
      BY <1>13, <2>1
    <3> QED
      BY <1>14, <3>1 DEF SavesOnly
  <2> QED
    BY <1>15, <2>1 DEF PagePlanned, Call, SaveOp
<1>20. AllPacked' /\ Recorded' /\ Function(metaFile)'
  BY <1>3, <1>4 DEF AllPacked, Recorded, files
<1> QED
  BY <1>15, <1>16, <1>17, <1>18, <1>19, <1>20, StillRunning DEF SessionInv

\* A function with the arguments and values of another is that function.
LEMMA SameFunction ==
    ASSUME NEW f, NEW g, Function(f), Function(g), DOMAIN f = DOMAIN g, \A x \in DOMAIN f : f[x] = g[x]
    PROVE  f = g
BY DEF Function

LEMMA LeftIsSerial ==
    ASSUME IInv, Modes, SerialInv, NEW c \in Client, Left(c)
    PROVE  SerialInv'
<1>1. SUFFICES ASSUME serial' PROVE SerialInv'
  BY DEF SerialInv
<1>2. serial /\ mode[c] = "leaving" /\ mode[c] # "out" /\ calls[c] = <<>>
  BY <1>1 DEF Left
<1>3. SessionInv(c) /\ Recorded /\ Function(metaFile) /\ AllPacked /\ \A o \in Client \ {c} : mode[o] = "out"
  BY <1>2, Running
<1>4. UNCHANGED <<files, latest>> /\ mode' = [mode EXCEPT ![c] = "out"] /\ view' = [view EXCEPT ![c] = NoView]
  BY DEF Left
<1>5. Settled(c)
  BY <1>2, <1>3, NothingPending DEF SessionInv
<1>6. metaFile = latest.metas
  BY <1>2, <1>3, <1>5, SameFunction DEF Settled, Recorded
<1>7. Files = latest
  BY <1>3, <1>5, <1>6 DEF Files, Recorded, Settled
<1>8. \A o \in Client : mode'[o] = "out"
  BY <1>3, <1>4 DEF Modes
<1>9. AllPacked'
  <2>1. \A o \in Client : view'[o] = view[o] \/ view'[o].metas = <<>>
    BY <1>4 DEF IInv, NoView
  <2> QED
    BY <1>3, <1>4, <2>1, EmptyIsPacked DEF AllPacked, files
<1>10. Files' = latest' /\ Recorded' /\ Function(metaFile)'
  BY <1>3, <1>4, <1>7 DEF Files, Recorded, files
<1> QED
  BY <1>8, <1>9, <1>10 DEF SerialInv, OneSession

\* The process ends between two statements: the files are what there is.
LEMMA ProcessEndsIsSerial ==
    ASSUME IInv, Modes, SerialInv, ProcessEnds
    PROVE  SerialInv'
<1>1. SUFFICES ASSUME serial' PROVE SerialInv'
  BY DEF SerialInv
<1>2. serial /\ \A o \in Client : calls[o] = <<>>
  BY <1>1 DEF ProcessEnds
<1>3. Recorded /\ Function(metaFile) /\ AllPacked
  BY <1>2 DEF SerialInv
<1>4. UNCHANGED files
      /\ latest' = [latest EXCEPT !.metas = [d \in DOMAIN latest.metas |->
                      IF d \in DOMAIN metaFile THEN [latest.metas[d] EXCEPT !.reads = metaFile[d].reads]
                                               ELSE latest.metas[d]]]
  BY DEF ProcessEnds
<1>5. /\ registryFile = latest.registry /\ configFile = latest.config
      /\ DOMAIN metaFile = DOMAIN latest.metas
      /\ \A d \in DOMAIN latest.metas :
           \/ metaFile[d] = latest.metas[d]
           \/ metaFile[d] = [latest.metas[d] EXCEPT !.reads = metaFile[d].reads]
  <2>1. CASE \A o \in Client : mode[o] = "out"
    BY <1>2, <2>1 DEF SerialInv, Files
  <2>2. ASSUME NEW c \in Client, mode[c] # "out" PROVE Settled(c)
    BY <1>2, <2>2, Running, NothingPending DEF SessionInv
  <2> QED
    BY <2>1, <2>2 DEF Settled
<1> DEFINE ms == [d \in DOMAIN latest.metas |->
                    IF d \in DOMAIN metaFile THEN [latest.metas[d] EXCEPT !.reads = metaFile[d].reads]
                                             ELSE latest.metas[d]]
<1>6. ASSUME NEW d \in DOMAIN latest.metas PROVE metaFile[d] = [latest.metas[d] EXCEPT !.reads = metaFile[d].reads]
  <2>1. Function(latest.metas[d])
    BY <1>3 DEF Recorded
  <2>2. metaFile[d] = latest.metas[d] => latest.metas[d] = [latest.metas[d] EXCEPT !.reads = latest.metas[d].reads]
    BY <2>1 DEF Function
  <2> QED
    BY <1>5, <2>2
<1>7. ms = metaFile
  <2>1. DOMAIN ms = DOMAIN metaFile /\ Function(ms)
    BY <1>5 DEF Function
  <2>2. \A d \in DOMAIN ms : ms[d] = metaFile[d]
    BY <1>5, <1>6
  <2> HIDE DEF ms
  <2> QED
    BY <1>3, <2>1, <2>2, SameFunction
<1>8. latest' = [latest EXCEPT !.metas = metaFile]
  BY <1>4, <1>7
<1>9. latest' = Files
  BY <1>3, <1>5, <1>8 DEF Recorded, Files
<1>10. Files' = Files
  BY <1>4 DEF Files, files
<1>11. \A o \in Client : mode'[o] = "out" /\ view'[o].metas = <<>>
  BY DEF ProcessEnds, NoView
<1>12. AllPacked'
  BY <1>3, <1>4, <1>11, EmptyIsPacked DEF AllPacked, files
<1>13. \A d \in DOMAIN metaFile : Function(metaFile[d])
  <2>1. TAKE d \in DOMAIN metaFile
  <2>2. metaFile[d] = [latest.metas[d] EXCEPT !.reads = metaFile[d].reads]
    BY <1>5, <1>6
  <2> DEFINE k == metaFile[d].reads
             f == latest.metas[d]
  <2>3. \A x : Function([f EXCEPT !.reads = x])
    BY DEF Function
  <2> QED
    BY <2>2, <2>3
<1>14. Recorded'
  <2>1. latest'.metas = metaFile
    BY <1>9 DEF Files
  <2>2. latest' = [registry |-> latest'.registry, config |-> latest'.config, metas |-> latest'.metas]
    BY <1>9 DEF Files
  <2> QED
    BY <1>3, <1>13, <2>1, <2>2 DEF Recorded
<1>15. Function(metaFile)'
  BY <1>3, <1>4 DEF files
<1> QED
  BY <1>9, <1>10, <1>11, <1>12, <1>14, <1>15 DEF SerialInv, OneSession

-----------------------------------------------------------------------------
(* Statements begin *)

\* Calls on tables only.
LEMMA TablesAreShaped ==
    ASSUME NEW c, NEW held, NEW there, NEW s,
           \A i \in 1..Len(s) : s[i].op \in TableOp /\ (s[i].op = "create_table" => i = 1), Len(s) \in Nat
    PROVE  Shaped(s, c, held, there)
<1>1. \A op \in TableOp : op \notin {"open", "write", "register", "unregister", "remove_directory"}
  BY DEF TableOp
<1>2. \A i \in 1..Len(s) : \A j \in (i + 1)..Len(s) : j \in 1..Len(s)
  OBVIOUS
<1> QED
  BY <1>1, <1>2 DEF Shaped, SaveOp

LEMMA StatementIsSerial ==
    ASSUME IInv, Modes, SerialInv, serial, NEW c \in Client, NEW program \in Seq(AnyCall), NEW w,
           mode[c] = "idle", calls[c] = <<>>,
           UNCHANGED <<files, mode, latest>>, indexOwner' = c \/ indexOwner' = indexOwner,
           calls' = [calls EXCEPT ![c] = program],
           view'[c] = w, \A o \in Client \ {c} : view'[o] = view[o],
           w = view[c] \/ w = Loaded(view[c], dbName),
           Shaped(program, c, DOMAIN w.metas, DOMAIN latest.metas),
           PagePlanned(c)'
    PROVE  SerialInv'
<1>1. SessionInv(c) /\ Recorded /\ Function(metaFile) /\ AllPacked /\ \A o \in Client \ {c} : mode[o] = "out"
  BY Running
<1>2. Settled(c)
  BY <1>1, NothingPending DEF SessionInv
<1>3. /\ w.registry = latest.registry /\ w.config = latest.config
      /\ \A e \in DOMAIN w.metas : e \in DOMAIN latest.metas /\ w.metas[e] = latest.metas[e]
      /\ DOMAIN view[c].metas \subseteq DOMAIN w.metas
      /\ Packed(w.metas)
  <2>1. CASE w = view[c]
    BY <1>1, <2>1 DEF SessionInv, ViewAgrees, AllPacked
  <2>2. CASE w = Loaded(view[c], dbName)
    <3>1. ViewAgrees(c)
      BY <1>1 DEF SessionInv
    <3>2. LET x == Loaded(view[c], dbName)
          IN  /\ x.registry = latest.registry /\ x.config = latest.config
              /\ \A e \in DOMAIN x.metas : e \in DOMAIN latest.metas /\ x.metas[e] = latest.metas[e]
              /\ DOMAIN view[c].metas \subseteq DOMAIN x.metas
              /\ CanLoad(view[c], dbName) <=> dbName \in DOMAIN x.metas
              /\ Packed(x.metas)
      BY <1>1, <1>2, <3>1, LoadedAgrees
    <3> QED
      BY <2>2, <3>2
  <2> QED
    BY <2>1, <2>2
<1>4. calls'[c] = program /\ mode'[c] = "idle" /\ \A o \in Client \ {c} : mode'[o] = "out"
  BY <1>1 DEF IInv
<1>5. ViewAgrees(c)'
  BY <1>3 DEF ViewAgrees
<1>6. FilesAgree(c)'
  <2>1. Settled(c)'
    BY <1>2, <1>3 DEF Settled, files
  <2> QED
    BY <2>1, SettledAgrees
<1>7. CallsFit(c)'
  BY <1>1, <1>4 DEF CallsFit, SessionInv
<1>8. AllPacked' /\ Recorded' /\ Function(metaFile)'
  BY <1>1, <1>3 DEF AllPacked, Recorded, files
<1> QED
  BY <1>4, <1>5, <1>6, <1>7, <1>8, StillRunning DEF SessionInv

LEMMA UseAndShowAreSerial ==
    ASSUME IInv, Modes, SerialInv, NEW c \in Client, ShowTables(c) \/ \E d \in Database : UseDatabase(c, d)
    PROVE  SerialInv'
<1>1. SUFFICES ASSUME serial' PROVE SerialInv'
  BY DEF SerialInv
<1>2. /\ serial /\ mode[c] = "idle" /\ calls[c] = <<>> /\ UNCHANGED <<files, mode, latest>>
      /\ calls' = [calls EXCEPT ![c] = <<>>] /\ (indexOwner' = c \/ indexOwner' = indexOwner)
      /\ \/ view' = view
         \/ view' = [view EXCEPT ![c] = Loaded(view[c], dbName)]
  BY <1>1 DEF ShowTables, UseDatabase, Begin
<1>3. view'[c] \in {view[c], Loaded(view[c], dbName)} /\ \A o \in Client \ {c} : view'[o] = view[o]
  BY <1>2 DEF IInv
<1>4. Shaped(<<>>, c, DOMAIN view'[c].metas, DOMAIN latest.metas) /\ <<>> \in Seq(AnyCall)
  BY NothingIsShaped
<1>5. PagePlanned(c)'
  BY <1>2 DEF PagePlanned, IInv
<1> QED
  BY <1>2, <1>3, <1>4, <1>5, StatementIsSerial

\* Two calls after the others.
LEMMA TwoMore ==
    ASSUME NEW S, NEW s \in Seq(S), NEW a \in S, NEW b \in S
    PROVE  LET u == s \o <<a, b>>
           IN  /\ u \in Seq(S) /\ Len(u) = Len(s) + 2 /\ u[Len(s) + 1] = a /\ u[Len(s) + 2] = b
               /\ \A i \in 1..Len(s) : u[i] = s[i]
<1>1. <<a, b>> \in Seq(S) /\ Len(<<a, b>>) = 2 /\ <<a, b>>[1] = a /\ <<a, b>>[2] = b
  OBVIOUS
<1>2. \A t \in Seq(S) : /\ s \o t \in Seq(S) /\ Len(s \o t) = Len(s) + Len(t)
                        /\ \A i \in 1..Len(s) : (s \o t)[i] = s[i]
                        /\ \A i \in 1..Len(t) : (s \o t)[Len(s) + i] = t[i]
  BY PlacesOf
<1> QED
  BY <1>1, <1>2

\* The calls of DROP DATABASE and of CREATE DATABASE, one by one.
LEMMA FourCalls ==
    ASSUME NEW S, NEW a \in S, NEW b \in S, NEW c \in S, NEW d \in S
    PROVE  LET s == <<a>> \o <<b, c>> \o <<d>>
           IN  s \in Seq(S) /\ Len(s) = 4 /\ s[1] = a /\ s[2] = b /\ s[3] = c /\ s[4] = d
OBVIOUS

LEMMA SevenCalls ==
    ASSUME NEW S, NEW a \in S, NEW b \in S, NEW c \in S, NEW d \in S, NEW e \in S, NEW f \in S, NEW g \in S
    PROVE  LET s == <<a>> \o <<b, c>> \o <<d, e>> \o <<f, g>>
           IN  /\ s \in Seq(S) /\ Len(s) = 7
               /\ s[1] = a /\ s[2] = b /\ s[3] = c /\ s[4] = d /\ s[5] = e /\ s[6] = f /\ s[7] = g
<1> DEFINE x == <<a>> \o <<b, c>>
<1>1. x \in Seq(S) /\ Len(x) = 3 /\ x[1] = a /\ x[2] = b /\ x[3] = c
  OBVIOUS
<1> HIDE DEF x
<1> DEFINE y == x \o <<d, e>>
<1>2. /\ y \in Seq(S) /\ Len(y) = Len(x) + 2 /\ y[Len(x) + 1] = d /\ y[Len(x) + 2] = e
      /\ \A i \in 1..Len(x) : y[i] = x[i]
  <2>1. x \in Seq(S)
    BY <1>1
  <2> QED
    BY <2>1, TwoMore
<1> HIDE DEF y
<1> DEFINE z == y \o <<f, g>>
<1>3. /\ z \in Seq(S) /\ Len(z) = Len(y) + 2 /\ z[Len(y) + 1] = f /\ z[Len(y) + 2] = g
      /\ \A i \in 1..Len(y) : z[i] = y[i]
  <2>1. y \in Seq(S)
    BY <1>2
  <2> QED
    BY <2>1, TwoMore
<1> HIDE DEF z
<1>4. z \in Seq(S) /\ Len(z) = 7 /\ z[1] = a /\ z[2] = b /\ z[3] = c /\ z[4] = d /\ z[5] = e /\ z[6] = f /\ z[7] = g
  BY <1>1, <1>2, <1>3
<1> QED
  BY <1>4 DEF x, y, z

LEMMA CreateDatabaseIsSerial ==
    ASSUME IInv, Modes, SerialInv, NEW c \in Client, NEW d \in Database, CreateDatabase(c, d)
    PROVE  SerialInv'
<1>1. SUFFICES ASSUME serial' PROVE SerialInv'
  BY DEF SerialInv
<1> DEFINE s == <<[op |-> "register", db |-> d]>> \o Save("registry", c)
                \o <<[op |-> "new_metadata", db |-> d], [op |-> "write", file |-> d, who |-> c]>>
                \o Save(d, c)
           program == IF d \in DOMAIN view[c].registry THEN <<>> ELSE s
           held == DOMAIN view[c].metas
           there == DOMAIN latest.metas
<1>2. /\ serial /\ mode[c] = "idle" /\ calls[c] = <<>> /\ UNCHANGED <<files, mode, latest, view, indexOwner>>
      /\ calls' = [calls EXCEPT ![c] = program]
  BY <1>1 DEF CreateDatabase, Begin
<1>3. /\ Save("registry", c) = <<[op |-> "open", file |-> "registry", who |-> c],
                                 [op |-> "write", file |-> "registry", who |-> c]>>
      /\ Save(d, c) = <<[op |-> "open", file |-> d, who |-> c], [op |-> "write", file |-> d, who |-> c]>>
  BY DEF Save
<1>4. /\ [op |-> "register", db |-> d] \in AnyCall /\ [op |-> "new_metadata", db |-> d] \in AnyCall
      /\ \A op \in SaveOp, f \in {"registry", d} : [op |-> op, file |-> f, who |-> c] \in AnyCall
  BY DEF AnyCall, SaveOp
<1>5. /\ Len(s) = 7
      /\ s[1].op = "register" /\ s[1].db = d
      /\ s[2].op = "open" /\ s[2].file = "registry" /\ s[2].who = c
      /\ s[3].op = "write" /\ s[3].file = "registry" /\ s[3].who = c
      /\ s[4].op = "new_metadata" /\ s[4].db = d
      /\ s[5].op = "write" /\ s[5].file = d /\ s[5].who = c
      /\ s[6].op = "open" /\ s[6].file = d /\ s[6].who = c
      /\ s[7].op = "write" /\ s[7].file = d /\ s[7].who = c
      /\ s \in Seq(AnyCall)
  <2> DEFINE a1 == [op |-> "register", db |-> d]
             a2 == [op |-> "open", file |-> "registry", who |-> c]
             a3 == [op |-> "write", file |-> "registry", who |-> c]
             a4 == [op |-> "new_metadata", db |-> d]
             a5 == [op |-> "write", file |-> d, who |-> c]
             a6 == [op |-> "open", file |-> d, who |-> c]
  <2>1. a1 \in AnyCall /\ a2 \in AnyCall /\ a3 \in AnyCall /\ a4 \in AnyCall /\ a5 \in AnyCall /\ a6 \in AnyCall
    BY <1>4 DEF SaveOp
  <2>2. s = <<a1>> \o <<a2, a3>> \o <<a4, a5>> \o <<a6, a5>>
    BY <1>3
  <2>3. /\ a1.op = "register" /\ a1.db = d /\ a4.op = "new_metadata" /\ a4.db = d
        /\ a2.op = "open" /\ a2.file = "registry" /\ a2.who = c
        /\ a3.op = "write" /\ a3.file = "registry" /\ a3.who = c
        /\ a5.op = "write" /\ a5.file = d /\ a5.who = c /\ a6.op = "open" /\ a6.file = d /\ a6.who = c
    OBVIOUS
  <2> HIDE DEF a1, a2, a3, a4, a5, a6, s
  <2>4. /\ s \in Seq(AnyCall) /\ Len(s) = 7
        /\ s[1] = a1 /\ s[2] = a2 /\ s[3] = a3 /\ s[4] = a4 /\ s[5] = a5 /\ s[6] = a6 /\ s[7] = a5
    BY <2>1, <2>2, SevenCalls
  <2> QED
    BY <2>3, <2>4
<1> HIDE DEF s
<1>6. "registry" \notin Database
  BY CatalogAssumption
<1>7. Shaped(s, c, held, there)
  <2> DEFINE Fits(i) ==
        /\ s[i].op \notin TableOp /\ s[i].op # "create_table"
        /\ s[i].op \notin {"unregister", "remove_directory"}
        /\ s[i].op \in SaveOp =>
             /\ s[i].who = c
             /\ s[i].file \in Database => \E j \in 1..(i - 1) : s[j].op = "new_metadata" /\ s[j].db = s[i].file
        /\ s[i].op = "open" => \E j \in (i + 1)..7 : s[j].op = "write" /\ s[j].file = s[i].file
        /\ s[i].op = "register" => \E j \in (i + 1)..7 : s[j].op = "write" /\ s[j].file = "registry"
  <2>1. Fits(1)
    <3>1. 3 \in (1 + 1)..7
      OBVIOUS
    <3> QED
      BY <1>5, <3>1 DEF TableOp, SaveOp
  <2>2. Fits(2)
    <3>1. 3 \in (2 + 1)..7
      OBVIOUS
    <3> QED
      BY <1>5, <1>6, <3>1 DEF TableOp, SaveOp
  <2>3. Fits(3) /\ Fits(4)
    BY <1>5, <1>6 DEF TableOp, SaveOp
  <2>4. Fits(5) /\ Fits(7)
    <3>1. 4 \in 1..(5 - 1) /\ 4 \in 1..(7 - 1)
      OBVIOUS
    <3> QED
      BY <1>5, <3>1 DEF TableOp, SaveOp
  <2>5. Fits(6)
    <3>1. 4 \in 1..(6 - 1) /\ 7 \in (6 + 1)..7
      OBVIOUS
    <3> QED
      BY <1>5, <3>1 DEF TableOp, SaveOp
  <2>6. \A i \in 1..7 : i = 1 \/ i = 2 \/ i = 3 \/ i = 4 \/ i = 5 \/ i = 6 \/ i = 7
    OBVIOUS
  <2> HIDE DEF Fits
  <2>7. \A i \in 1..7 : Fits(i)
    BY <2>1, <2>2, <2>3, <2>4, <2>5, <2>6
  <2> QED
    BY <1>5, <2>7 DEF Shaped, Fits
<1>8. program \in Seq(AnyCall) /\ Shaped(program, c, held, there)
  <2>1. Shaped(<<>>, c, held, there) /\ <<>> \in Seq(AnyCall)
    BY NothingIsShaped
  <2> HIDE DEF held, there
  <2> QED
    BY <1>5, <1>7, <2>1
<1>9. program = <<>> \/ Head(program).op = "register"
  BY <1>5
<1> HIDE DEF program
<1>10. PagePlanned(c)'
  BY <1>2, <1>9 DEF PagePlanned, Call, IInv
<1>11. view'[c] = view[c] /\ \A o \in Client \ {c} : view'[o] = view[o]
  BY <1>2
<1> QED
  BY <1>2, <1>8, <1>10, <1>11, StatementIsSerial

LEMMA DropDatabaseIsSerial ==
    ASSUME IInv, Modes, SerialInv, NEW c \in Client, NEW d \in Database, DropDatabase(c, d)
    PROVE  SerialInv'
<1>1. SUFFICES ASSUME serial' PROVE SerialInv'
  BY DEF SerialInv
<1> DEFINE s == <<[op |-> "unregister", db |-> d]>> \o Save("registry", c)
                \o <<[op |-> "remove_directory", db |-> d]>>
           held == DOMAIN view[c].metas
           there == DOMAIN latest.metas
<1>2. /\ serial /\ mode[c] = "idle" /\ calls[c] = <<>> /\ UNCHANGED <<files, mode, latest, view, indexOwner>>
      /\ calls' = [calls EXCEPT ![c] = s]
  BY <1>1 DEF DropDatabase, Begin
<1>3. Save("registry", c) = <<[op |-> "open", file |-> "registry", who |-> c],
                              [op |-> "write", file |-> "registry", who |-> c]>>
  BY DEF Save
<1>4. /\ [op |-> "unregister", db |-> d] \in AnyCall /\ [op |-> "remove_directory", db |-> d] \in AnyCall
      /\ \A op \in SaveOp : [op |-> op, file |-> "registry", who |-> c] \in AnyCall
  BY DEF AnyCall, SaveOp
<1>5. /\ Len(s) = 4
      /\ s[1].op = "unregister" /\ s[1].db = d
      /\ s[2].op = "open" /\ s[2].file = "registry" /\ s[2].who = c
      /\ s[3].op = "write" /\ s[3].file = "registry" /\ s[3].who = c
      /\ s[4].op = "remove_directory" /\ s[4].db = d
      /\ s \in Seq(AnyCall)
  <2> DEFINE a1 == [op |-> "unregister", db |-> d]
             a2 == [op |-> "open", file |-> "registry", who |-> c]
             a3 == [op |-> "write", file |-> "registry", who |-> c]
             a4 == [op |-> "remove_directory", db |-> d]
  <2>1. a1 \in AnyCall /\ a2 \in AnyCall /\ a3 \in AnyCall /\ a4 \in AnyCall
    BY <1>4 DEF SaveOp
  <2>2. s = <<a1>> \o <<a2, a3>> \o <<a4>>
    BY <1>3
  <2>3. /\ a1.op = "unregister" /\ a1.db = d /\ a4.op = "remove_directory" /\ a4.db = d
        /\ a2.op = "open" /\ a2.file = "registry" /\ a2.who = c
        /\ a3.op = "write" /\ a3.file = "registry" /\ a3.who = c
    OBVIOUS
  <2> HIDE DEF a1, a2, a3, a4, s
  <2>4. s \in Seq(AnyCall) /\ Len(s) = 4 /\ s[1] = a1 /\ s[2] = a2 /\ s[3] = a3 /\ s[4] = a4
    BY <2>1, <2>2, FourCalls
  <2> QED
    BY <2>3, <2>4
<1> HIDE DEF s
<1>6. "registry" \notin Database
  BY CatalogAssumption
<1>7. \A i \in 1..4 : i = 1 \/ i = 2 \/ i = 3 \/ i = 4
  OBVIOUS
<1>8. \A j \in 1..4 : \/ s[j].op \in {"unregister", "remove_directory"} /\ s[j].db = d
                      \/ s[j].op \in SaveOp /\ s[j].file = "registry"
  BY <1>5, <1>7 DEF SaveOp
<1>9. Shaped(s, c, held, there)
  <2>1. 3 \in (1 + 1)..4 /\ 4 \in (1 + 1)..4 /\ 3 \in (2 + 1)..4 /\ 1 \in 1..(4 - 1)
    OBVIOUS
  <2> DEFINE Fits(i) ==
        /\ s[i].op \notin TableOp /\ s[i].op # "create_table" /\ s[i].op # "register"
        /\ s[i].op \in SaveOp => s[i].who = c /\ s[i].file \notin Database
        /\ s[i].op = "open" => \E j \in (i + 1)..4 : s[j].op = "write" /\ s[j].file = s[i].file
        /\ s[i].op = "unregister" => \E j \in (i + 1)..4 : s[j].op = "write" /\ s[j].file = "registry"
        /\ s[i].op = "unregister" => \E j \in (i + 1)..4 : s[j].op = "remove_directory" /\ s[j].db = s[i].db
        /\ s[i].op = "remove_directory" => \E j \in 1..(i - 1) : s[j].op = "unregister" /\ s[j].db = s[i].db
        /\ s[i].op \in {"unregister", "remove_directory"} => s[i].db = d
  <2>2. Fits(1)
    BY <1>5, <2>1 DEF TableOp, SaveOp
  <2>3. Fits(2) /\ Fits(3)
    BY <1>5, <1>6, <2>1 DEF TableOp, SaveOp
  <2>4. Fits(4)
    BY <1>5, <2>1 DEF TableOp, SaveOp
  <2> HIDE DEF Fits
  <2>5. \A i \in 1..4 : Fits(i)
    BY <1>7, <2>2, <2>3, <2>4
  <2> QED
    BY <1>5, <1>8, <2>5 DEF Shaped, Fits
<1>10. PagePlanned(c)'
  <2>1. Head(s).op = "unregister"
    BY <1>5
  <2> QED
    BY <1>2, <2>1 DEF PagePlanned, Call, IInv
<1>11. view'[c] = view[c] /\ \A o \in Client \ {c} : view'[o] = view[o]
  BY <1>2
<1> QED
  BY <1>2, <1>5, <1>9, <1>10, <1>11, StatementIsSerial

\* The lists of calls of CREATE TABLE and ALTER TABLE.
LEMMA CallLists ==
    ASSUME NEW names \in Seq(ColumnName), NEW t,
           NEW op \in {"add_column", "drop_column", "set_nullable", "set_unique", "update_index_root"}
    PROVE  /\ \A i \in 1..Len(ForEach(names, op, t)) : ForEach(names, op, t)[i].op \in TableOp \ {"create_table"}
           /\ \A i \in 1..Len(PrimaryKeyCalls(names, t)) : PrimaryKeyCalls(names, t)[i].op \in TableOp \ {"create_table"}
<1>1. Len(names) \in Nat /\ 2 * Len(names) \in Nat
  OBVIOUS
<1>2. Len(ForEach(names, op, t)) = Len(names)
      /\ \A i \in 1..Len(names) : ForEach(names, op, t)[i].op = op
  BY <1>1 DEF ForEach
<1>3. Len(PrimaryKeyCalls(names, t)) = 2 * Len(names)
      /\ \A i \in 1..(2 * Len(names)) : PrimaryKeyCalls(names, t)[i].op \in {"set_primary_key", "create_index"}
  BY <1>1 DEF PrimaryKeyCalls
<1> QED
  BY <1>2, <1>3 DEF TableOp

LEMMA CreateTableStatementIsSerial ==
    ASSUME IInv, Modes, SerialInv, NEW c \in Client, NEW t \in TableName, NEW def \in Definition,
           CreateTableStatement(c, t, def)
    PROVE  SerialInv'
<1>1. SUFFICES ASSUME serial' PROVE SerialInv'
  BY DEF SerialInv
<1> DEFINE v == Loaded(view[c], dbName)
           create == [op |-> "create_table", table |-> t, cols |-> def.cols, page |-> PageOfNewTable(v)]
           keys == PrimaryKeyCalls(def.primary, t)
           others == ForEach(def.notNull, "set_nullable", t)
           uniques == ForEach(def.unique, "set_unique", t)
           program == <<create>> \o keys \o others \o uniques
<1>2. /\ serial /\ mode[c] = "idle" /\ calls[c] = <<>> /\ UNCHANGED <<files, mode, latest, indexOwner, dbName>>
      /\ calls' = [calls EXCEPT ![c] = program] /\ view' = [view EXCEPT ![c] = v]
  BY <1>1 DEF CreateTableStatement, Begin
<1>3. def.primary \in Seq(ColumnName) /\ def.notNull \in Seq(ColumnName) /\ def.unique \in Seq(ColumnName)
      /\ def.cols \in Seq(ColumnName)
  BY CatalogAssumption
<1>4. keys \in Seq(AnyCall) /\ others \in Seq(AnyCall) /\ uniques \in Seq(AnyCall)
  BY <1>3, CallTypes
<1>5. /\ \A i \in 1..Len(keys) : keys[i].op \in TableOp \ {"create_table"}
      /\ \A i \in 1..Len(others) : others[i].op \in TableOp \ {"create_table"}
      /\ \A i \in 1..Len(uniques) : uniques[i].op \in TableOp \ {"create_table"}
  BY <1>3, CallLists
<1>6. GoodView(view[c]) /\ GoodView(v)
  BY LoadedIsGood DEF IInv
<1> HIDE DEF keys, others, uniques, v
<1>7. PageOfNewTable(v) \in Nat
  <2>1. dbName \in DOMAIN v.metas => IsFiniteSet(DOMAIN v.metas[dbName].tables)
    BY <1>6 DEF GoodView, GoodMetas, Good, Plain, Numbered
  <2> QED
    BY <2>1, FS_CardinalityType DEF PageOfNewTable
<1>8. create \in AnyCall /\ create.op = "create_table" /\ create.page = PageOfNewTable(v)
  BY <1>3, <1>7 DEF AnyCall
<1> HIDE DEF create
<1> DEFINE first == <<create>> \o keys
           second == first \o others
<1>9. first \in Seq(AnyCall) /\ Len(first) = 1 + Len(keys) /\ first[1] = create
      /\ \A i \in 1..Len(first) : first[i].op \in TableOp /\ (first[i].op = "create_table" => i = 1)
  <2>1. first \in Seq(AnyCall) /\ Len(first) = 1 + Len(keys) /\ first[1] = create
        /\ \A i \in 2..Len(first) : i - 1 \in 1..Len(keys) /\ first[i] = keys[i - 1]
    BY <1>4, <1>8
  <2>2. create.op \in TableOp
    BY <1>8 DEF TableOp
  <2>3. \A i \in 1..Len(first) : i = 1 \/ i \in 2..Len(first)
    BY <2>1
  <2> HIDE DEF first
  <2> QED
    BY <1>5, <2>1, <2>2, <2>3
<1> HIDE DEF first
<1>10. second \in Seq(AnyCall) /\ Len(second) = Len(first) + Len(others) /\ second[1] = create
       /\ \A i \in 1..Len(second) : second[i].op \in TableOp /\ (second[i].op = "create_table" => i = 1)
  <2>1. /\ second \in Seq(AnyCall) /\ Len(second) = Len(first) + Len(others) /\ second[1] = first[1]
        /\ \A i \in 1..Len(second) : \/ i \in 1..Len(first) /\ second[i] = first[i]
                                     \/ i - Len(first) \in 1..Len(others) /\ second[i] = others[i - Len(first)]
    <3>1. first \in Seq(AnyCall) /\ 1 \in 1..Len(first)
      BY <1>4, <1>9
    <3> QED
      BY <1>4, <3>1, JoinedPlaces
  <2> HIDE DEF second
  <2> QED
    BY <1>5, <1>9, <2>1
<1> HIDE DEF second
<1>11. program \in Seq(AnyCall) /\ Head(program) = create /\ Len(program) \in Nat
       /\ \A i \in 1..Len(program) : program[i].op \in TableOp /\ (program[i].op = "create_table" => i = 1)
  <2> DEFINE third == second \o uniques
  <2>1. /\ third \in Seq(AnyCall) /\ Len(third) = Len(second) + Len(uniques) /\ Head(third) = second[1]
        /\ \A i \in 1..Len(third) : \/ i \in 1..Len(second) /\ third[i] = second[i]
                                    \/ i - Len(second) \in 1..Len(uniques) /\ third[i] = uniques[i - Len(second)]
    <3>1. second \in Seq(AnyCall) /\ 1 \in 1..Len(second)
      BY <1>4, <1>9, <1>10
    <3> QED
      BY <1>4, <3>1, JoinedPlaces
  <2>2. third = program
    BY DEF first, second
  <2> HIDE DEF third, program
  <2>3. \A i \in 1..Len(third) : third[i].op \in TableOp /\ (third[i].op = "create_table" => i = 1)
    BY <1>5, <1>10, <2>1
  <2> QED
    BY <1>10, <2>1, <2>2, <2>3
<1> HIDE DEF program
<1>12. Shaped(program, c, DOMAIN v.metas, DOMAIN latest.metas)
  BY <1>11, TablesAreShaped
<1>13. view'[c] = v /\ \A o \in Client \ {c} : view'[o] = view[o]
  BY <1>2 DEF IInv
<1>14. PagePlanned(c)'
  <2>1. calls'[c] = program /\ metaFile' = metaFile /\ dbName' = dbName
    BY <1>2 DEF IInv, files
  <2>2. ASSUME CanLoad(v, dbName) PROVE dbName \in DOMAIN v.metas
    BY <1>6, <2>2, LoadedParts DEF v, CanLoad
  <2>3. CanLoad(view[c], dbName)' <=> CanLoad(v, dbName)
    BY <1>13, <2>1 DEF CanLoad
  <2>4. Call(c)' = create
    BY <1>11, <2>1 DEF Call
  <2> QED
    BY <1>8, <1>13, <2>1, <2>2, <2>3, <2>4 DEF PagePlanned, PageOfNewTable
<1> QED
  BY <1>2, <1>11, <1>12, <1>13, <1>14, StatementIsSerial DEF v

LEMMA OtherStatementsAreSerial ==
    ASSUME IInv, Modes, SerialInv, NEW c \in Client,
           \/ \E t \in TableName :
                \/ DropTableStatement(c, t)
                \/ \E x \in ColumnName : AddColumnStatement(c, t, x) \/ DropColumnStatement(c, t, x)
           \/ \E op \in {"update_read_count", "reset_statistics"} : StatisticsStatement(c, op)
    PROVE  SerialInv'
<1>1. SUFFICES ASSUME serial' PROVE SerialInv'
  BY DEF SerialInv
<1>2. PICK kind, program :
        /\ Begin(c, kind, program) /\ UNCHANGED <<view, dbName, indexOwner, latest>>
        /\ program \in Seq(AnyCall)
        /\ \A i \in 1..Len(program) : program[i].op \in TableOp \ {"create_table"}
  <2>1. ASSUME NEW call \in AnyCall, call.op \in TableOp \ {"create_table"}
        PROVE  <<call>> \in Seq(AnyCall) /\ \A i \in 1..Len(<<call>>) : <<call>>[i].op \in TableOp \ {"create_table"}
    BY <2>1
  <2>2. ASSUME NEW t \in TableName, DropTableStatement(c, t)
        PROVE  \E kind, program : /\ Begin(c, kind, program) /\ UNCHANGED <<view, dbName, indexOwner, latest>>
                                  /\ program \in Seq(AnyCall)
                                  /\ \A i \in 1..Len(program) : program[i].op \in TableOp \ {"create_table"}
    <3>1. [op |-> "drop_table", table |-> t] \in AnyCall
          /\ [op |-> "drop_table", table |-> t].op \in TableOp \ {"create_table"}
      BY DEF AnyCall, TableOp
    <3> QED
      BY <2>1, <2>2, <3>1 DEF DropTableStatement
  <2>3. ASSUME NEW t \in TableName, NEW x \in ColumnName, AddColumnStatement(c, t, x) \/ DropColumnStatement(c, t, x)
        PROVE  \E kind, program : /\ Begin(c, kind, program) /\ UNCHANGED <<view, dbName, indexOwner, latest>>
                                  /\ program \in Seq(AnyCall)
                                  /\ \A i \in 1..Len(program) : program[i].op \in TableOp \ {"create_table"}
    <3>1. PICK op \in {"add_column", "drop_column"} :
            Begin(c, op, ForEach(<<x>>, op, t)) /\ UNCHANGED <<view, dbName, indexOwner, latest>>
      BY <2>3 DEF AddColumnStatement, DropColumnStatement
    <3>2. <<x>> \in Seq(ColumnName)
      OBVIOUS
    <3>3. ForEach(<<x>>, op, t) \in Seq(AnyCall)
          /\ \A i \in 1..Len(ForEach(<<x>>, op, t)) : ForEach(<<x>>, op, t)[i].op \in TableOp \ {"create_table"}
      BY <3>2, CallTypes, CallLists
    <3> QED
      BY <3>1, <3>3
  <2>4. ASSUME NEW op \in {"update_read_count", "reset_statistics"}, StatisticsStatement(c, op)
        PROVE  \E kind, program : /\ Begin(c, kind, program) /\ UNCHANGED <<view, dbName, indexOwner, latest>>
                                  /\ program \in Seq(AnyCall)
                                  /\ \A i \in 1..Len(program) : program[i].op \in TableOp \ {"create_table"}
    <3>1. [op |-> op] \in AnyCall /\ [op |-> op].op \in TableOp \ {"create_table"}
      BY DEF AnyCall, TableOp
    <3> QED
      BY <2>1, <2>4, <3>1 DEF StatisticsStatement
  <2> QED
    BY <2>2, <2>3, <2>4
<1>3. /\ serial /\ mode[c] = "idle" /\ calls[c] = <<>> /\ UNCHANGED <<files, mode, latest, view, indexOwner>>
      /\ calls' = [calls EXCEPT ![c] = program]
  BY <1>1, <1>2 DEF Begin
<1>4. Shaped(program, c, DOMAIN view[c].metas, DOMAIN latest.metas)
  BY <1>2, TablesAreShaped
<1>5. PagePlanned(c)'
  <2>1. program # <<>> => Head(program) = program[1] /\ 1 \in 1..Len(program)
    BY <1>2
  <2>2. program # <<>> => Head(program).op # "create_table"
    BY <1>2, <2>1
  <2> QED
    BY <1>3, <2>2 DEF PagePlanned, Call, IInv
<1>6. view'[c] = view[c] /\ \A o \in Client \ {c} : view'[o] = view[o]
  BY <1>3
<1> QED
  BY <1>2, <1>3, <1>4, <1>5, <1>6, StatementIsSerial

\* The configuration changes at once, in memory and in what is remembered.
LEMMA ConfigureIsSerial ==
    ASSUME IInv, Modes, SerialInv, NEW c \in Client, Configure(c)
    PROVE  SerialInv'
<1>1. SUFFICES ASSUME serial' PROVE SerialInv'
  BY DEF SerialInv
<1> DEFINE s == Save("config", c)
           w == [view[c] EXCEPT !.config = NewSetting]
<1>2. /\ serial /\ mode[c] = "idle" /\ mode[c] # "out" /\ calls[c] = <<>>
      /\ UNCHANGED <<files, mode, dbName, indexOwner>>
      /\ calls' = [calls EXCEPT ![c] = s] /\ view' = [view EXCEPT ![c] = w]
      /\ Remembered(view'[c], {})
  BY <1>1 DEF Configure, Begin
<1>3. SessionInv(c) /\ Recorded /\ Function(metaFile) /\ AllPacked /\ \A o \in Client \ {c} : mode[o] = "out"
  BY <1>2, Running
<1>4. Settled(c)
  BY <1>2, <1>3, NothingPending DEF SessionInv
<1>5. /\ view'[c].registry = view[c].registry /\ view'[c].metas = view[c].metas
      /\ \A o \in Client \ {c} : view'[o] = view[o]
  BY <1>2 DEF IInv, GoodView
<1>6. /\ latest' = [registry |-> latest'.registry, config |-> latest'.config, metas |-> latest'.metas]
      /\ latest'.registry = latest.registry /\ latest'.config = view'[c].config
      /\ latest'.metas = latest.metas
  <2>1. [d \in DOMAIN latest.metas \cup {} |-> IF d \in {} THEN view'[c].metas[d] ELSE latest.metas[d]] = latest.metas
    BY <1>3 DEF Recorded, Function
  <2>2. latest' = [registry |-> view'[c].registry, config |-> view'[c].config, metas |-> latest.metas]
    BY <1>2, <2>1 DEF Remembered
  <2> QED
    BY <1>3, <1>5, <2>2 DEF SessionInv, ViewAgrees
<1>7. "config" \in File /\ "config" \notin Database
  BY CatalogAssumption DEF File
<1>8. SavesOnly(s, c, DOMAIN view[c].metas) /\ Pending(s, "config") /\ s \in Seq(AnyCall)
  BY <1>7, SaveIsSavesOnly, CallTypes DEF File
<1> HIDE DEF s, w
<1>9. calls'[c] = s /\ mode'[c] = "idle" /\ \A o \in Client \ {c} : mode'[o] = "out"
  BY <1>2, <1>3 DEF IInv
<1>10. ViewAgrees(c)'
  BY <1>3, <1>5, <1>6 DEF SessionInv, ViewAgrees
<1>11. FilesAgree(c)'
  BY <1>2, <1>4, <1>5, <1>6, <1>8, <1>9 DEF FilesAgree, Settled, files
<1>12. CallsFit(c)' /\ PagePlanned(c)'
  <2>1. Shaped(s, c, DOMAIN view[c].metas, DOMAIN latest.metas)
    BY <1>8 DEF SavesOnly, Shaped, SaveOp, TableOp
  <2>2. s # <<>> => Head(s) = s[1] /\ 1 \in 1..Len(s)
    BY <1>8
  <2>3. s # <<>> => Head(s).op \in SaveOp
    BY <1>8, <2>2 DEF SavesOnly
  <2> QED
    BY <1>2, <1>3, <1>5, <1>6, <1>9, <2>1, <2>3 DEF CallsFit, PagePlanned, SessionInv, Call, SaveOp
<1>13. AllPacked' /\ Recorded' /\ Function(metaFile)'
  <2>1. AllPacked'
    BY <1>2, <1>3, <1>5 DEF AllPacked, files
  <2>2. Recorded' /\ Function(metaFile)'
    BY <1>2, <1>3, <1>6 DEF Recorded, files
  <2> QED
    BY <2>1, <2>2
<1> QED
  BY <1>9, <1>10, <1>11, <1>12, <1>13, StillRunning DEF SessionInv

-----------------------------------------------------------------------------
(* Calls: saves, and entries of the registry *)

\* Where the calls are that are left when the first has been made.
LEMMA TailPlaces ==
    ASSUME NEW s \in Seq(AnyCall), s # <<>>
    PROVE  /\ Tail(s) \in Seq(AnyCall) /\ Len(s) \in Nat /\ 1 \in 1..Len(s) /\ Head(s) = s[1]
           /\ \A i \in 1..Len(s) : i = 1 \/ \E k \in 1..Len(Tail(s)) : Tail(s)[k] = s[i]
           /\ \A k \in 1..Len(Tail(s)) : \E i \in 2..Len(s) : Tail(s)[k] = s[i]
<1>1. Tail(s) \in Seq(AnyCall) /\ Len(s) \in Nat /\ 1 \in 1..Len(s) /\ Head(s) = s[1]
      /\ Len(Tail(s)) = Len(s) - 1 /\ \A k \in 1..(Len(s) - 1) : Tail(s)[k] = s[k + 1] /\ k + 1 \in 2..Len(s)
  OBVIOUS
<1>2. \A i \in 1..Len(s) : i = 1 \/ (i - 1 \in 1..(Len(s) - 1) /\ i = (i - 1) + 1)
  BY <1>1
<1> QED
  BY <1>1, <1>2

\* What is known when session c makes a call.
LEMMA CallBegins ==
    ASSUME IInv, Modes, SerialInv, serial, NEW c \in Client, calls[c] # <<>>
    PROVE  /\ mode[c] \in {"idle", "leaving"} /\ mode[c] # "out"
           /\ ViewAgrees(c) /\ FilesAgree(c) /\ CallsFit(c) /\ PagePlanned(c)
           /\ Recorded /\ Function(metaFile) /\ AllPacked
           /\ \A o \in Client \ {c} : mode[o] = "out"
           /\ calls[c] \in Seq(AnyCall) /\ Tail(calls[c]) \in Seq(AnyCall)
           /\ Len(calls[c]) \in Nat /\ 1 \in 1..Len(calls[c]) /\ Call(c) = calls[c][1] /\ Call(c) \in AnyCall
           /\ GoodView(view[c]) /\ GoodMetas(metaFile)
<1>1. mode[c] \in {"idle", "leaving"} /\ mode[c] # "out"
  BY DEF Modes
<1>2. SessionInv(c) /\ Recorded /\ Function(metaFile) /\ AllPacked /\ \A o \in Client \ {c} : mode[o] = "out"
  BY <1>1, Running
<1>3. calls[c] \in Seq(AnyCall)
  BY DEF IInv
<1> QED
  BY <1>1, <1>2, <1>3, TailPlaces DEF SessionInv, IInv, Call

\* What is left to be shown when the call has been made and the rest is to come.
LEMMA RestFits ==
    ASSUME IInv, Modes, SerialInv, serial, NEW c \in Client, calls[c] # <<>>,
           calls' = [calls EXCEPT ![c] = Tail(calls[c])], mode' = mode, indexOwner' = indexOwner,
           StillHeld(calls[c], DOMAIN view[c].metas, DOMAIN view'[c].metas),
           StillGone(calls[c], DOMAIN latest.metas, DOMAIN latest'.metas),
           Recorded', Function(metaFile)', AllPacked', ViewAgrees(c)', FilesAgree(c)'
    PROVE  SerialInv'
<1> DEFINE s == calls[c]
<1>1. /\ mode[c] # "out" /\ CallsFit(c) /\ \A o \in Client \ {c} : mode[o] = "out"
      /\ s \in Seq(AnyCall) /\ Call(c) = s[1]
  BY CallBegins
<1>2. calls'[c] = Tail(s)
  BY DEF IInv
<1> HIDE DEF s
<1>3. Shaped(s, c, DOMAIN view[c].metas, DOMAIN latest.metas)
  BY <1>1 DEF CallsFit, s
<1>4. /\ Shaped(Tail(s), c, DOMAIN view'[c].metas, DOMAIN latest'.metas)
      /\ \A i \in 1..Len(Tail(s)) : Tail(s)[i].op # "create_table"
  <2> DEFINE held == DOMAIN view[c].metas
             there == DOMAIN latest.metas
             held2 == DOMAIN view'[c].metas
             there2 == DOMAIN latest'.metas
  <2>1. StillHeld(s, held, held2) /\ StillGone(s, there, there2) /\ Shaped(s, c, held, there)
        /\ s # <<>> /\ s \in Seq(AnyCall)
    BY <1>1, <1>3 DEF s
  <2> HIDE DEF held, there, held2, there2
  <2> QED
    BY <2>1, RestIsShaped DEF held2, there2
<1>5. CallsFit(c)'
  <2>1. mode[c] = "leaving" => \A i \in 1..Len(Tail(s)) : Tail(s)[i].op \in SaveOp
    <3>1. mode[c] = "leaving" => \A i \in 1..Len(s) : s[i].op \in SaveOp
      BY <1>1 DEF CallsFit, s
    <3>2. \A k \in 1..Len(Tail(s)) : \E i \in 1..Len(s) : Tail(s)[k] = s[i]
      BY <1>1, TailPlaces DEF s
    <3> QED
      BY <3>1, <3>2
  <2> QED
    BY <1>1, <1>2, <1>4, <2>1 DEF CallsFit
<1>6. PagePlanned(c)'
  <2>1. Tail(s) # <<>> => Head(Tail(s)) = Tail(s)[1] /\ 1 \in 1..Len(Tail(s))
    BY <1>1, TailPlaces DEF s
  <2> QED
    BY <1>2, <1>4, <2>1 DEF PagePlanned, Call
<1> QED
  BY <1>1, <1>5, <1>6, StillRunning DEF SessionInv

\* What is pending stays pending, and what is to be removed too.
LEMMA StaysPending ==
    ASSUME IInv, NEW c \in Client, calls[c] # <<>>, calls' = [calls EXCEPT ![c] = Tail(calls[c])]
    PROVE  /\ \A f : Pending(calls[c], f) /\ ~(Call(c).op = "write" /\ Call(c).file = f) => Pending(calls'[c], f)
           /\ \A d : (\E i \in 1..Len(calls[c]) : calls[c][i].op = "remove_directory" /\ calls[c][i].db = d)
                     /\ ~(Call(c).op = "remove_directory" /\ Call(c).db = d)
                     => \E i \in 1..Len(calls'[c]) : calls'[c][i].op = "remove_directory" /\ calls'[c][i].db = d
<1> DEFINE s == calls[c]
<1>1. s \in Seq(AnyCall) /\ s # <<>> /\ calls'[c] = Tail(s)
  BY DEF IInv
<1>2. Call(c) = s[1]
  BY <1>1, TailPlaces DEF Call
<1>3. \A i \in 1..Len(s) : i = 1 \/ \E k \in 1..Len(Tail(s)) : Tail(s)[k] = s[i]
  BY <1>1, TailPlaces
<1> HIDE DEF s
<1>4. ASSUME NEW i \in 1..Len(s), s[i] # s[1]
      PROVE  \E k \in 1..Len(calls'[c]) : calls'[c][k] = s[i]
  BY <1>1, <1>3, <1>4
<1>5. ASSUME NEW f, Pending(s, f), ~(s[1].op = "write" /\ s[1].file = f)
      PROVE  Pending(calls'[c], f)
  <2>1. PICK i \in 1..Len(s) : s[i].op = "write" /\ s[i].file = f
    BY <1>5 DEF Pending
  <2>2. \E k \in 1..Len(calls'[c]) : calls'[c][k] = s[i]
    BY <2>1, <1>4, <1>5
  <2> QED
    BY <2>1, <2>2 DEF Pending
<1>6. ASSUME NEW d, NEW i \in 1..Len(s), s[i].op = "remove_directory", s[i].db = d,
             ~(s[1].op = "remove_directory" /\ s[1].db = d)
      PROVE  \E k \in 1..Len(calls'[c]) : calls'[c][k].op = "remove_directory" /\ calls'[c][k].db = d
  <2>1. \E k \in 1..Len(calls'[c]) : calls'[c][k] = s[i]
    BY <1>4, <1>6
  <2> QED
    BY <2>1, <1>6
<1>7. \A f : Pending(s, f) /\ ~(Call(c).op = "write" /\ Call(c).file = f) => Pending(calls'[c], f)
  BY <1>2, <1>5
<1>8. \A d : /\ \E i \in 1..Len(s) : s[i].op = "remove_directory" /\ s[i].db = d
             /\ ~(Call(c).op = "remove_directory" /\ Call(c).db = d)
             => \E k \in 1..Len(calls'[c]) : calls'[c][k].op = "remove_directory" /\ calls'[c][k].db = d
  BY <1>2, <1>6
<1> QED
  BY <1>7, <1>8 DEF s

\* A file that is cut while the session still has to write it.
LEMMA OpenIsSerial ==
    ASSUME IInv, Modes, SerialInv, NEW c \in Client, Open(c)
    PROVE  SerialInv'
<1>1. SUFFICES ASSUME serial' PROVE SerialInv'
  BY DEF SerialInv
<1> DEFINE f == Call(c).file
<1>2. /\ serial /\ calls[c] # <<>> /\ Call(c).op = "open"
      /\ calls' = [calls EXCEPT ![c] = Tail(calls[c])] /\ UNCHANGED <<mode, view, indexOwner, latest>>
      /\ registryFile' = registryFile \/ f = "registry"
      /\ configFile' = configFile \/ f = "config"
      /\ metaFile' = IF f \in DOMAIN metaFile THEN With(metaFile, f, EmptyMetadata) ELSE metaFile
  BY <1>1 DEF Open, Now, Call, history
<1>3. /\ ViewAgrees(c) /\ FilesAgree(c) /\ CallsFit(c) /\ Recorded /\ Function(metaFile) /\ AllPacked
      /\ 1 \in 1..Len(calls[c]) /\ Len(calls[c]) \in Nat /\ Call(c) = calls[c][1] /\ GoodMetas(metaFile)
  BY <1>2, CallBegins
<1>4. Pending(calls'[c], f) /\ (f \in Database => f \in DOMAIN view[c].metas)
  <2>1. /\ \E j \in (1 + 1)..Len(calls[c]) : calls[c][j].op = "write" /\ calls[c][j].file = f
        /\ f \in Database => \/ f \in DOMAIN view[c].metas
                             \/ \E j \in 1..(1 - 1) : calls[c][j].op = "new_metadata" /\ calls[c][j].db = f
    BY <1>2, <1>3 DEF CallsFit, Shaped, SaveOp
  <2>2. Pending(calls[c], f)
    <3>1. \A j \in (1 + 1)..Len(calls[c]) : j \in 1..Len(calls[c])
      BY <1>3
    <3> QED
      BY <2>1, <3>1 DEF Pending
  <2>3. \A j \in 1..(1 - 1) : FALSE
    OBVIOUS
  <2> QED
    BY <1>2, <2>1, <2>2, <2>3, StaysPending
<1> HIDE DEF f
<1>5. /\ \A g : Pending(calls[c], g) => Pending(calls'[c], g)
      /\ \A d : (\E i \in 1..Len(calls[c]) : calls[c][i].op = "remove_directory" /\ calls[c][i].db = d)
                => \E i \in 1..Len(calls'[c]) : calls'[c][i].op = "remove_directory" /\ calls'[c][i].db = d
  BY <1>2, StaysPending
<1>6. /\ DOMAIN metaFile' = DOMAIN metaFile /\ Function(metaFile')
      /\ \A d \in DOMAIN metaFile : metaFile'[d] = metaFile[d] \/ (d = f /\ metaFile'[d] = EmptyMetadata)
  BY <1>2, <1>3 DEF With, Function
<1>7. FilesAgree(c)'
  <2>1. \A d \in DOMAIN latest.metas :
          \/ metaFile'[d] = latest.metas[d]
          \/ d \in DOMAIN view[c].metas /\ Pending(calls'[c], d)
          \/ /\ d \in DOMAIN view[c].metas /\ mode[c] = "idle"
             /\ metaFile'[d] = [latest.metas[d] EXCEPT !.reads = metaFile'[d].reads]
    <3>1. TAKE d \in DOMAIN latest.metas
    <3>2. d \in Database /\ d \in DOMAIN metaFile
      BY <1>3 DEF FilesAgree, GoodMetas
    <3>3. CASE d = f
      BY <1>4, <3>2, <3>3
    <3>4. CASE metaFile'[d] = metaFile[d]
      BY <1>3, <1>5, <3>4 DEF FilesAgree
    <3> QED
      BY <1>6, <3>2, <3>3, <3>4
  <2>2. /\ registryFile' = latest.registry \/ Pending(calls'[c], "registry")
        /\ configFile' = latest.config \/ Pending(calls'[c], "config")
    BY <1>2, <1>3, <1>4, <1>5 DEF FilesAgree
  <2>3. \A d \in DOMAIN metaFile' \ DOMAIN latest.metas :
          \E i \in 1..Len(calls'[c]) : calls'[c][i].op = "remove_directory" /\ calls'[c][i].db = d
    BY <1>3, <1>5, <1>6 DEF FilesAgree
  <2>4. DOMAIN latest.metas \subseteq DOMAIN metaFile'
    BY <1>3, <1>6 DEF FilesAgree
  <2> QED
    BY <1>2, <2>1, <2>2, <2>3, <2>4 DEF FilesAgree
<1>8. AllPacked'
  BY <1>2, <1>3, <1>6, EmptyIsPacked DEF AllPacked, Packed
<1>9. ViewAgrees(c)' /\ Recorded'
  BY <1>2, <1>3 DEF ViewAgrees, Recorded
<1>10. StillHeld(calls[c], DOMAIN view[c].metas, DOMAIN view'[c].metas)
       /\ StillGone(calls[c], DOMAIN latest.metas, DOMAIN latest'.metas)
  BY <1>2, <1>3 DEF StillHeld, StillGone
<1> QED
  BY <1>2, <1>6, <1>7, <1>8, <1>9, <1>10, RestFits

\* A save reaches its file; it is of the session's own catalog.
LEMMA WriteIsSerial ==
    ASSUME IInv, Modes, SerialInv, NEW c \in Client, Write(c) \/ LostSave(c)
    PROVE  SerialInv'
<1>1. SUFFICES ASSUME serial' PROVE SerialInv'
  BY DEF SerialInv
<1> DEFINE f == Call(c).file
           v == view[c]
<1>2. /\ serial /\ calls[c] # <<>> /\ Call(c).op \in {"open", "write"}
      /\ calls' = [calls EXCEPT ![c] = Tail(calls[c])] /\ UNCHANGED <<mode, view, indexOwner, latest>>
  BY <1>1 DEF Write, LostSave, Now, Call, history
<1>3. /\ ViewAgrees(c) /\ FilesAgree(c) /\ CallsFit(c) /\ Recorded /\ Function(metaFile) /\ AllPacked
      /\ 1 \in 1..Len(calls[c]) /\ Call(c) = calls[c][1] /\ GoodMetas(metaFile) /\ GoodView(v)
  BY <1>2, CallBegins
<1>4. Call(c).who = c /\ (f \in Database => f \in DOMAIN v.metas)
  <2>1. /\ Call(c).who = c
        /\ f \in Database => \/ f \in DOMAIN v.metas
                             \/ \E j \in 1..(1 - 1) : calls[c][j].op = "new_metadata" /\ calls[c][j].db = f
    BY <1>2, <1>3 DEF CallsFit, Shaped, SaveOp
  <2>2. \A j \in 1..(1 - 1) : FALSE
    OBVIOUS
  <2> QED
    BY <2>1, <2>2
<1>5. /\ registryFile' = IF f = "registry" THEN v.registry ELSE registryFile
      /\ configFile' = IF f = "config" THEN v.config ELSE configFile
      /\ metaFile' = IF f \in DOMAIN metaFile \cap DOMAIN v.metas THEN With(metaFile, f, v.metas[f]) ELSE metaFile
  <2>1. ~LostSave(c)
    BY <1>4, CatalogAssumption DEF LostSave
  <2> QED
    BY <1>4, <2>1 DEF Write
<1>6. f \in {"registry", "config"} => f \notin Database
  BY CatalogAssumption
<1>7. \A g : Pending(calls[c], g) /\ g # f => Pending(calls'[c], g)
  BY <1>2, StaysPending
<1>8. \A d : (\E i \in 1..Len(calls[c]) : calls[c][i].op = "remove_directory" /\ calls[c][i].db = d)
              => \E i \in 1..Len(calls'[c]) : calls'[c][i].op = "remove_directory" /\ calls'[c][i].db = d
  <2>1. Call(c).op # "remove_directory"
    BY <1>2
  <2> QED
    BY <1>2, <2>1, StaysPending
<1> HIDE DEF f, v
<1>9. /\ DOMAIN metaFile' = DOMAIN metaFile /\ Function(metaFile')
      /\ \A d \in DOMAIN metaFile : IF d = f /\ f \in DOMAIN v.metas THEN metaFile'[d] = v.metas[d]
                                                                     ELSE metaFile'[d] = metaFile[d]
  BY <1>3, <1>5 DEF With, Function
<1>10. FilesAgree(c)'
  <2>1. \A d \in DOMAIN latest.metas :
          \/ metaFile'[d] = latest.metas[d]
          \/ d \in DOMAIN view[c].metas /\ Pending(calls'[c], d)
          \/ /\ d \in DOMAIN view[c].metas /\ mode[c] = "idle"
             /\ metaFile'[d] = [latest.metas[d] EXCEPT !.reads = metaFile'[d].reads]
    <3>1. TAKE d \in DOMAIN latest.metas
    <3>2. d \in Database /\ d \in DOMAIN metaFile
      BY <1>3 DEF FilesAgree, GoodMetas
    <3>3. CASE d = f
      <4>1. metaFile'[d] = v.metas[d] /\ d \in DOMAIN v.metas
        BY <1>4, <1>9, <3>2, <3>3
      <4> QED
        BY <1>3, <4>1 DEF ViewAgrees, v
    <3>4. CASE d # f
      <4>1. metaFile'[d] = metaFile[d]
        BY <1>9, <3>2, <3>4
      <4> QED
        BY <1>3, <1>7, <3>4, <4>1 DEF FilesAgree
    <3> QED
      BY <3>3, <3>4
  <2>2. /\ registryFile' = latest.registry \/ Pending(calls'[c], "registry")
        /\ configFile' = latest.config \/ Pending(calls'[c], "config")
    BY <1>3, <1>5, <1>7 DEF FilesAgree, ViewAgrees, v
  <2>3. \A d \in DOMAIN metaFile' \ DOMAIN latest.metas :
          \E i \in 1..Len(calls'[c]) : calls'[c][i].op = "remove_directory" /\ calls'[c][i].db = d
    BY <1>3, <1>8, <1>9 DEF FilesAgree
  <2>4. DOMAIN latest.metas \subseteq DOMAIN metaFile'
    BY <1>3, <1>9 DEF FilesAgree
  <2> QED
    BY <1>2, <2>1, <2>2, <2>3, <2>4 DEF FilesAgree
<1>11. AllPacked'
  BY <1>2, <1>3, <1>9 DEF AllPacked, Packed, v
<1>12. ViewAgrees(c)' /\ Recorded'
  BY <1>2, <1>3 DEF ViewAgrees, Recorded
<1>13. StillHeld(calls[c], DOMAIN view[c].metas, DOMAIN view'[c].metas)
       /\ StillGone(calls[c], DOMAIN latest.metas, DOMAIN latest'.metas)
  BY <1>2, <1>3 DEF StillHeld, StillGone
<1> QED
  BY <1>2, <1>9, <1>10, <1>11, <1>12, <1>13, RestFits

\* What the catalog is once the session's has changed.
LEMMA NowRemembered ==
    ASSUME NEW v, NEW changed, serial, Remembered(v, changed), Recorded, \A d \in changed : Function(v.metas[d])
    PROVE  /\ Recorded'
           /\ latest'.registry = v.registry /\ latest'.config = v.config
           /\ DOMAIN latest'.metas = DOMAIN latest.metas \cup changed
           /\ \A d \in changed : latest'.metas[d] = v.metas[d]
           /\ \A d \in DOMAIN latest.metas \ changed : latest'.metas[d] = latest.metas[d]
<1> DEFINE ms == [d \in DOMAIN latest.metas \cup changed |-> IF d \in changed THEN v.metas[d] ELSE latest.metas[d]]
<1>1. latest' = [registry |-> v.registry, config |-> v.config, metas |-> ms]
  BY DEF Remembered
<1>2. Function(ms) /\ \A d \in DOMAIN ms : Function(ms[d])
  BY DEF Function, Recorded
<1>3. /\ DOMAIN ms = DOMAIN latest.metas \cup changed
      /\ \A d \in changed : ms[d] = v.metas[d]
      /\ \A d \in DOMAIN latest.metas \ changed : ms[d] = latest.metas[d]
  OBVIOUS
<1> HIDE DEF ms
<1> QED
  BY <1>1, <1>2, <1>3 DEF Recorded

LEMMA RegisterIsSerial ==
    ASSUME IInv, Modes, SerialInv, NEW c \in Client, Register(c)
    PROVE  SerialInv'
<1>1. SUFFICES ASSUME serial' PROVE SerialInv'
  BY DEF SerialInv
<1> DEFINE r == With(view[c].registry, Call(c).db, [id |-> NewId(view[c].registry)])
           w == [view[c] EXCEPT !.registry = r]
<1>2. /\ serial /\ calls[c] # <<>> /\ Call(c).op = "register"
      /\ calls' = [calls EXCEPT ![c] = Tail(calls[c])] /\ UNCHANGED <<files, mode, indexOwner>>
      /\ view' = [view EXCEPT ![c] = w] /\ Remembered(view'[c], {})
  BY <1>1 DEF Register, Now, Call, history
<1>3. /\ ViewAgrees(c) /\ FilesAgree(c) /\ CallsFit(c) /\ Recorded /\ Function(metaFile) /\ AllPacked
      /\ 1 \in 1..Len(calls[c]) /\ Len(calls[c]) \in Nat /\ Call(c) = calls[c][1] /\ GoodView(view[c])
  BY <1>2, CallBegins
<1> HIDE DEF r
<1>4. /\ view'[c].metas = view[c].metas /\ view'[c].config = view[c].config
      /\ \A o \in Client \ {c} : view'[o] = view[o]
  BY <1>2, <1>3 DEF IInv, GoodView
<1>5. /\ Recorded' /\ latest'.registry = view'[c].registry /\ latest'.config = view'[c].config
      /\ DOMAIN latest'.metas = DOMAIN latest.metas
      /\ \A d \in DOMAIN latest.metas : latest'.metas[d] = latest.metas[d]
  <2> DEFINE none == {}
             v == view'[c]
  <2>1. Remembered(v, none) /\ \A d \in none : Function(v.metas[d])
    BY <1>2
  <2> HIDE DEF none, v
  <2>2. /\ Recorded' /\ latest'.registry = v.registry /\ latest'.config = v.config
        /\ DOMAIN latest'.metas = DOMAIN latest.metas \cup none
        /\ \A d \in DOMAIN latest.metas \ none : latest'.metas[d] = latest.metas[d]
    BY <1>2, <1>3, <2>1, NowRemembered
  <2> QED
    BY <2>2 DEF none, v
<1> HIDE DEF w
<1>6. Pending(calls'[c], "registry")
  <2>1. \E j \in (1 + 1)..Len(calls[c]) : calls[c][j].op = "write" /\ calls[c][j].file = "registry"
    BY <1>2, <1>3 DEF CallsFit, Shaped
  <2>2. \A j \in (1 + 1)..Len(calls[c]) : j \in 1..Len(calls[c])
    BY <1>3
  <2>3. Pending(calls[c], "registry")
    BY <2>1, <2>2 DEF Pending
  <2> QED
    BY <1>2, <2>3, StaysPending
<1>7. /\ \A g : Pending(calls[c], g) => Pending(calls'[c], g)
      /\ \A d : (\E i \in 1..Len(calls[c]) : calls[c][i].op = "remove_directory" /\ calls[c][i].db = d)
                => \E i \in 1..Len(calls'[c]) : calls'[c][i].op = "remove_directory" /\ calls'[c][i].db = d
  BY <1>2, StaysPending
<1>8. ViewAgrees(c)'
  BY <1>3, <1>4, <1>5 DEF ViewAgrees
<1>9. FilesAgree(c)'
  <2>1. /\ DOMAIN metaFile' = DOMAIN metaFile /\ metaFile' = metaFile /\ configFile' = configFile
        /\ latest'.config = latest.config
    BY <1>2, <1>3, <1>4, <1>5 DEF files, ViewAgrees
  <2>2. \A d \in DOMAIN latest.metas :
         \/ metaFile[d] = latest.metas[d]
         \/ d \in DOMAIN view[c].metas /\ Pending(calls'[c], d)
         \/ /\ d \in DOMAIN view[c].metas /\ mode[c] = "idle"
            /\ metaFile[d] = [latest.metas[d] EXCEPT !.reads = metaFile[d].reads]
    BY <1>3, <1>7 DEF FilesAgree
  <2>3. \A d \in DOMAIN metaFile \ DOMAIN latest.metas :
          \E i \in 1..Len(calls'[c]) : calls'[c][i].op = "remove_directory" /\ calls'[c][i].db = d
    BY <1>3, <1>7 DEF FilesAgree
  <2>4. configFile = latest.config \/ Pending(calls'[c], "config")
    BY <1>3, <1>7 DEF FilesAgree
  <2>5. DOMAIN latest.metas \subseteq DOMAIN metaFile
    BY <1>3 DEF FilesAgree
  <2> QED
    BY <1>2, <1>4, <1>5, <1>6, <2>1, <2>2, <2>3, <2>4, <2>5 DEF FilesAgree
<1>10. AllPacked' /\ Function(metaFile)'
  BY <1>2, <1>3, <1>4 DEF AllPacked, files
<1>11. StillHeld(calls[c], DOMAIN view[c].metas, DOMAIN view'[c].metas)
       /\ StillGone(calls[c], DOMAIN latest.metas, DOMAIN latest'.metas)
  BY <1>2, <1>3, <1>4, <1>5 DEF StillHeld, StillGone
<1> QED
  BY <1>2, <1>5, <1>8, <1>9, <1>10, <1>11, RestFits

\* When a database is being dropped nothing else is to come but the save of
\* the registry.
LEMMA DropsAlone ==
    ASSUME NEW s, NEW c, NEW held, NEW there, Shaped(s, c, held, there), NEW i \in 1..Len(s),
           s[i].op \in {"unregister", "remove_directory"}, NEW j \in 1..Len(s)
    PROVE  \/ s[j].op \in {"unregister", "remove_directory"} /\ s[j].db = s[i].db
           \/ s[j].op \in SaveOp /\ s[j].file = "registry"
BY DEF Shaped

LEMMA NewMetadataIsSerial ==
    ASSUME IInv, Modes, SerialInv, NEW c \in Client, NewMetadata(c)
    PROVE  SerialInv'
<1>1. SUFFICES ASSUME serial' PROVE SerialInv'
  BY DEF SerialInv
<1> DEFINE d == Call(c).db
           ms == With(view[c].metas, d, EmptyMetadata)
           w == [view[c] EXCEPT !.metas = ms]
           s == calls[c]
<1>2. /\ serial /\ s # <<>> /\ Call(c).op = "new_metadata"
      /\ calls' = [calls EXCEPT ![c] = Tail(s)] /\ UNCHANGED <<registryFile, configFile, mode, indexOwner>>
      /\ view' = [view EXCEPT ![c] = w] /\ Remembered(view'[c], {d})
      /\ metaFile' = With(metaFile, d, EmptyMetadata)
  BY <1>1 DEF NewMetadata, Now, Call, history
<1>3. /\ ViewAgrees(c) /\ FilesAgree(c) /\ CallsFit(c) /\ Recorded /\ Function(metaFile) /\ AllPacked
      /\ 1 \in 1..Len(s) /\ Call(c) = s[1] /\ GoodView(view[c])
  BY <1>2, CallBegins
<1>4. /\ DOMAIN ms = DOMAIN view[c].metas \cup {d} /\ ms[d] = EmptyMetadata
      /\ \A e \in DOMAIN view[c].metas \ {d} : ms[e] = view[c].metas[e]
  BY DEF With
<1>5. /\ DOMAIN metaFile' = DOMAIN metaFile \cup {d} /\ metaFile'[d] = EmptyMetadata
      /\ \A e \in DOMAIN metaFile \ {d} : metaFile'[e] = metaFile[e]
      /\ Function(metaFile')
  BY <1>2 DEF With, Function
<1> HIDE DEF ms, d
<1>6. /\ view'[c].metas = ms /\ view'[c].config = view[c].config /\ view'[c].registry = view[c].registry
      /\ \A o \in Client \ {c} : view'[o] = view[o]
  BY <1>2, <1>3 DEF IInv, GoodView
<1> HIDE DEF w
<1>7. /\ Recorded' /\ latest'.registry = view'[c].registry /\ latest'.config = view'[c].config
      /\ DOMAIN latest'.metas = DOMAIN latest.metas \cup {d}
      /\ latest'.metas[d] = EmptyMetadata
      /\ \A e \in DOMAIN latest.metas \ {d} : latest'.metas[e] = latest.metas[e]
  <2> DEFINE one == {d}
             v == view'[c]
  <2>1. Remembered(v, one) /\ \A e \in one : Function(v.metas[e])
    BY <1>2, <1>4, <1>6, EmptyIsPacked
  <2> HIDE DEF one, v
  <2>2. /\ Recorded' /\ latest'.registry = v.registry /\ latest'.config = v.config
        /\ DOMAIN latest'.metas = DOMAIN latest.metas \cup one
        /\ \A e \in one : latest'.metas[e] = v.metas[e]
        /\ \A e \in DOMAIN latest.metas \ one : latest'.metas[e] = latest.metas[e]
    BY <1>2, <1>3, <2>1, NowRemembered
  <2> QED
    BY <1>4, <1>6, <2>2 DEF one, v
<1>8. /\ \A g : Pending(s, g) => Pending(calls'[c], g)
      /\ \A e : (\E i \in 1..Len(s) : s[i].op = "remove_directory" /\ s[i].db = e)
                => \E i \in 1..Len(calls'[c]) : calls'[c][i].op = "remove_directory" /\ calls'[c][i].db = e
  BY <1>2, StaysPending
<1>9. ViewAgrees(c)'
  BY <1>3, <1>4, <1>6, <1>7 DEF ViewAgrees
<1>10. FilesAgree(c)'
  <2>1. \A e \in DOMAIN latest'.metas :
         \/ metaFile'[e] = latest'.metas[e]
         \/ e \in DOMAIN ms /\ Pending(calls'[c], e)
         \/ /\ e \in DOMAIN ms /\ mode[c] = "idle"
            /\ metaFile'[e] = [latest'.metas[e] EXCEPT !.reads = metaFile'[e].reads]
    <3>1. TAKE e \in DOMAIN latest'.metas
    <3>2. CASE e = d
      BY <1>5, <1>7, <3>2
    <3>3. CASE e # d
      <4>1. e \in DOMAIN latest.metas /\ e \in DOMAIN metaFile /\ metaFile'[e] = metaFile[e]
            /\ latest'.metas[e] = latest.metas[e]
        BY <1>3, <1>5, <1>7, <3>3 DEF FilesAgree
      <4> QED
        BY <1>3, <1>4, <1>8, <4>1 DEF FilesAgree
    <3> QED
      BY <3>2, <3>3
  <2>2. \A e \in DOMAIN metaFile' \ DOMAIN latest'.metas :
          \E i \in 1..Len(calls'[c]) : calls'[c][i].op = "remove_directory" /\ calls'[c][i].db = e
    <3>1. TAKE e \in DOMAIN metaFile' \ DOMAIN latest'.metas
    <3>2. e \in DOMAIN metaFile \ DOMAIN latest.metas
      BY <1>5, <1>7
    <3> QED
      BY <1>3, <1>8, <3>2 DEF FilesAgree
  <2>3. DOMAIN latest'.metas \subseteq DOMAIN metaFile'
    BY <1>3, <1>5, <1>7 DEF FilesAgree
  <2>4. /\ registryFile' = latest'.registry \/ Pending(calls'[c], "registry")
        /\ configFile' = latest'.config \/ Pending(calls'[c], "config")
    BY <1>2, <1>3, <1>6, <1>7, <1>8 DEF FilesAgree, ViewAgrees
  <2> QED
    BY <1>2, <1>6, <2>1, <2>2, <2>3, <2>4 DEF FilesAgree
<1>11. AllPacked'
  <2>1. Packed(metaFile') /\ Packed(ms)
    BY <1>3, <1>4, <1>5, EmptyIsPacked DEF AllPacked, Packed
  <2> QED
    BY <1>3, <1>6, <2>1 DEF AllPacked
<1>12. StillHeld(s, DOMAIN view[c].metas, DOMAIN view'[c].metas)
  BY <1>3, <1>4, <1>6 DEF StillHeld, d
<1>13. StillGone(s, DOMAIN latest.metas, DOMAIN latest'.metas)
  <2>1. ASSUME NEW i \in 1..Len(s), s[i].op = "remove_directory" PROVE FALSE
    BY <1>2, <1>3, <2>1, DropsAlone DEF CallsFit, SaveOp
  <2>2. \A i \in 2..Len(s) : i \in 1..Len(s)
    OBVIOUS
  <2> QED
    BY <1>2, <1>3, <2>1, <2>2 DEF StillGone
<1> QED
  BY <1>2, <1>5, <1>7, <1>9, <1>10, <1>11, <1>12, <1>13, RestFits

LEMMA UnregisterIsSerial ==
    ASSUME IInv, Modes, SerialInv, NEW c \in Client, Unregister(c)
    PROVE  SerialInv'
<1>1. SUFFICES ASSUME serial' PROVE SerialInv'
  BY DEF SerialInv
<1> DEFINE d == Call(c).db
           ms == Without(view[c].metas, d)
           w == [[view[c] EXCEPT !.metas = ms] EXCEPT !.registry = Without(view[c].registry, d)]
           ls == Without(latest.metas, d)
           s == calls[c]
<1>2. /\ serial /\ s # <<>> /\ Call(c).op = "unregister"
      /\ calls' = [calls EXCEPT ![c] = Tail(s)] /\ UNCHANGED <<files, mode, indexOwner>>
      /\ view' = [view EXCEPT ![c] = w]
      /\ latest' = [[latest EXCEPT !.metas = ls] EXCEPT !.registry = Without(latest.registry, d)]
  BY <1>1 DEF Unregister, Now, Call, history
<1>3. /\ ViewAgrees(c) /\ FilesAgree(c) /\ CallsFit(c) /\ Recorded /\ Function(metaFile) /\ AllPacked
      /\ 1 \in 1..Len(s) /\ Len(s) \in Nat /\ Call(c) = s[1] /\ Call(c) \in AnyCall /\ GoodView(view[c])
  BY <1>2, CallBegins
<1>4. /\ DOMAIN ms = DOMAIN view[c].metas \ {d} /\ DOMAIN ls = DOMAIN latest.metas \ {d} /\ Function(ls)
      /\ \A e \in DOMAIN ms : ms[e] = view[c].metas[e]
      /\ \A e \in DOMAIN ls : ls[e] = latest.metas[e]
  BY DEF Without, Function
<1>5. d \in Database
  BY <1>2, NextCall DEF IInv
<1> HIDE DEF ms, ls, d
<1>6. /\ view'[c].metas = ms /\ view'[c].config = view[c].config
      /\ view'[c].registry = Without(view[c].registry, d)
      /\ \A o \in Client \ {c} : view'[o] = view[o]
  BY <1>2, <1>3 DEF IInv, GoodView
<1>7. /\ latest' = [registry |-> latest'.registry, config |-> latest'.config, metas |-> latest'.metas]
      /\ latest'.metas = ls /\ latest'.config = latest.config
      /\ latest'.registry = Without(latest.registry, d)
  <2>1. latest = [registry |-> latest.registry, config |-> latest.config, metas |-> latest.metas]
    BY <1>3 DEF Recorded
  <2>2. latest' = [registry |-> Without(latest.registry, d), config |-> latest.config, metas |-> ls]
    BY <1>2, <2>1
  <2> QED
    BY <2>2
<1> HIDE DEF w
<1>8. \E j \in 1..Len(s) : s[j].op = "write" /\ s[j].file = "registry"
  <2>1. \E j \in (1 + 1)..Len(s) : s[j].op = "write" /\ s[j].file = "registry"
    BY <1>2, <1>3 DEF CallsFit, Shaped
  <2>2. \A j \in (1 + 1)..Len(s) : j \in 1..Len(s)
    BY <1>3
  <2> QED
    BY <2>1, <2>2
<1>9. \E j \in 1..Len(s) : s[j].op = "remove_directory" /\ s[j].db = d
  <2>1. \E j \in (1 + 1)..Len(s) : s[j].op = "remove_directory" /\ s[j].db = d
    BY <1>2, <1>3 DEF CallsFit, Shaped, d
  <2>2. \A j \in (1 + 1)..Len(s) : j \in 1..Len(s)
    BY <1>3
  <2> QED
    BY <2>1, <2>2
<1>10. /\ \A g : Pending(s, g) => Pending(calls'[c], g)
       /\ \A e : (\E i \in 1..Len(s) : s[i].op = "remove_directory" /\ s[i].db = e)
                 => \E i \in 1..Len(calls'[c]) : calls'[c][i].op = "remove_directory" /\ calls'[c][i].db = e
  BY <1>2, StaysPending
<1>11. ViewAgrees(c)'
  <2>1. \A e \in DOMAIN ms : e \in DOMAIN ls /\ ms[e] = ls[e]
    BY <1>3, <1>4 DEF ViewAgrees
  <2> QED
    BY <1>3, <1>6, <1>7, <2>1 DEF ViewAgrees
<1>12. FilesAgree(c)'
  <2>1. metaFile' = metaFile /\ configFile' = configFile
    BY <1>2 DEF files
  <2>2. \A e \in DOMAIN ls :
         \/ metaFile[e] = ls[e]
         \/ e \in DOMAIN ms /\ Pending(calls'[c], e)
         \/ e \in DOMAIN ms /\ mode[c] = "idle" /\ metaFile[e] = [ls[e] EXCEPT !.reads = metaFile[e].reads]
    <3>1. TAKE e \in DOMAIN ls
    <3>2. e \in DOMAIN latest.metas /\ e # d /\ ls[e] = latest.metas[e]
      BY <1>4
    <3> QED
      BY <1>3, <1>4, <1>10, <3>2 DEF FilesAgree
  <2>3. \A e \in DOMAIN metaFile \ DOMAIN ls :
          \E i \in 1..Len(calls'[c]) : calls'[c][i].op = "remove_directory" /\ calls'[c][i].db = e
    <3>1. TAKE e \in DOMAIN metaFile \ DOMAIN ls
    <3>2. CASE e = d
      BY <1>9, <1>10, <3>2
    <3>3. CASE e # d
      BY <1>3, <1>4, <1>10, <3>3 DEF FilesAgree
    <3> QED
      BY <3>2, <3>3
  <2>4. Pending(calls'[c], "registry") /\ (configFile = latest.config \/ Pending(calls'[c], "config"))
    BY <1>3, <1>8, <1>10 DEF FilesAgree, Pending
  <2>5. DOMAIN ls \subseteq DOMAIN metaFile
    BY <1>3, <1>4 DEF FilesAgree
  <2> QED
    BY <1>2, <1>6, <1>7, <2>1, <2>2, <2>3, <2>4, <2>5 DEF FilesAgree
<1>13. AllPacked' /\ Function(metaFile)'
  <2>1. Packed(ms)
    BY <1>3, <1>4 DEF AllPacked, Packed
  <2> QED
    BY <1>2, <1>3, <1>6, <2>1 DEF AllPacked, files
<1>14. Recorded'
  BY <1>3, <1>4, <1>7 DEF Recorded
<1>15. StillHeld(s, DOMAIN view[c].metas, DOMAIN view'[c].metas)
  <2>1. ASSUME NEW i \in 2..Len(s), s[i].op \in SaveOp, s[i].file \in DOMAIN view[c].metas
        PROVE  s[i].file \in DOMAIN ms
    <3>1. i \in 1..Len(s)
      OBVIOUS
    <3>2. s[i].file = "registry"
      BY <1>2, <1>3, <2>1, <3>1, DropsAlone DEF CallsFit, SaveOp
    <3>3. s[i].file # d
      BY <1>5, <3>2, CatalogAssumption
    <3> QED
      BY <1>4, <2>1, <3>3
  <2> QED
    BY <1>2, <1>3, <1>6, <2>1 DEF StillHeld
<1>16. StillGone(s, DOMAIN latest.metas, DOMAIN latest'.metas)
  BY <1>3, <1>4, <1>7 DEF StillGone, d
<1> QED
  BY <1>2, <1>11, <1>12, <1>13, <1>14, <1>15, <1>16, RestFits

LEMMA RemoveDirectoryIsSerial ==
    ASSUME IInv, Modes, SerialInv, NEW c \in Client, RemoveDirectory(c)
    PROVE  SerialInv'
<1>1. SUFFICES ASSUME serial' PROVE SerialInv'
  BY DEF SerialInv
<1> DEFINE d == Call(c).db
           s == calls[c]
<1>2. /\ serial /\ s # <<>> /\ Call(c).op = "remove_directory"
      /\ calls' = [calls EXCEPT ![c] = Tail(s)]
      /\ UNCHANGED <<registryFile, configFile, mode, view, indexOwner, latest>>
      /\ metaFile' = Without(metaFile, d)
  BY <1>1 DEF RemoveDirectory, Now, Call, history
<1>3. /\ ViewAgrees(c) /\ FilesAgree(c) /\ CallsFit(c) /\ Recorded /\ Function(metaFile) /\ AllPacked
      /\ 1 \in 1..Len(s) /\ Call(c) = s[1]
  BY <1>2, CallBegins
<1>4. d \notin DOMAIN latest.metas
  <2>1. d \notin DOMAIN latest.metas \/ \E j \in 1..(1 - 1) : s[j].op = "unregister" /\ s[j].db = d
    BY <1>2, <1>3 DEF CallsFit, Shaped
  <2>2. \A j \in 1..(1 - 1) : FALSE
    OBVIOUS
  <2> QED
    BY <2>1, <2>2
<1>5. /\ \A g : Pending(s, g) => Pending(calls'[c], g)
      /\ \A e : (\E i \in 1..Len(s) : s[i].op = "remove_directory" /\ s[i].db = e) /\ e # d
                => \E i \in 1..Len(calls'[c]) : calls'[c][i].op = "remove_directory" /\ calls'[c][i].db = e
  BY <1>2, StaysPending
<1>6. /\ DOMAIN metaFile' = DOMAIN metaFile \ {d} /\ Function(metaFile')
      /\ \A e \in DOMAIN metaFile' : metaFile'[e] = metaFile[e]
  BY <1>2 DEF Without, Function
<1> HIDE DEF d
<1>7. FilesAgree(c)'
  <2>1. DOMAIN latest.metas \subseteq DOMAIN metaFile'
    BY <1>3, <1>4, <1>6 DEF FilesAgree
  <2>2. \A e \in DOMAIN latest.metas :
         \/ metaFile'[e] = latest.metas[e]
         \/ e \in DOMAIN view[c].metas /\ Pending(calls'[c], e)
         \/ /\ e \in DOMAIN view[c].metas /\ mode[c] = "idle"
            /\ metaFile'[e] = [latest.metas[e] EXCEPT !.reads = metaFile'[e].reads]
    <3>1. TAKE e \in DOMAIN latest.metas
    <3>2. metaFile'[e] = metaFile[e]
      BY <1>6, <2>1
    <3> QED
      BY <1>3, <1>5, <3>2 DEF FilesAgree
  <2>3. \A e \in DOMAIN metaFile' \ DOMAIN latest.metas :
          \E i \in 1..Len(calls'[c]) : calls'[c][i].op = "remove_directory" /\ calls'[c][i].db = e
    BY <1>3, <1>5, <1>6 DEF FilesAgree
  <2>4. /\ registryFile = latest.registry \/ Pending(calls'[c], "registry")
        /\ configFile = latest.config \/ Pending(calls'[c], "config")
    BY <1>3, <1>5 DEF FilesAgree
  <2> QED
    BY <1>2, <2>1, <2>2, <2>3, <2>4 DEF FilesAgree
<1>8. AllPacked'
  BY <1>2, <1>3, <1>6 DEF AllPacked, Packed
<1>9. ViewAgrees(c)' /\ Recorded'
  BY <1>2, <1>3 DEF ViewAgrees, Recorded
<1>10. StillHeld(s, DOMAIN view[c].metas, DOMAIN view'[c].metas)
       /\ StillGone(s, DOMAIN latest.metas, DOMAIN latest'.metas)
  BY <1>2, <1>3 DEF StillHeld, StillGone
<1> QED
  BY <1>2, <1>6, <1>7, <1>8, <1>9, <1>10, RestFits

-----------------------------------------------------------------------------
(* The pages of tables *)

LEMMA PagesKept ==
    ASSUME NEW m, NEW n, PagesPacked(m), n.tableDropped = m.tableDropped, DOMAIN n.tables = DOMAIN m.tables,
           \A t \in DOMAIN m.tables : n.tables[t].page = m.tables[t].page
    PROVE  PagesPacked(n)
BY DEF PagesPacked, PagesDistinct

\* A table in place of another, on the same page.
LEMMA SamePage ==
    ASSUME NEW m, Good(m), PagesPacked(m), NEW t \in DOMAIN m.tables, NEW new, new.page = m.tables[t].page
    PROVE  PagesPacked([m EXCEPT !.tables[t] = new]) /\ Function([m EXCEPT !.tables[t] = new])
<1> DEFINE n == [m EXCEPT !.tables[t] = new]
<1>1. n.tableDropped = m.tableDropped /\ n.tables = [m.tables EXCEPT ![t] = new]
  BY DEF Good, Plain
<1>2. Function(n)
  BY DEF Function
<1> HIDE DEF n
<1>3. PagesPacked(n)
  BY <1>1, PagesKept
<1> QED
  BY <1>2, <1>3 DEF n

LEMMA ColumnMethodsKeepPages ==
    ASSUME NEW m, Good(m), PagesPacked(m), NEW t \in DOMAIN m.tables, NEW x
    PROVE  /\ PagesPacked(AddColumn(m, t, x)) /\ Function(AddColumn(m, t, x))
           /\ PagesPacked(DropColumn(m, t, x)) /\ Function(DropColumn(m, t, x))
           /\ \A marks : PagesPacked(Marked(m, t, x, marks)) /\ Function(Marked(m, t, x, marks))
<1> DEFINE old == m.tables[t]
<1>1. old \in Table
  BY DEF Good, Sound, SoundTable
<1>2. ASSUME NEW new, new.page = old.page
      PROVE  PagesPacked([m EXCEPT !.tables[t] = new]) /\ Function([m EXCEPT !.tables[t] = new])
  BY <1>2, SamePage
<1>3. \A cols : [old EXCEPT !.cols = cols].page = old.page /\ [old EXCEPT !.cols = cols, !.shrunk = TRUE].page = old.page
  BY <1>1 DEF Table
<1>4. \E cols : AddColumn(m, t, x) = [m EXCEPT !.tables[t] = [old EXCEPT !.cols = cols]]
  <2> DEFINE cols == Append(old.cols, [name |-> x, id |-> Len(old.cols) + 1, marks |-> {"nullable"},
                       offset |-> old.cols[Len(old.cols)].offset + Width[old.cols[Len(old.cols)].name]])
  <2>1. AddColumn(m, t, x) = [m EXCEPT !.tables[t] = [old EXCEPT !.cols = cols]]
    BY Zenon DEF AddColumn
  <2> QED
    BY <2>1
<1>5. \E cols : DropColumn(m, t, x) = [m EXCEPT !.tables[t] = [old EXCEPT !.cols = cols, !.shrunk = TRUE]]
  <2>1. DropColumn(m, t, x)
        = [m EXCEPT !.tables[t] = [old EXCEPT !.cols = RemoveAt(old.cols, Position(old, x)), !.shrunk = TRUE]]
    BY Zenon DEF DropColumn
  <2> QED
    BY <2>1
<1>6. \A marks : \E cols : Marked(m, t, x, marks) = [m EXCEPT !.tables[t] = [old EXCEPT !.cols = cols]]
  <2>1. TAKE marks
  <2> DEFINE p == Position(old, x)
             cols == [old.cols EXCEPT ![p] = [old.cols[p] EXCEPT !.marks = marks]]
  <2>2. Marked(m, t, x, marks) = [m EXCEPT !.tables[t] = [old EXCEPT !.cols = cols]]
    BY Zenon DEF Marked
  <2> QED
    BY <2>2
<1> HIDE DEF old
<1>7. PagesPacked(AddColumn(m, t, x)) /\ Function(AddColumn(m, t, x))
  BY <1>2, <1>3, <1>4
<1>8. PagesPacked(DropColumn(m, t, x)) /\ Function(DropColumn(m, t, x))
  BY <1>2, <1>3, <1>5
<1>9. ASSUME NEW marks PROVE PagesPacked(Marked(m, t, x, marks)) /\ Function(Marked(m, t, x, marks))
  <2>1. PICK cols : Marked(m, t, x, marks) = [m EXCEPT !.tables[t] = [old EXCEPT !.cols = cols]]
    BY <1>6
  <2>2. [old EXCEPT !.cols = cols].page = old.page
    BY <1>3
  <2> QED
    BY <1>2, <2>1, <2>2
<1> QED
  BY <1>7, <1>8, <1>9

\* The page of a new table is the number of tables, and so nobody else's.
LEMMA TableMethodsKeepPages ==
    ASSUME NEW m, Good(m), PagesPacked(m), NEW t
    PROVE  /\ \A names : CanCreateTable(m, t) =>
                LET n == CreateTable(m, t, names, Cardinality(DOMAIN m.tables))
                IN  PagesPacked(n) /\ Function(n)
           /\ PagesPacked(DropTable(m, t)) /\ Function(DropTable(m, t))
<1>1. ASSUME NEW names, CanCreateTable(m, t)
      PROVE  LET n == CreateTable(m, t, names, Cardinality(DOMAIN m.tables))
             IN  PagesPacked(n) /\ Function(n)
  <2> DEFINE k == Cardinality(DOMAIN m.tables)
             new == NewTable(m, names, k)
             n == CreateTable(m, t, names, k)
  <2>1. IsFiniteSet(DOMAIN m.tables) /\ k \in Nat
    BY FS_CardinalityType DEF Good, Plain, Numbered
  <2>2. n.tableDropped = m.tableDropped
        /\ n.tables = [x \in DOMAIN m.tables \cup {t} |-> IF x = t THEN new ELSE m.tables[x]]
    BY DEF Good, Plain, CreateTable
  <2>3. Function(n)
    BY DEF CreateTable, Function
  <2>4. new.page = k
    BY DEF NewTable
  <2>5. Cardinality(DOMAIN m.tables \cup {t}) = k + 1
    BY <1>1, <2>1, FS_AddElement DEF CanCreateTable
  <2>6. \A x \in DOMAIN m.tables : m.tables[x].page \in Nat
    BY DEF Good, Sound, SoundTable, Table
  <2> HIDE DEF n, new, k
  <2>7. PagesPacked(n)
    <3>1. SUFFICES ASSUME ~n.tableDropped
                   PROVE  /\ PagesDistinct(n)
                          /\ \A x \in DOMAIN n.tables : n.tables[x].page < Cardinality(DOMAIN n.tables)
      BY DEF PagesPacked
    <3>2. PagesDistinct(m) /\ \A x \in DOMAIN m.tables : m.tables[x].page < k
      BY <2>2, <3>1 DEF PagesPacked, k
    <3>3. DOMAIN n.tables = DOMAIN m.tables \cup {t} /\ n.tables[t] = new
          /\ \A x \in DOMAIN m.tables \ {t} : n.tables[x] = m.tables[x]
      BY <2>2
    <3>4. \A x \in DOMAIN n.tables : (x = t /\ n.tables[x].page = k)
            \/ (x \in DOMAIN m.tables /\ x # t /\ n.tables[x].page = m.tables[x].page /\ m.tables[x].page < k)
      BY <2>4, <3>2, <3>3
    <3>5. \A x \in DOMAIN n.tables : n.tables[x].page < k + 1
      BY <2>1, <2>6, <3>4
    <3>6. PagesDistinct(n)
      <4>1. SUFFICES ASSUME NEW x \in DOMAIN n.tables, NEW y \in DOMAIN n.tables,
                            n.tables[x].page = n.tables[y].page
                     PROVE  x = y
        BY DEF PagesDistinct
      <4>2. CASE x = t
        BY <2>1, <2>6, <3>4, <4>1, <4>2
      <4>3. CASE y = t
        BY <2>1, <2>6, <3>4, <4>1, <4>3
      <4>4. CASE x # t /\ y # t
        BY <3>2, <3>4, <4>1, <4>4 DEF PagesDistinct
      <4> QED
        BY <4>2, <4>3, <4>4
    <3> QED
      BY <2>5, <3>3, <3>5, <3>6
  <2> QED
    BY <2>3, <2>7 DEF n, k
<1>2. PagesPacked(DropTable(m, t)) /\ Function(DropTable(m, t))
  <2>1. DropTable(m, t).tableDropped = TRUE
    BY DEF DropTable, Good, Plain
  <2>2. Function(DropTable(m, t))
    BY DEF DropTable, Function
  <2> QED
    BY <2>1, <2>2 DEF PagesPacked
<1> QED
  BY <1>1, <1>2

LEMMA OtherMethodsKeepPages ==
    ASSUME NEW m, Good(m), PagesPacked(m)
    PROVE  /\ \A name, t, names : LET n == CreateIndex(m, name, t, names) IN PagesPacked(n) /\ Function(n)
           /\ PagesPacked(UpdateIOStats(m, 1)) /\ Function(UpdateIOStats(m, 1))
           /\ PagesPacked(ResetStatistics(m)) /\ Function(ResetStatistics(m))
<1>1. ASSUME NEW k PROVE PagesPacked([m EXCEPT !.reads = k]) /\ Function([m EXCEPT !.reads = k])
  <2> DEFINE n == [m EXCEPT !.reads = k]
  <2>1. n.tables = m.tables /\ n.tableDropped = m.tableDropped /\ Function(n)
    BY DEF Good, Plain, Function
  <2> HIDE DEF n
  <2>2. PagesPacked(n)
    BY <2>1, PagesKept
  <2> QED
    BY <2>1, <2>2 DEF n
<1>2. ASSUME NEW is PROVE PagesPacked([m EXCEPT !.indexes = is]) /\ Function([m EXCEPT !.indexes = is])
  <2> DEFINE n == [m EXCEPT !.indexes = is]
  <2>1. n.tables = m.tables /\ n.tableDropped = m.tableDropped /\ Function(n)
    BY DEF Good, Plain, Function
  <2> HIDE DEF n
  <2>2. PagesPacked(n)
    BY <2>1, PagesKept
  <2> QED
    BY <2>1, <2>2 DEF n
<1>3. ASSUME NEW name, NEW t, NEW names PROVE \E is : CreateIndex(m, name, t, names) = [m EXCEPT !.indexes = is]
  BY Zenon DEF CreateIndex
<1>4. ASSUME NEW name, NEW t, NEW names
      PROVE  PagesPacked(CreateIndex(m, name, t, names)) /\ Function(CreateIndex(m, name, t, names))
  <2>1. PICK is : CreateIndex(m, name, t, names) = [m EXCEPT !.indexes = is]
    BY <1>3
  <2> QED
    BY <1>2, <2>1
<1>5. PagesPacked(UpdateIOStats(m, 1)) /\ Function(UpdateIOStats(m, 1))
      /\ PagesPacked(ResetStatistics(m)) /\ Function(ResetStatistics(m))
  <2>1. UpdateIOStats(m, 1) = [m EXCEPT !.reads = m.reads + 1] /\ ResetStatistics(m) = [m EXCEPT !.reads = 0]
    BY DEF UpdateIOStats, ResetStatistics
  <2> QED
    BY <1>1, <2>1
<1> QED
  BY <1>4, <1>5

-----------------------------------------------------------------------------
(* Calls on tables *)

\* When a call on a table is next, everything has been saved.
LEMMA TableCallBegins ==
    ASSUME IInv, Modes, SerialInv, serial, NEW c \in Client, calls[c] # <<>>, Call(c).op \in TableOp
    PROVE  /\ mode[c] = "idle" /\ indexOwner = c
           /\ Settled(c)
           /\ \A i \in 1..Len(calls[c]) : calls[c][i].op \in TableOp
           /\ \A i \in 1..Len(Tail(calls[c])) : Tail(calls[c])[i].op \in TableOp \ {"create_table"}
           /\ LET w == Loaded(view[c], dbName)
              IN  /\ w.registry = latest.registry /\ w.config = latest.config
                  /\ \A e \in DOMAIN w.metas : e \in DOMAIN latest.metas /\ w.metas[e] = latest.metas[e]
                  /\ DOMAIN view[c].metas \subseteq DOMAIN w.metas
                  /\ CanLoad(view[c], dbName) <=> dbName \in DOMAIN w.metas
                  /\ Packed(w.metas)
<1> DEFINE s == calls[c]
<1>1. /\ mode[c] \in {"idle", "leaving"} /\ ViewAgrees(c) /\ FilesAgree(c) /\ CallsFit(c) /\ AllPacked
      /\ s \in Seq(AnyCall) /\ Len(s) \in Nat /\ 1 \in 1..Len(s) /\ Call(c) = s[1]
  BY CallBegins
<1>2. \A i \in 1..Len(s) : s[i].op \in TableOp /\ (s[i].op = "create_table" => i = 1)
  <2>1. \A j \in (1 + 1)..Len(s) : s[j].op \in TableOp
    BY <1>1 DEF CallsFit, Shaped
  <2>2. \A i \in 1..Len(s) : i = 1 \/ i \in (1 + 1)..Len(s)
    BY <1>1
  <2> QED
    BY <1>1, <2>1, <2>2 DEF CallsFit, Shaped
<1>3. mode[c] = "idle" /\ indexOwner = c
  BY <1>1, <1>2 DEF CallsFit, SaveOp, TableOp
<1>4. Settled(c)
  <2>1. \A i \in 1..Len(s) : s[i].op \notin {"write", "remove_directory"}
    BY <1>2 DEF TableOp
  <2> QED
    BY <1>1, <2>1, NothingPending
<1>5. \A i \in 1..Len(Tail(s)) : Tail(s)[i].op \in TableOp \ {"create_table"}
  <2>1. \A k \in 1..Len(Tail(s)) : \E i \in 2..Len(s) : Tail(s)[k] = s[i]
    BY <1>1, TailPlaces
  <2>2. \A i \in 2..Len(s) : i \in 1..Len(s) /\ i # 1
    BY <1>1
  <2> HIDE DEF s
  <2> QED
    BY <1>2, <2>1, <2>2
<1>6. LET w == Loaded(view[c], dbName)
      IN  /\ w.registry = latest.registry /\ w.config = latest.config
          /\ \A e \in DOMAIN w.metas : e \in DOMAIN latest.metas /\ w.metas[e] = latest.metas[e]
          /\ DOMAIN view[c].metas \subseteq DOMAIN w.metas
          /\ CanLoad(view[c], dbName) <=> dbName \in DOMAIN w.metas
          /\ Packed(w.metas)
  BY <1>1, <1>4, LoadedAgrees
<1> QED
  BY <1>2, <1>3, <1>4, <1>5, <1>6

\* The call comes to nothing: a copy may have been loaded.
LEMMA FailsIsSerial ==
    ASSUME IInv, Modes, SerialInv, serial, NEW c \in Client, calls[c] # <<>>, Call(c).op \in TableOp,
           Throws(c) \/ Ignored(c, c)
    PROVE  SerialInv'
<1> DEFINE w == Loaded(view[c], dbName)
<1>1. PICK rest : /\ calls' = [calls EXCEPT ![c] = rest] /\ view' = [view EXCEPT ![c] = w]
                  /\ UNCHANGED <<files, mode, dbName, indexOwner, serial, latest>>
                  /\ rest = <<>> \/ rest = Tail(calls[c])
  BY DEF Throws, Ignored, Fails
<1>2. /\ mode[c] = "idle" /\ indexOwner = c /\ Settled(c)
      /\ \A i \in 1..Len(Tail(calls[c])) : Tail(calls[c])[i].op \in TableOp \ {"create_table"}
      /\ w.registry = latest.registry /\ w.config = latest.config
      /\ \A e \in DOMAIN w.metas : e \in DOMAIN latest.metas /\ w.metas[e] = latest.metas[e]
      /\ DOMAIN view[c].metas \subseteq DOMAIN w.metas
      /\ Packed(w.metas)
  BY TableCallBegins
<1>3. /\ Recorded /\ Function(metaFile) /\ AllPacked /\ \A o \in Client \ {c} : mode[o] = "out"
      /\ Tail(calls[c]) \in Seq(AnyCall)
  BY CallBegins
<1> HIDE DEF w
<1>4. view'[c] = w /\ calls'[c] = rest /\ mode'[c] = "idle" /\ \A o \in Client \ {c} : mode'[o] = "out" /\ view'[o] = view[o]
  BY <1>1, <1>2, <1>3 DEF IInv
<1>5. \A i \in 1..Len(rest) : rest[i].op \in TableOp \ {"create_table"}
  BY <1>1, <1>2
<1>6. rest \in Seq(AnyCall)
  <2>1. <<>> \in Seq(AnyCall)
    OBVIOUS
  <2> QED
    BY <1>1, <1>3, <2>1
<1>7. ViewAgrees(c)'
  BY <1>1, <1>2, <1>4 DEF ViewAgrees
<1>8. FilesAgree(c)'
  <2>1. Settled(c)'
    BY <1>1, <1>2, <1>4 DEF Settled, files
  <2> QED
    BY <2>1, SettledAgrees
<1>9. CallsFit(c)'
  <2>1. Shaped(rest, c, DOMAIN w.metas, DOMAIN latest.metas)
    BY <1>5, <1>6, TablesAreShaped
  <2> QED
    BY <1>1, <1>2, <1>4, <2>1 DEF CallsFit
<1>10. PagePlanned(c)'
  <2>1. rest # <<>> => Head(rest) = rest[1] /\ 1 \in 1..Len(rest)
    BY <1>6
  <2> QED
    BY <1>4, <1>5, <2>1 DEF PagePlanned, Call
<1>11. AllPacked' /\ Recorded' /\ Function(metaFile)'
  BY <1>1, <1>2, <1>3, <1>4 DEF AllPacked, Recorded, files
<1> QED
  BY <1>4, <1>7, <1>8, <1>9, <1>10, <1>11, StillRunning DEF SessionInv

\* The call changes the session's copy, and has it saved; or it changes
\* statistics only, which are written when the session ends.
LEMMA ChangesIsSerial ==
    ASSUME IInv, Modes, SerialInv, serial, NEW c \in Client, calls[c] # <<>>, Call(c).op \in TableOp,
           CanLoad(view[c], dbName), NEW m, Function(m), PagesPacked(m),
           NEW saves \in Seq(AnyCall), NEW more \in Seq(AnyCall), Changes(c, c, m, saves \o more),
           \A i \in 1..Len(more) : more[i].op \in TableOp \ {"create_table"},
           \/ saves = Save(dbName, c)
           \/ saves = <<>> /\ \A x : [m EXCEPT !.reads = x] = [Meta(c) EXCEPT !.reads = x]
    PROVE  SerialInv'
<1> DEFINE w == Loaded(view[c], dbName)
           v == [w EXCEPT !.metas[dbName] = m]
           rest == (saves \o more) \o Tail(calls[c])
           db == dbName
<1>1. /\ view' = [view EXCEPT ![c] = v] /\ calls' = [calls EXCEPT ![c] = rest]
      /\ Remembered(view'[c], {db})
      /\ UNCHANGED <<files, mode, dbName, indexOwner, serial>>
  BY DEF Changes
<1>2. /\ mode[c] = "idle" /\ indexOwner = c /\ Settled(c)
      /\ \A i \in 1..Len(Tail(calls[c])) : Tail(calls[c])[i].op \in TableOp \ {"create_table"}
      /\ w.registry = latest.registry /\ w.config = latest.config
      /\ \A e \in DOMAIN w.metas : e \in DOMAIN latest.metas /\ w.metas[e] = latest.metas[e]
      /\ DOMAIN view[c].metas \subseteq DOMAIN w.metas
      /\ db \in DOMAIN w.metas
      /\ Packed(w.metas)
  BY TableCallBegins
<1>3. /\ Recorded /\ Function(metaFile) /\ AllPacked /\ \A o \in Client \ {c} : mode[o] = "out"
      /\ Tail(calls[c]) \in Seq(AnyCall)
  BY CallBegins
<1>4. GoodView(w) /\ db \in Database /\ db \in File
  BY LoadedIsGood DEF IInv, File
<1>5. Meta(c) = latest.metas[db]
  BY <1>2 DEF Meta
<1> HIDE DEF w
<1>6. /\ v.registry = w.registry /\ v.config = w.config /\ DOMAIN v.metas = DOMAIN w.metas
      /\ v.metas[db] = m /\ \A e \in DOMAIN w.metas \ {db} : v.metas[e] = w.metas[e]
  BY <1>2, <1>4 DEF GoodView
<1> HIDE DEF v, db
<1>7. view'[c] = v /\ calls'[c] = rest /\ mode'[c] = "idle" /\ \A o \in Client \ {c} : mode'[o] = "out" /\ view'[o] = view[o]
  BY <1>1, <1>2, <1>3 DEF IInv
<1>8. /\ Recorded' /\ latest'.registry = v.registry /\ latest'.config = v.config
      /\ DOMAIN latest'.metas = DOMAIN latest.metas
      /\ latest'.metas[db] = m
      /\ \A e \in DOMAIN latest.metas \ {db} : latest'.metas[e] = latest.metas[e]
  <2> DEFINE one == {db}
  <2>1. Remembered(v, one) /\ \A e \in one : Function(v.metas[e])
    BY <1>1, <1>6, <1>7
  <2> HIDE DEF one
  <2>2. /\ Recorded' /\ latest'.registry = v.registry /\ latest'.config = v.config
        /\ DOMAIN latest'.metas = DOMAIN latest.metas \cup one
        /\ \A e \in one : latest'.metas[e] = v.metas[e]
        /\ \A e \in DOMAIN latest.metas \ one : latest'.metas[e] = latest.metas[e]
    BY <1>3, <2>1, NowRemembered
  <2> QED
    BY <1>2, <1>6, <2>2 DEF one
<1>9. /\ rest \in Seq(AnyCall)
      /\ Shaped(rest, c, DOMAIN v.metas, DOMAIN latest'.metas)
      /\ \A i \in 1..Len(rest) : rest[i].op # "create_table"
      /\ saves = Save(dbName, c) => Pending(rest, db)
  <2> DEFINE tables == more \o Tail(calls[c])
  <2>1. rest = saves \o tables
    <3>1. \A tail \in Seq(AnyCall) : (saves \o more) \o tail = saves \o (more \o tail)
      <4> TAKE tail \in Seq(AnyCall)
      <4>1. saves \in Seq(AnyCall) /\ more \in Seq(AnyCall)
        BY <1>3
      <4> HIDE DEF rest, tables
      <4> QED
        BY <4>1, ConcatAssociative
    <3> QED
      BY <1>3, <3>1
  <2>2. tables \in Seq(AnyCall) /\ \A i \in 1..Len(tables) : tables[i].op \in TableOp \ {"create_table"}
    <3> DEFINE A == TableOp \ {"create_table"}
    <3> HIDE DEF A
    <3>1. /\ \A i \in 1..Len(more) : more[i].op \in A
          /\ \A i \in 1..Len(Tail(calls[c])) : Tail(calls[c])[i].op \in A
      BY <1>2 DEF A
    <3>2. tables \in Seq(AnyCall) /\ \A i \in 1..Len(tables) : tables[i].op \in A \cup A
      BY <1>3, <3>1, JoinedElements
    <3> QED
      BY <3>2 DEF A
  <2> HIDE DEF tables, rest
  <2>3. SavesOnly(saves, c, DOMAIN v.metas) /\ (saves = Save(dbName, c) => Pending(saves, db))
    <3>1. SavesOnly(<<>>, c, DOMAIN v.metas)
      BY NothingIsShaped
    <3>2. SavesOnly(Save(db, c), c, DOMAIN v.metas) /\ Pending(Save(db, c), db)
      BY <1>2, <1>4, <1>6, SaveIsSavesOnly
    <3> QED
      BY <3>1, <3>2 DEF db
  <2>4. Shaped(saves \o tables, c, DOMAIN v.metas, DOMAIN latest'.metas)
        /\ \A f : Pending(saves, f) => Pending(saves \o tables, f)
    <3>1. \A i \in 1..Len(tables) : tables[i].op \in TableOp /\ (tables[i].op = "create_table" => i = 1 /\ saves = <<>>)
      BY <2>2
    <3> QED
      BY <2>2, <2>3, <3>1, SavesThenTables
  <2>5. rest \in Seq(AnyCall) /\ \A i \in 1..Len(rest) : rest[i].op # "create_table"
    <3> DEFINE A == TableOp \ {"create_table"}
    <3> HIDE DEF A
    <3>1. \A i \in 1..Len(saves) : saves[i].op \in SaveOp
      BY <2>3 DEF SavesOnly
    <3>2. \A i \in 1..Len(tables) : tables[i].op \in A
      BY <2>2 DEF A
    <3>3. saves \o tables \in Seq(AnyCall) /\ \A i \in 1..Len(saves \o tables) : (saves \o tables)[i].op \in SaveOp \cup A
      BY <2>2, <3>1, <3>2, JoinedElements
    <3> QED
      BY <2>1, <3>3 DEF A, SaveOp
  <2> QED
    BY <2>1, <2>3, <2>4, <2>5
<1> HIDE DEF rest
<1>10. ViewAgrees(c)'
  BY <1>2, <1>6, <1>7, <1>8 DEF ViewAgrees
<1>11. FilesAgree(c)'
  <2>1. UNCHANGED files
    BY <1>1
  <2>2. metaFile[db] = latest.metas[db] \/ metaFile[db] = [latest.metas[db] EXCEPT !.reads = metaFile[db].reads]
    BY <1>2 DEF Settled
  <2>3. saves = Save(dbName, c) \/ metaFile[db] = [m EXCEPT !.reads = metaFile[db].reads]
    <3>1. ASSUME saves # Save(dbName, c) PROVE metaFile[db] = [m EXCEPT !.reads = metaFile[db].reads]
      <4>1. [m EXCEPT !.reads = metaFile[db].reads] = [latest.metas[db] EXCEPT !.reads = metaFile[db].reads]
        BY <1>5, <3>1
      <4>2. metaFile[db] = latest.metas[db] => metaFile[db] = [latest.metas[db] EXCEPT !.reads = metaFile[db].reads]
        <5>1. Function(latest.metas[db])
          BY <1>2, <1>3 DEF Recorded
        <5> QED
          BY <5>1 DEF Function
      <4> QED
        BY <2>2, <4>1, <4>2
    <3> QED
      BY <3>1
  <2>4. \A e \in DOMAIN latest.metas :
         \/ metaFile[e] = latest'.metas[e]
         \/ e \in DOMAIN v.metas /\ Pending(rest, e)
         \/ e \in DOMAIN v.metas /\ metaFile[e] = [latest'.metas[e] EXCEPT !.reads = metaFile[e].reads]
    <3>1. TAKE e \in DOMAIN latest.metas
    <3>2. CASE e = db
      BY <1>2, <1>6, <1>8, <1>9, <2>3, <3>2
    <3>3. CASE e # db
      BY <1>2, <1>6, <1>8, <3>3 DEF Settled
    <3> QED
      BY <3>2, <3>3
  <2> QED
    BY <1>2, <1>6, <1>7, <1>8, <2>1, <2>4 DEF FilesAgree, Settled, files
<1>12. CallsFit(c)'
  BY <1>1, <1>2, <1>7, <1>9 DEF CallsFit
<1>13. PagePlanned(c)'
  <2>1. rest # <<>> => Head(rest) = rest[1] /\ 1 \in 1..Len(rest)
    BY <1>9
  <2> QED
    BY <1>7, <1>9, <2>1 DEF PagePlanned, Call
<1>14. AllPacked' /\ Function(metaFile)'
  <2>1. Packed(v.metas)
    BY <1>2, <1>6 DEF Packed
  <2> QED
    BY <1>1, <1>3, <1>7, <2>1 DEF AllPacked, files
<1> QED
  BY <1>7, <1>8, <1>10, <1>11, <1>12, <1>13, <1>14, StillRunning DEF SessionInv

LEMMA MetaFits ==
    ASSUME IInv, Modes, SerialInv, serial, NEW c \in Client, calls[c] # <<>>, Call(c).op \in TableOp,
           CanLoad(view[c], dbName)
    PROVE  Good(Meta(c)) /\ PagesPacked(Meta(c)) /\ Function(Meta(c))
<1> DEFINE w == Loaded(view[c], dbName)
<1>1. /\ \A e \in DOMAIN w.metas : e \in DOMAIN latest.metas /\ w.metas[e] = latest.metas[e]
      /\ dbName \in DOMAIN w.metas
      /\ Packed(w.metas)
  BY TableCallBegins
<1>2. Recorded
  BY CallBegins
<1>3. Meta(c) = w.metas[dbName]
  BY DEF Meta
<1>4. Good(Meta(c))
  BY MetaIsGood
<1> HIDE DEF w
<1> QED
  BY <1>1, <1>2, <1>3, <1>4 DEF Packed, Recorded

\* The steps that all these calls consist of, whether sessions are serial or not.
LEMMA FailureIsSerial ==
    ASSUME IInv, Modes, SerialInv, NEW c \in Client, calls[c] # <<>>, Call(c).op \in TableOp,
           Throws(c) \/ Ignored(c, c)
    PROVE  SerialInv'
<1>1. serial' = serial
  BY DEF Throws, Ignored, Fails
<1> QED
  BY <1>1, FailsIsSerial DEF SerialInv

LEMMA SavedChangeIsSerial ==
    ASSUME IInv, Modes, SerialInv, NEW c \in Client, calls[c] # <<>>, Call(c).op \in TableOp,
           CanLoad(view[c], dbName), NEW m, serial => PagesPacked(m) /\ Function(m),
           NEW more \in Seq(AnyCall), \A i \in 1..Len(more) : more[i].op \in TableOp \ {"create_table"},
           Changes(c, c, m, Save(dbName, c) \o more)
    PROVE  SerialInv'
<1>1. CASE ~serial
  BY <1>1 DEF Changes, SerialInv
<1>2. CASE serial
  <2> DEFINE saves == Save(dbName, c)
  <2>1. saves \in Seq(AnyCall)
    BY CallTypes, SaveCurrentType
  <2>2. Changes(c, c, m, saves \o more) /\ saves = Save(dbName, c)
    OBVIOUS
  <2> HIDE DEF saves
  <2> QED
    BY <1>2, <2>1, <2>2, ChangesIsSerial
<1> QED
  BY <1>1, <1>2

LEMMA ChangeIsSerial ==
    ASSUME IInv, Modes, SerialInv, NEW c \in Client, calls[c] # <<>>, Call(c).op \in TableOp,
           CanLoad(view[c], dbName), NEW m, serial => PagesPacked(m) /\ Function(m),
           Changes(c, c, m, Save(dbName, c))
    PROVE  SerialInv'
<1> DEFINE more == <<>>
<1>1. more \in Seq(AnyCall) /\ \A i \in 1..Len(more) : more[i].op \in TableOp \ {"create_table"}
  OBVIOUS
<1>2. Save(dbName, c) \in Seq(AnyCall)
  BY SaveCurrentType
<1>3. Save(dbName, c) \o more = Save(dbName, c)
  BY <1>2, JoinedTwice
<1> HIDE DEF more
<1>4. Changes(c, c, m, Save(dbName, c) \o more)
  BY <1>3
<1> QED
  BY <1>1, <1>4, SavedChangeIsSerial

\* The process is gone before the call is done.
LEMMA EndIsSerial ==
    ASSUME NEW c \in Client, calls[c] # <<>>, ProcessEnds
    PROVE  SerialInv'
BY DEF ProcessEnds, SerialInv

LEMMA TableCallIsNext ==
    ASSUME NEW c, NEW op \in TableOp, Now(c, op)
    PROVE  calls[c] # <<>> /\ Call(c).op = op /\ Call(c).op \in TableOp
BY DEF Now, Call

LEMMA CreateTableIsSerial ==
    ASSUME IInv, Modes, SerialInv, NEW c \in Client, CallCreateTable(c)
    PROVE  SerialInv'
<1> DEFINE t == Call(c).table
           m == CreateTable(Meta(c), t, Call(c).cols, Call(c).page)
<1>1. calls[c] # <<>> /\ Call(c).op = "create_table" /\ Call(c).op \in TableOp
  <2>1. Now(c, "create_table")
    BY Zenon DEF CallCreateTable
  <2> QED
    BY <2>1, TableCallIsNext DEF TableOp
<1>2. CASE Throws(c)
  BY <1>1, <1>2, FailureIsSerial
<1>3. CASE CanLoad(view[c], dbName) /\ CanCreateTable(Meta(c), t) /\ Changes(c, c, m, Save(dbName, c))
  <2>1. ASSUME serial PROVE PagesPacked(m) /\ Function(m)
    <3>1. Good(Meta(c)) /\ PagesPacked(Meta(c))
      BY <1>1, <1>3, <2>1, MetaFits
    <3>2. dbName \in DOMAIN view[c].metas /\ Call(c).page = Cardinality(DOMAIN view[c].metas[dbName].tables)
      BY <1>1, <1>3, <2>1, CallBegins DEF PagePlanned
    <3>3. Meta(c) = view[c].metas[dbName]
      BY <3>2 DEF Meta, Loaded
    <3>4. m = CreateTable(Meta(c), t, Call(c).cols, Cardinality(DOMAIN Meta(c).tables))
      BY <3>2, <3>3
    <3> HIDE DEF m
    <3> QED
      BY <1>3, <3>1, <3>4, TableMethodsKeepPages
  <2> HIDE DEF m
  <2> QED
    BY <1>1, <1>3, <2>1, ChangeIsSerial
<1> QED
  BY <1>2, <1>3 DEF CallCreateTable

LEMMA DropTableIsSerial ==
    ASSUME IInv, Modes, SerialInv, NEW c \in Client, CallDropTable(c)
    PROVE  SerialInv'
<1> DEFINE m == DropTable(Meta(c), Call(c).table)
<1>1. calls[c] # <<>> /\ Call(c).op \in TableOp
  <2>1. Now(c, "drop_table")
    BY Zenon DEF CallDropTable
  <2> QED
    BY <2>1, TableCallIsNext DEF TableOp
<1>2. CASE Ignored(c, c)
  BY <1>1, <1>2, FailureIsSerial
<1>3. CASE HasTable(c, Call(c).table) /\ Changes(c, c, m, Save(dbName, c))
  <2>1. CanLoad(view[c], dbName)
    BY <1>3 DEF HasTable
  <2>2. serial => PagesPacked(m) /\ Function(m)
    BY <1>1, <2>1, MetaFits, TableMethodsKeepPages
  <2> HIDE DEF m
  <2> QED
    BY <1>1, <1>3, <2>1, <2>2, ChangeIsSerial
<1> QED
  BY <1>2, <1>3 DEF CallDropTable

LEMMA AddColumnIsSerial ==
    ASSUME IInv, Modes, SerialInv, NEW c \in Client, CallAddColumn(c)
    PROVE  SerialInv'
<1> DEFINE m == AddColumn(Meta(c), Call(c).table, Call(c).col)
<1>1. calls[c] # <<>> /\ Call(c).op \in TableOp
  <2>1. Now(c, "add_column")
    BY Zenon DEF CallAddColumn
  <2> QED
    BY <2>1, TableCallIsNext DEF TableOp
<1>2. CASE Throws(c)
  BY <1>1, <1>2, FailureIsSerial
<1>3. CASE ProcessEnds
  BY <1>1, <1>3, EndIsSerial
<1>4. CASE HasTable(c, Call(c).table) /\ Changes(c, c, m, Save(dbName, c))
  <2>1. CanLoad(view[c], dbName) /\ Call(c).table \in DOMAIN Meta(c).tables
    BY <1>4 DEF HasTable
  <2>2. serial => PagesPacked(m) /\ Function(m)
    BY <1>1, <2>1, MetaFits, ColumnMethodsKeepPages
  <2> HIDE DEF m
  <2> QED
    BY <1>1, <1>4, <2>1, <2>2, ChangeIsSerial
<1> QED
  BY <1>2, <1>3, <1>4 DEF CallAddColumn

LEMMA OnColumnIsSerial ==
    ASSUME IInv, Modes, SerialInv, NEW c \in Client, NEW op \in TableOp, NEW can \in BOOLEAN, NEW m,
           OnColumn(c, op, can, m), can => CanLoad(view[c], dbName),
           can /\ serial => PagesPacked(m) /\ Function(m)
    PROVE  SerialInv'
<1>1. calls[c] # <<>> /\ Call(c).op \in TableOp
  BY TableCallIsNext DEF OnColumn
<1>2. CASE can /\ Changes(c, c, m, Save(dbName, c))
  BY <1>1, <1>2, ChangeIsSerial
<1>3. CASE Throws(c)
  BY <1>1, <1>3, FailureIsSerial
<1> QED
  BY <1>2, <1>3 DEF OnColumn

LEMMA ColumnCallsAreSerial ==
    ASSUME IInv, Modes, SerialInv, NEW c \in Client,
           CallSetPrimaryKey(c) \/ CallSetNullable(c) \/ CallSetUnique(c) \/ CallDropColumn(c)
    PROVE  SerialInv'
<1> DEFINE t == Call(c).table
           x == Call(c).col
           can == HasTheColumn(c, t, x)
<1>1. can \in BOOLEAN /\ (can /\ CanSetNullable(Meta(c), t, x)) \in BOOLEAN
  BY DEF HasTheColumn, HasTable
<1>2. can => CanLoad(view[c], dbName) /\ t \in DOMAIN Meta(c).tables
  BY DEF HasTheColumn, HasTable
<1>3. \/ OnColumn(c, "set_primary_key", can, SetPrimaryKey(Meta(c), t, x))
      \/ OnColumn(c, "set_nullable", can /\ CanSetNullable(Meta(c), t, x), SetNullable(Meta(c), t, x))
      \/ OnColumn(c, "set_unique", can, SetUnique(Meta(c), t, x))
      \/ OnColumn(c, "drop_column", can, DropColumn(Meta(c), t, x))
  BY DEF CallSetPrimaryKey, CallSetNullable, CallSetUnique, CallDropColumn
<1>4. calls[c] # <<>> /\ Call(c).op \in TableOp
  <2>1. \E op \in TableOp : Now(c, op)
    BY <1>3 DEF OnColumn, TableOp
  <2> QED
    BY <2>1, TableCallIsNext
<1> HIDE DEF can
<1>5. can /\ serial => Good(Meta(c)) /\ PagesPacked(Meta(c))
  BY <1>2, <1>4, MetaFits
<1>6. can /\ serial =>
        /\ PagesPacked(DropColumn(Meta(c), t, x)) /\ Function(DropColumn(Meta(c), t, x))
        /\ \A marks : PagesPacked(Marked(Meta(c), t, x, marks)) /\ Function(Marked(Meta(c), t, x, marks))
  BY <1>2, <1>5, ColumnMethodsKeepPages
<1>7. can /\ serial =>
        /\ PagesPacked(SetPrimaryKey(Meta(c), t, x)) /\ Function(SetPrimaryKey(Meta(c), t, x))
        /\ PagesPacked(SetNullable(Meta(c), t, x)) /\ Function(SetNullable(Meta(c), t, x))
        /\ PagesPacked(SetUnique(Meta(c), t, x)) /\ Function(SetUnique(Meta(c), t, x))
  BY <1>6 DEF SetPrimaryKey, SetNullable, SetUnique
<1>8. {"set_primary_key", "set_nullable", "set_unique", "drop_column"} \subseteq TableOp
  BY DEF TableOp
<1> QED
  BY <1>1, <1>2, <1>3, <1>6, <1>7, <1>8, OnColumnIsSerial

LEMMA StatisticsCallsAreSerial ==
    ASSUME IInv, Modes, SerialInv, NEW c \in Client, CallUpdateReadCount(c) \/ CallResetStatistics(c)
    PROVE  SerialInv'
<1>1. calls[c] # <<>> /\ Call(c).op \in TableOp
  <2>1. \E op \in TableOp : Now(c, op)
    BY DEF CallUpdateReadCount, CallResetStatistics, TableOp
  <2> QED
    BY <2>1, TableCallIsNext
<1>2. CASE Throws(c)
  BY <1>1, <1>2, FailureIsSerial
<1>3. CanLoad(view[c], dbName) /\ serial =>
        /\ Function(Meta(c))
        /\ PagesPacked(UpdateIOStats(Meta(c), 1)) /\ Function(UpdateIOStats(Meta(c), 1))
        /\ PagesPacked(ResetStatistics(Meta(c))) /\ Function(ResetStatistics(Meta(c)))
  BY <1>1, MetaFits, OtherMethodsKeepPages
<1>4. CASE CanLoad(view[c], dbName) /\ Changes(c, c, ResetStatistics(Meta(c)), Save(dbName, c))
  BY <1>1, <1>3, <1>4, ChangeIsSerial
<1>5. CASE CanLoad(view[c], dbName) /\ Changes(c, c, UpdateIOStats(Meta(c), 1), <<>>)
  <2>1. CASE ~serial
    BY <1>5, <2>1 DEF Changes, SerialInv
  <2>2. CASE serial
    <3> DEFINE m == UpdateIOStats(Meta(c), 1)
               none == <<>>
    <3>1. \A x : [m EXCEPT !.reads = x] = [Meta(c) EXCEPT !.reads = x]
      <4>1. m = [Meta(c) EXCEPT !.reads = Meta(c).reads + 1]
        BY DEF UpdateIOStats
      <4>2. \A f, y, x : Function(f) => [[f EXCEPT !.reads = y] EXCEPT !.reads = x] = [f EXCEPT !.reads = x]
        BY DEF Function
      <4> HIDE DEF m
      <4> QED
        BY <1>3, <1>5, <2>2, <4>1, <4>2
    <3>2. none \in Seq(AnyCall) /\ \A i \in 1..Len(none) : none[i].op \in TableOp \ {"create_table"}
      OBVIOUS
    <3>3. none \o none = none
      BY <3>2, JoinedTwice
    <3>4. Changes(c, c, m, none \o none) /\ none = <<>>
      BY <1>5, <3>3
    <3>5. Function(m) /\ PagesPacked(m)
      BY <1>3, <1>5, <2>2
    <3> HIDE DEF m, none
    <3> QED
      BY <1>1, <1>5, <2>2, <3>1, <3>2, <3>4, <3>5, ChangesIsSerial
  <2> QED
    BY <2>1, <2>2
<1> QED
  BY <1>2, <1>4, <1>5 DEF CallUpdateReadCount, CallResetStatistics

LEMMA IndexCallsAreSerial ==
    ASSUME IInv, Modes, SerialInv, NEW c \in Client, CallCreateIndex(c) \/ CallUpdateIndexRoot(c)
    PROVE  SerialInv'
<1> DEFINE t == Call(c).table
           x == Call(c).col
           o == indexOwner
           created == CreateIndex(Meta(o), <<t, x>>, t, <<x>>)
           roots == ForEach(<<x>>, "update_index_root", t)
<1>1. calls[c] # <<>> /\ Call(c).op \in TableOp
  <2>1. \E op \in TableOp : Now(c, op)
    BY DEF CallCreateIndex, CallUpdateIndexRoot, TableOp
  <2> QED
    BY <2>1, TableCallIsNext
<1>2. serial => o = c
  BY <1>1, TableCallBegins
<1>3. CASE ProcessEnds
  BY <1>1, <1>3, EndIsSerial
<1>4. CASE Ignored(c, c)
  BY <1>1, <1>4, FailureIsSerial
<1>5. CASE ~serial /\ UNCHANGED serial
  BY <1>5 DEF SerialInv
<1>6. CASE serial /\ Ignored(c, o)
  BY <1>1, <1>2, <1>6, FailureIsSerial
<1>7. CASE /\ serial /\ CallCreateIndex(c) /\ CanLoad(view[o], dbName)
           /\ Changes(c, o, created, Save(dbName, o) \o roots)
  <2>1. x \in ColumnName
    BY <1>1, <1>7, NextCall DEF CallCreateIndex, Now, Call, IInv
  <2>2. <<x>> \in Seq(ColumnName)
    BY <2>1
  <2>3. roots \in Seq(AnyCall) /\ \A i \in 1..Len(roots) : roots[i].op \in TableOp \ {"create_table"}
    <3>1. t \in TableName
      BY <1>1, <1>7, NextCall DEF CallCreateIndex, Now, Call, IInv
    <3> QED
      BY <2>2, <3>1, CallTypes, CallLists
  <2>4. PagesPacked(created) /\ Function(created)
    BY <1>1, <1>2, <1>7, MetaFits, OtherMethodsKeepPages
  <2> HIDE DEF created, roots, o
  <2> QED
    BY <1>1, <1>2, <1>7, <2>3, <2>4, SavedChangeIsSerial
<1>8. CASE serial /\ CanLoad(view[o], dbName) /\ Changes(c, o, Meta(o), Save(dbName, o))
  BY <1>1, <1>2, <1>8, MetaFits, ChangeIsSerial
<1>9. ASSUME NEW who, NEW m, NEW then, Ignored(c, who) \/ Changes(c, who, m, then)
      PROVE  UNCHANGED serial
  BY <1>9 DEF Ignored, Fails, Changes
<1> QED
  BY <1>2, <1>3, <1>4, <1>5, <1>6, <1>7, <1>8, <1>9 DEF CallCreateIndex, CallUpdateIndexRoot

-----------------------------------------------------------------------------
(* The theorems on sessions that follow one another *)

LEMMA CallsAreSerial ==
    ASSUME IInv, Modes, SerialInv, NEW c \in Client, CallStep(c)
    PROVE  SerialInv'
BY OpenIsSerial, WriteIsSerial, RegisterIsSerial, NewMetadataIsSerial, UnregisterIsSerial,
   RemoveDirectoryIsSerial, CreateTableIsSerial, DropTableIsSerial, AddColumnIsSerial, ColumnCallsAreSerial,
   IndexCallsAreSerial, StatisticsCallsAreSerial DEF CallStep

LEMMA SerialNext == IInv /\ Modes /\ SerialInv /\ [Next]_vars => SerialInv'
<1> SUFFICES ASSUME IInv, Modes, SerialInv, [Next]_vars PROVE SerialInv'
  OBVIOUS
<1>1. CASE Kill
  BY <1>1, ProcessEndsIsSerial DEF Kill
<1>2. ASSUME NEW c \in Client, Session(c) PROVE SerialInv'
  BY <1>2, ConnectIsSerial, LoginIsSerial, LeaveIsSerial, LeftIsSerial DEF Session
<1>3. ASSUME NEW c \in Client, Statement(c) PROVE SerialInv'
  BY <1>3, UseAndShowAreSerial, CreateDatabaseIsSerial, DropDatabaseIsSerial, CreateTableStatementIsSerial,
     OtherStatementsAreSerial, ConfigureIsSerial DEF Statement
<1>4. ASSUME NEW c \in Client, CallStep(c) PROVE SerialInv'
  BY <1>4, CallsAreSerial
<1>5. CASE UNCHANGED vars
  <2>1. SerialInv' <=> SerialInv
    BY <1>5 DEF vars, history, files, SerialInv, OneSession, Recorded, AllPacked, Files, SessionInv, ViewAgrees,
                FilesAgree, CallsFit, PagePlanned, Call, CanLoad
  <2> QED
    BY <2>1
<1> QED
  BY <1>1, <1>2, <1>3, <1>4, <1>5 DEF Next

\* While sessions follow one another, the running session and the files hold
\* what the calls so far have made of the catalog, apart from what is still
\* to be saved by the statement under way.
THEOREM SerialInvHolds == Spec => []SerialInv
<1>1. Init => Modes
  BY DEF Init, Modes
<1> QED
  BY <1>1, SerialInit, SerialNext, ModesNext, InitIsGood, NextIsGood, PTL DEF Spec

\* What sessions that follow one another have done to the catalog is not
\* lost: the copies of the one that runs, and between sessions the files,
\* hold what every call so far has made of it (SaveAll at the end of
\* handle_client, the saves at the end of each call of CatalogManager), also
\* when the process is killed between two statements.
THEOREM SerialSessionsAreSafe == Spec => []SerialSessionsLoseNothing
<1>1. SerialInv => SerialSessionsLoseNothing
  BY DEF SerialInv, SessionInv, ViewAgrees, Files, SerialSessionsLoseNothing
<1> QED
  BY <1>1, SerialInvHolds, PTL

\* The columns of a table lie in disjoint areas of its records, for any
\* sessions (AddColumn puts the new one after the last); and while sessions
\* follow one another, tables that no drop has preceded are on pages of their
\* own (CREATE TABLE takes the number of tables for the next page).
THEOREM StorageStaysDisjoint == Spec => []StorageIsDisjoint
<1>1. IInv /\ SerialInv => StorageIsDisjoint
  <2> SUFFICES ASSUME IInv, SerialInv, NEW m \in Metadatas
               PROVE  /\ ColumnAreasAreDisjoint(m)
                      /\ serial /\ ~m.tableDropped => PagesDistinct(m)
    BY DEF StorageIsDisjoint
  <2>1. ColumnAreasAreDisjoint(m)
    BY EveryCopyIsGood DEF Good, Sound, SoundTable, ColumnAreasAreDisjoint
  <2>2. serial => PagesPacked(m)
    BY DEF SerialInv, AllPacked, Packed, Metadatas
  <2> QED
    BY <2>1, <2>2 DEF PagesPacked
<1> QED
  BY <1>1, IInvHolds, SerialInvHolds, PTL
=============================================================================
