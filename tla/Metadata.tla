------------------------------- MODULE Metadata -------------------------------
(***************************************************************************)
(* What one database's metadata holds (metadata_structures.h) and how the  *)
(* methods of DatabaseMetadataManager and the CatalogManager change it in  *)
(* memory.  A method that can fail has a guard "Can..." here; the order of *)
(* calls, the files and the sessions are in Catalog.                       *)
(*                                                                         *)
(* Tables and indexes are looked up by name, and no metadata ever has two  *)
(* of one name, so the vectors of the code are functions of the name.  The *)
(* columns of a table are a sequence: nothing keeps two columns from       *)
(* having the same name.  Types and default values are left out; of a      *)
(* table's statistics and properties, which change together, one counter   *)
(* stands for all; an index is named by the table and the column it was    *)
(* made for.                                                               *)
(***************************************************************************)
EXTENDS Sublists, FiniteSetsExt, SequencesExt

CONSTANTS
    TableName,
    ColumnName,
    Width,           \* column name -> the length its column is declared with
    MaxColumns       \* 32 in the code

ASSUME MetadataAssumption ==
    /\ Width \in [ColumnName -> Nat]
    /\ MaxColumns \in Nat

Mark == {"nullable", "primary", "unique"}
IndexName == TableName \X ColumnName

\* "shrunk" is history: a column of the table has been dropped.
Column == [name : ColumnName, id : Nat, offset : Nat, marks : SUBSET Mark]
Table == [id : Nat, page : Nat, cols : Seq(Column), shrunk : BOOLEAN]

\* "of" and "on" are history: the table and the columns the index was made for.
Index == [id : Nat, table : Nat, cols : Seq(Nat), of : TableName, on : Seq(ColumnName)]

\* "tableDropped" is history.
IsMetadata(m) ==
    /\ DOMAIN m = {"tables", "indexes", "reads", "tableDropped"}
    /\ DOMAIN m.tables \subseteq TableName
    /\ \A t \in DOMAIN m.tables : m.tables[t] \in Table
    /\ DOMAIN m.indexes \subseteq IndexName
    /\ \A i \in DOMAIN m.indexes : m.indexes[i] \in Index
    /\ m.reads \in Nat
    /\ m.tableDropped \in BOOLEAN

\* The constructors of DatabaseHeader and DatabaseStats: also what a file cut
\* to nothing reads as, for the header's magic number is there by default.
EmptyMetadata == [tables |-> <<>>, indexes |-> <<>>, reads |-> 0, tableDropped |-> FALSE]

-----------------------------------------------------------------------------
(* Numbers *)

\* Mutant of NewId: the highest id there is, not the next.
HighestId(f) == Max({f[x].id : x \in DOMAIN f} \cup {0})

\* GenerateNewTableId, GenerateNewIndexId, GenerateNewDatabaseId
NewId(f) == Max({f[x].id : x \in DOMAIN f} \cup {0}) + 1

\* UpdateColumnOffset: where each of the columns begins.
Offsets(names) ==
    LET at[i \in 1..Len(names)] == IF i = 1 THEN 0 ELSE at[i - 1] + Width[names[i - 1]]
    IN  at

-----------------------------------------------------------------------------
(* Lookups *)

\* The first column of that name, as GetColumnInfo finds it.
HasColumn(table, x) == \E i \in 1..Len(table.cols) : table.cols[i].name = x
Position(table, x) ==
    CHOOSE i \in 1..Len(table.cols) :
        /\ table.cols[i].name = x
        /\ \A j \in 1..(i - 1) : table.cols[j].name # x

\* ListIndexes: the names of the columns an index is on, found by their ids.
ColumnNamesOf(table, ids) ==
    LET hasId(i) == \E j \in 1..Len(table.cols) : table.cols[j].id = i
        found == Kept(ids, {k \in 1..Len(ids) : hasId(ids[k])})
        nameOf(i) == LET j == CHOOSE k \in 1..Len(table.cols) :
                                  /\ table.cols[k].id = i
                                  /\ \A l \in 1..(k - 1) : table.cols[l].id # i
                     IN  table.cols[j].name
    IN  [i \in 1..Len(found) |-> nameOf(found[i])]

-----------------------------------------------------------------------------
(* Tables and columns *)

CanCreateTable(m, t) == t \notin DOMAIN m.tables

\* The columns a new table has room for.  The code keeps the count of all it
\* was given; what it then reads beyond the last one copied is left out.
CopiedColumns(names) == IF Len(names) <= MaxColumns THEN Len(names) ELSE MaxColumns

NewTable(m, names, page) ==
    [id |-> NewId(m.tables), page |-> page, shrunk |-> FALSE,
     cols |-> [i \in 1..CopiedColumns(names) |->
                 [name |-> names[i], id |-> i, offset |-> Offsets(names)[i], marks |-> {"nullable"}]]]

CreateTable(m, t, names, page) ==
    [m EXCEPT !.tables = [x \in DOMAIN @ \cup {t} |-> IF x = t THEN NewTable(m, names, page) ELSE @[x]]]

\* Mutant of DropTable: the indexes of the table stay.
DropTableOnly(m, t) ==
    [m EXCEPT !.tables = [x \in DOMAIN @ \ {t} |-> @[x]], !.tableDropped = TRUE]

DropTable(m, t) ==
    [m EXCEPT
       !.tables = [x \in DOMAIN @ \ {t} |-> @[x]],
       !.indexes = [i \in {j \in DOMAIN @ : @[j].table # m.tables[t].id} |-> @[i]],
       !.tableDropped = TRUE]

CanAddColumn(table) == Len(table.cols) < MaxColumns

\* Mutant of AddColumn: the new column begins at the sum of the widths.
AddColumnAtTotal(m, t, x) ==
    LET cols == m.tables[t].cols
        total == SumSet({Width[cols[i].name] : i \in 1..Len(cols)})
    IN  [m EXCEPT !.tables[t].cols =
           Append(@, [name |-> x, id |-> Len(cols) + 1, marks |-> {"nullable"}, offset |-> total])]

\* The new column begins where the last one ends; its id is the new count.
AddColumn(m, t, x) ==
    LET cols == m.tables[t].cols
        new == [name |-> x, id |-> Len(cols) + 1, marks |-> {"nullable"},
                offset |-> cols[Len(cols)].offset + Width[cols[Len(cols)].name]]
    IN  [m EXCEPT !.tables[t].cols = Append(@, new)]

DropColumn(m, t, x) ==
    [m EXCEPT !.tables[t].cols = RemoveAt(@, Position(m.tables[t], x)),
              !.tables[t].shrunk = TRUE]

Marked(m, t, x, marks) == [m EXCEPT !.tables[t].cols[Position(m.tables[t], x)].marks = marks]
MarksOf(m, t, x) == m.tables[t].cols[Position(m.tables[t], x)].marks

SetPrimaryKey(m, t, x) == Marked(m, t, x, (MarksOf(m, t, x) \cup {"primary"}) \ {"nullable"})

CanSetNullable(m, t, x) == "primary" \notin MarksOf(m, t, x)
SetNullable(m, t, x) == Marked(m, t, x, MarksOf(m, t, x) \cup {"nullable"})

SetUnique(m, t, x) == Marked(m, t, x, MarksOf(m, t, x) \cup {"unique"})

-----------------------------------------------------------------------------
(* Indexes and statistics *)

CanCreateIndex(m, t, names) ==
    /\ t \in DOMAIN m.tables
    /\ \A k \in 1..Len(names) : HasColumn(m.tables[t], names[k])

\* Mutant of CreateIndex: the positions of the columns from 0, not their ids.
CreateIndexByPosition(m, name, t, names) ==
    LET table == m.tables[t]
        new == [id |-> NewId(m.indexes), table |-> table.id, of |-> t, on |-> names,
                cols |-> [k \in 1..Len(names) |-> Position(table, names[k]) - 1]]
    IN  [m EXCEPT !.indexes = [i \in DOMAIN @ \cup {name} |-> IF i = name THEN new ELSE @[i]]]

CreateIndex(m, name, t, names) ==
    LET table == m.tables[t]
        new == [id |-> NewId(m.indexes), table |-> table.id, of |-> t, on |-> names,
                cols |-> [k \in 1..Len(names) |-> table.cols[Position(table, names[k])].id]]
    IN  [m EXCEPT !.indexes = [i \in DOMAIN @ \cup {name} |-> IF i = name THEN new ELSE @[i]]]

UpdateIOStats(m, n) == [m EXCEPT !.reads = @ + n]
ResetStatistics(m) == [m EXCEPT !.reads = 0]

-----------------------------------------------------------------------------
(* What metadata should be like *)

IdsAreDistinct(f) == \A x, y \in DOMAIN f : f[x].id = f[y].id => x = y

\* An index belongs to the table it was made for, by the id it has kept.
IndexHasItsTable(m, i) ==
    /\ m.indexes[i].of \in DOMAIN m.tables
    /\ m.tables[m.indexes[i].of].id = m.indexes[i].table

ColumnsDisjoint(table) ==
    \A i, j \in 1..Len(table.cols) :
        i < j => table.cols[i].offset + Width[table.cols[i].name] <= table.cols[j].offset

PagesDistinct(m) == \A s, t \in DOMAIN m.tables : m.tables[s].page = m.tables[t].page => s = t

\* What an index is listed as on is what it was made on.
IndexListsItsColumns(m, i) ==
    LET table == m.tables[m.indexes[i].of]
    IN  ColumnNamesOf(table, m.indexes[i].cols) = m.indexes[i].on
=============================================================================
