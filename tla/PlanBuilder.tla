----------------------------- MODULE PlanBuilder -----------------------------
(***************************************************************************)
(* buildPlan (executor.cpp): the tree of operators it makes of quadruples, *)
(* one quadruple after another, and what the trees answer or change.       *)
(*                                                                         *)
(* An operator or a condition is a record; a temporary that no quadruple   *)
(* has set is the null pointer, or the condition without a function.  Here *)
(* an operator sees and leaves the slots of a page and what the index says *)
(* of them.  How page and log are written, and what happens when the page  *)
(* is full or one id begins with another, is in TableExecutor; the tree an *)
(* index is, here a list of slots for each key, is in BPlusTree.           *)
(***************************************************************************)
EXTENDS SemanticAnalyzer

CONSTANTS
    TableNames,      \* the tables of the current database
    Indexed          \* the columns that have an index of their own

\* With two, an INSERT that throws at one may have been entered in the other.
ASSUME IndexAssumption == IsFiniteSet(Indexed) /\ Cardinality(Indexed) <= 1

Null == [kind |-> "null"]
NoFunction == [kind |-> "no function"]

Lookup(symbols, temp, absent) == IF temp \in DOMAIN symbols THEN symbols[temp] ELSE absent

\* The variables of buildPlan: symbolTables, condTable, ic, ddl_state, columns,
\* root, whether it has thrown.
NothingYet ==
    [symbols |-> <<>>, conditions |-> <<>>, ic |-> [col |-> "", op |-> "", val |-> ""],
     names |-> <<>>, types |-> <<>>, lengths |-> <<>>, specs |-> <<>>,
     root |-> Null, thrown |-> FALSE]

Symbol(b, temp, operator) ==
    [b EXCEPT !.symbols = [t \in DOMAIN @ \cup {temp} |-> IF t = temp THEN operator ELSE @[t]]]
Condition(b, temp, condition) ==
    [b EXCEPT !.conditions = [t \in DOMAIN @ \cup {temp} |-> IF t = temp THEN condition ELSE @[t]]]
Throw(b) == [b EXCEPT !.thrown = TRUE]

-----------------------------------------------------------------------------
(* One quadruple: data *)

\* The page of a table there is not is what happens to be on the stack.
From(b, q, page) == Symbol(b, q.result, [kind |-> "scan", table |-> q.arg1, page |-> page])

\* Only these two comparisons are known.
Compare(b, q) ==
    [Condition(b, q.result, [kind |-> "compare", op |-> q.op, col |-> q.arg1, val |-> q.arg2])
       EXCEPT !.ic = [col |-> q.arg1, op |-> q.op, val |-> q.arg2]]

Junction(b, q) ==
    Condition(b, q.result, [kind |-> q.op, left |-> Lookup(b.conditions, q.arg1, NoFunction),
                                           right |-> Lookup(b.conditions, q.arg2, NoFunction)])

\* The comparison read last decides, alone, whether an index takes the place
\* of the whole condition.
UsesIndex(ic) == ic.col \in Indexed /\ ic.op = "="

WhereOf(b, q) ==
    LET child == Lookup(b.symbols, q.arg1, Null)
    IN  IF child.kind # "scan" THEN Throw(b)
        ELSE IF child.table \in TableNames /\ UsesIndex(b.ic)
        THEN IF b.ic.val \in DOMAIN NumberOf
             THEN Symbol(b, q.result, [kind |-> "index scan", table |-> child.table, col |-> b.ic.col,
                                       key |-> NumberOf[b.ic.val], page |-> child.page])
             ELSE Throw(b)
        ELSE Symbol(b, q.result, [kind |-> "filter", child |-> child,
                                  condition |-> Lookup(b.conditions, q.arg2, NoFunction)])

Select(b, q) ==
    [b EXCEPT !.root = [kind |-> "project", child |-> Lookup(b.symbols, q.arg2, Null), cols |-> q.arg1]]

\* The constructor takes the brackets off, which an empty string does not have.
ValuesOf(b, q) ==
    IF ~q.arg1.given \/ ~q.arg2.given \/ Len(q.arg1.items) # Len(q.arg2.items) THEN Throw(b)
    ELSE Symbol(b, q.result, [kind |-> "values", values |-> q.arg1.items, cols |-> q.arg2.items])

InsertInto(b, q) ==
    LET from == Lookup(b.symbols, q.arg1, Null)
    IN  IF from.kind # "scan" THEN Throw(b)
        ELSE [b EXCEPT !.root = [kind |-> "insert", child |-> Lookup(b.symbols, q.arg2, Null), page |-> from.page]]

SetColumn(b, q) == Symbol(b, q.result, [kind |-> "set", col |-> q.arg1, val |-> q.arg2])

UpdateRows(b, q) ==
    [b EXCEPT !.root = [kind |-> "update", child |-> Lookup(b.symbols, q.arg1, Null),
                                           data |-> Lookup(b.symbols, q.arg2, Null)]]

DeleteRows(b, q) == [b EXCEPT !.root = [kind |-> "delete", child |-> Lookup(b.symbols, q.arg2, Null)]]

-----------------------------------------------------------------------------
(* One quadruple: definitions *)

ColumnName(b, q) == [b EXCEPT !.names = q.arg1]
ColumnType(b, q) ==
    [b EXCEPT !.types = q.arg1,
              !.lengths = [i \in 1..Len(q.arg2) |-> IF q.arg2[i] = "-1" THEN "4" ELSE q.arg2[i]]]

\* buildColumnSpecs
Columns(b) ==
    IF Len(b.names) = Len(b.types) /\ Len(b.names) = Len(b.lengths)
    THEN [b EXCEPT !.specs = [i \in 1..Len(b.names) |-> <<b.names[i], b.types[i], b.lengths[i]>>]]
    ELSE Throw(b)

\* A DDL operator is both a symbol and the root: "at" is its temporary, and
\* RootOf is what has become of it.
Definition(b, q, operator) == [Symbol(b, q.result, operator) EXCEPT !.root = [kind |-> "symbol", at |-> q.result]]
RootOf(b) == IF b.root.kind = "symbol" THEN b.symbols[b.root.at] ELSE b.root

NoConstraints == [PRIMARY |-> <<>>, NOT_NULL |-> <<>>, UNIQUE |-> <<>>]

CreateTableOf(b, q) ==
    Definition(b, q, [kind |-> "create table", table |-> q.arg1, specs |-> b.specs, constraints |-> NoConstraints])
AddColumnOf(b, q) ==
    Definition(b, q, [kind |-> "add column", table |-> q.arg1, specs |-> b.specs, constraints |-> NoConstraints])
DropTableOf(b, q) == Definition(b, q, [kind |-> "drop table", table |-> q.arg1])
DropColumnOf(b, q) == Definition(b, q, [kind |-> "drop column", table |-> q.arg1, cols |-> q.arg2])

\* Mutant of Constrain: only the first list is set.
ConstrainOnce(b, q) ==
    IF "T4" \in DOMAIN b.symbols /\ b.symbols["T4"].kind = "create table"
       /\ b.symbols["T4"].constraints = NoConstraints
    THEN [b EXCEPT !.symbols["T4"].constraints[q.op] = q.arg2]
    ELSE b

\* A CREATE TABLE's operator is T4.  So is an ADD COLUMN's, which is why the
\* branch that was written for it is never reached by a statement.
Constrain(b, q) ==
    IF "T4" \in DOMAIN b.symbols
    THEN IF b.symbols["T4"].kind = "create table"
         THEN [b EXCEPT !.symbols["T4"].constraints[q.op] = q.arg2]
         ELSE b
    ELSE LET adds == {t \in DOMAIN b.symbols : b.symbols[t].kind = "add column"}
         IN  IF adds = {} \/ q.op = "PRIMARY" THEN b
             ELSE [b EXCEPT !.symbols[CHOOSE t \in adds : TRUE].constraints[q.op] = q.arg2]

-----------------------------------------------------------------------------
(* What conditions and operators answer *)

\* A predicate of a row: "yes", "no" or "throws".
Verdict(holds) == IF holds THEN "yes" ELSE "no"

\* Condition::simple
Simple(c, row) ==
    CASE c.col \notin DOMAIN row -> "throws"
      [] c.col \in DOMAIN row /\ c.op = "=" -> Verdict(row[c.col] = c.val)
      [] c.col \in DOMAIN row /\ c.op = ">" ->
            IF {row[c.col], c.val} \subseteq DOMAIN NumberOf
            THEN Verdict(NumberOf[row[c.col]] > NumberOf[c.val])
            ELSE "throws"

\* Condition::And and Or look at the right side only if the left leaves it open.
RECURSIVE Test(_, _)
Test(c, row) ==
    CASE c.kind = "no function" -> "throws"
      [] c.kind = "compare" -> Simple(c, row)
      [] c.kind = "AND" -> IF Test(c.left, row) = "yes" THEN Test(c.right, row) ELSE Test(c.left, row)
      [] c.kind = "OR" -> IF Test(c.left, row) = "no" THEN Test(c.right, row) ELSE Test(c.left, row)

-----------------------------------------------------------------------------
(* The table: the slots of its page, and for each indexed column and each   *)
(* key the slots that the index names, in the order they were entered.      *)

Keys == {NumberOf[w] : w \in DOMAIN NumberOf}

NoTable == [slots |-> <<>>, index |-> [col \in Indexed |-> [key \in Keys |-> <<>>]]]

IsTable(table) ==
    /\ DOMAIN table = {"slots", "index"}
    /\ table.index \in [Indexed -> [Keys -> Seq(1..Len(table.slots))]]

\* Behind the table's page there is nothing.
PageOf(table, page) == IF page = 0 THEN table.slots ELSE <<>>

\* The first record with that id, or 0.
Target(slots, id) ==
    LET found == {p \in 1..Len(slots) : "id" \in DOMAIN slots[p] /\ slots[p]["id"] = id}
    IN  IF found = {} THEN 0 ELSE Min(found)

Emptied(slots, p) == [x \in 1..Len(slots) |-> IF x = p THEN <<>> ELSE slots[x]]

\* stoi of the row's key, in Insert::execute.
IndexThrows(row) == \E col \in Indexed : col \notin DOMAIN row \/ row[col] \notin DOMAIN NumberOf

\* Insert, with one row: when an index throws, the record is in the page.
AfterInsert(table, row) ==
    [slots |-> Append(table.slots, row),
     index |-> IF IndexThrows(row) THEN table.index
               ELSE [col \in Indexed |->
                       [table.index[col] EXCEPT ![NumberOf[row[col]]] = Append(@, Len(table.slots) + 1)]]]

\* Update, with the new row: without an id nothing is done; an id that is no
\* number throws when the old record is gone.  Under the id, whatever its
\* column is, each index loses the old slot and gets the first slot of the
\* page; the record goes behind all others.
AfterUpdate(table, row) ==
    LET p == Target(table.slots, row["id"])
        key == NumberOf[row["id"]]
    IN  IF "id" \notin DOMAIN row THEN table
        ELSE IF row["id"] \notin DOMAIN NumberOf THEN [table EXCEPT !.slots = Emptied(@, p)]
        ELSE [slots |-> Append(Emptied(table.slots, p), row),
              index |-> [col \in Indexed |->
                           [table.index[col] EXCEPT ![key] = Append(RemoveFirst(@, p), 1)]]]

\* Delete knows no table name, and so of no index.
AfterDelete(table, row) == [table EXCEPT !.slots = Emptied(@, Target(@, row["id"]))]

-----------------------------------------------------------------------------
(* What operators answer and change *)

\* Slots with their rows, in the order they are read.
Rows(slots, positions) ==
    [rows |-> [i \in 1..Len(positions) |-> [at |-> positions[i], row |-> slots[positions[i]]]],
     thrown |-> FALSE]
Thrown == [rows |-> <<>>, thrown |-> TRUE]

Positions(slots) == [p \in 1..Len(slots) |-> p]

\* Scan, IndexScan, Filter.  A scan answers deleted records too, as empty
\* rows; an index scan what is in the slots that the index names.
Answers(o, table) ==
    CASE o.kind = "scan" -> LET slots == PageOf(table, o.page) IN Rows(slots, Positions(slots))
      [] o.kind = "index scan" ->
            Rows(table.slots, SelectSeq(table.index[o.col][o.key], LAMBDA p : IsRow(table.slots[p])))
      [] o.kind = "filter" ->
            LET slots == PageOf(table, o.child.page)
                live == SelectSeq(Positions(slots), LAMBDA p : IsRow(slots[p]))
            IN  IF \E p \in ToSet(live) : Test(o.condition, slots[p]) = "throws" THEN Thrown
                ELSE Rows(slots, SelectSeq(live, LAMBDA p : Test(o.condition, slots[p]) = "yes"))

\* Project
Projected(o, table) ==
    LET in == Answers(o.child, table)
        live == SelectSeq(in.rows, LAMBDA r : IsRow(r.row))
    IN  IF in.thrown \/ \E r \in ToSet(live) : ~(ToSet(o.cols) \subseteq DOMAIN r.row) THEN Thrown
        ELSE [rows |-> [i \in 1..Len(live) |->
                          [live[i] EXCEPT !.row = [x \in ToSet(o.cols) |-> live[i].row[x]]]],
              thrown |-> FALSE]

\* Rows are taken in order, up to one that throws; what came before it is done.
UpToFault(in, Faulty(_)) ==
    LET faults == {i \in 1..Len(in.rows) : Faulty(in.rows[i].row)}
    IN  IF in.thrown \/ faults = {} THEN in
        ELSE [rows |-> SubSeq(in.rows, 1, Min(faults) - 1), thrown |-> TRUE]

\* The rows an Update makes: with the one column of its SET, new if need be.
Made(o, table) ==
    LET in == Answers(o.child, table)
        after(row) == [x \in DOMAIN row \cup {o.data.col} |-> IF x = o.data.col THEN o.data.val ELSE row[x]]
    IN  [in EXCEPT !.rows = [i \in 1..Len(@) |-> [@[i] EXCEPT !.row = after(@)]]]

\* Update throws at a row whose id is not there or is no number.
Unkeyed(row) == "id" \notin DOMAIN row \/ row["id"] \notin DOMAIN NumberOf
Updated(o, table) == UpToFault(Made(o, table), Unkeyed)
TableUpdated(o, table) ==
    LET made == Made(o, table).rows
        begun == SubSeq(made, 1, Min({Len(made), Len(Updated(o, table).rows) + 1}))
        step(t, r) == AfterUpdate(t, r.row)
    IN  FoldLeft(step, table, begun)

\* Delete throws at a row without an id, such as that of a deleted record.
Idless(row) == "id" \notin DOMAIN row
Deleted(o, table) == UpToFault(Answers(o.child, table), Idless)
TableDeleted(o, table) ==
    LET step(t, r) == AfterDelete(t, r.row)
    IN  FoldLeft(step, table, Deleted(o, table).rows)

\* Values and Insert: the new row.
Inserted(o) ==
    [x \in ToSet(o.child.cols) |->
        o.child.values[Max({i \in 1..Len(o.child.cols) : o.child.cols[i] = x})]]
=============================================================================
