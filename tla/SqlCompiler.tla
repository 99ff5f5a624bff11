------------------------------ MODULE SqlCompiler ------------------------------
(***************************************************************************)
(* What becomes of the statements a client sends: sql_compiler and the     *)
(* part of handle_client that plans and executes (HAOSQL.cpp), with the    *)
(* analyzer and the plan builder.  SqlParser has its own say before the    *)
(* analyzer; nobody looks at it.                                           *)
(*                                                                         *)
(* A statement the analyzer refuses with a SemanticError is given to the   *)
(* AI client (external), which answers with another statement, with none,  *)
(* or not at all; the answer is compiled as if the client had sent it.     *)
(*                                                                         *)
(* A client sends one statement after another.  The only table is on page  *)
(* 0, with its index; on the page behind it there is nothing.              *)
(***************************************************************************)
EXTENDS PlanBuilder

CONSTANTS
    Statement,       \* what the client sends last
    Session,         \* bound: the sequences of statements it may have sent before
    Correction,      \* what the AI client may answer
    MaxCorrections   \* bound: answers of the AI client to one statement

\* Rows of a table there is not are only asked for: what becomes of the page
\* that is then changed is left out.  What a definition changes is in Catalog.
ASSUME CompilerAssumption ==
    LET before == UNION {ToSet(x) : x \in Session}
    IN  /\ MaxCorrections \in Nat
        /\ \A s \in before : s.kind \in {"select", "insert", "update", "delete"}
        /\ \A s \in before \cup Statement \cup Correction :
             s.kind \in {"insert", "update", "delete"} => s.table \in TableNames

VARIABLES
    session,         \* one of Session
    sent,            \* statements received so far
    stmt,            \* the statement being compiled
    table,           \* the table and its index
    found,           \* history: the table when the statement came
    updated,         \* history: an UPDATE came before this statement
    phase,           \* "ready", "received", "planning", "planned", "done"
    corrections,     \* history: answers of the AI client to this statement
    quads,           \* what the analyzer has made of it
    at,              \* the quadruple that buildPlan has come to
    build,           \* the variables of buildPlan
    outcome          \* [kind, rows]

client == <<session, sent>>
data == <<table, found, updated>>
vars == <<client, data, stmt, phase, corrections, quads, at, build, outcome>>

NoStatement == [kind |-> "none"]
Nothing == [kind |-> "none", rows |-> <<>>]
Outcomes == {"none", "answer", "changed", "defined", "error", "refused", "crash"}

TypeOK ==
    /\ session \in Session
    /\ sent \in 0..(Len(session) + 1)
    /\ stmt \in Statement \cup Correction \cup ToSet(session) \cup {NoStatement}
    /\ IsTable(table) /\ IsTable(found)
    /\ updated \in BOOLEAN
    /\ phase \in {"ready", "received", "planning", "planned", "done"}
    /\ corrections \in 0..MaxCorrections
    /\ at \in 1..(Len(quads) + 1)
    /\ outcome.kind \in Outcomes
    /\ (phase = "done") = (outcome.kind # "none")

Init ==
    /\ session \in Session
    /\ sent = 0
    /\ stmt = NoStatement
    /\ table = NoTable
    /\ found = NoTable
    /\ updated = FALSE
    /\ phase = "ready"
    /\ corrections = 0
    /\ quads = <<>>
    /\ at = 1
    /\ build = NothingYet
    /\ outcome = Nothing

\* The loop of handle_client: nothing but the table is kept.
Receive ==
    /\ phase \in {"ready", "done"} /\ outcome.kind # "crash"
    /\ sent <= Len(session)
    /\ sent' = sent + 1
    /\ stmt' \in (IF sent = Len(session) THEN Statement ELSE {session[sent + 1]})
    /\ found' = table
    /\ updated' = (updated \/ stmt.kind = "update")
    /\ phase' = "received"
    /\ corrections' = 0
    /\ quads' = <<>>
    /\ at' = 1
    /\ build' = NothingYet
    /\ outcome' = Nothing
    /\ UNCHANGED <<session, table>>

Finish(kind, rows) ==
    /\ phase' = "done"
    /\ outcome' = [kind |-> kind, rows |-> rows]

-----------------------------------------------------------------------------
(* Compiling *)

Analysis == Analyze(Tokens(stmt))

Compile ==
    /\ phase = "received"
    /\ Analysis.error = None /\ Analysis.quads # <<>>
    /\ quads' = Analysis.quads
    /\ phase' = "planning"
    /\ UNCHANGED <<client, data, stmt, corrections, at, build, outcome>>

\* No quadruples: an empty answer, also when a user has been registered.
Refuse ==
    /\ phase = "received"
    /\ Analysis.quads = <<>>
    /\ Analysis.error # "semantic"
    /\ Finish("refused", <<>>)
    /\ UNCHANGED <<client, data, stmt, corrections, quads, at, build>>

\* CALLAI throws or answers nothing.
AskInVain ==
    /\ phase = "received"
    /\ Analysis.error = "semantic"
    /\ Finish("refused", <<>>)
    /\ UNCHANGED <<client, data, stmt, corrections, quads, at, build>>

\* CALLAI answers, and sql_compiler calls itself.
AskAI ==
    /\ phase = "received"
    /\ Analysis.error = "semantic"
    /\ corrections < MaxCorrections
    /\ corrections' = corrections + 1
    /\ stmt' \in Correction
    /\ UNCHANGED <<client, data, phase, quads, at, build, outcome>>

-----------------------------------------------------------------------------
(* Planning: one quadruple at a time *)

q == quads[at]
NextIs(ops) == phase = "planning" /\ at <= Len(quads) /\ q.op \in ops

\* Mutant of Goes: an exception is reported, and planning goes on.
GoesOn(b) ==
    /\ build' = b
    /\ at' = at + 1
    /\ outcome' = IF b.thrown THEN [kind |-> "error", rows |-> <<>>] ELSE outcome
    /\ UNCHANGED <<client, data, stmt, phase, corrections, quads>>

Goes(b) ==
    /\ build' = b
    /\ IF b.thrown THEN Finish("error", <<>>) /\ UNCHANGED at
       ELSE at' = at + 1 /\ UNCHANGED <<phase, outcome>>
    /\ UNCHANGED <<client, data, stmt, corrections, quads>>

PlanFrom ==
    /\ NextIs({"FROM"})
    /\ \E page \in (IF q.arg1 \in TableNames THEN {0} ELSE {0, 1}) : Goes(From(build, q, page))
PlanCompare == NextIs({"=", ">"}) /\ Goes(Compare(build, q))
PlanJunction == NextIs({"AND", "OR"}) /\ Goes(Junction(build, q))
PlanWhere == NextIs({"WHERE"}) /\ Goes(WhereOf(build, q))
PlanSelect == NextIs({"SELECT"}) /\ Goes(Select(build, q))
PlanValues == NextIs({"VALUES"}) /\ Goes(ValuesOf(build, q))
PlanInsert == NextIs({"INSERT"}) /\ Goes(InsertInto(build, q))
PlanSet == NextIs({"SET"}) /\ Goes(SetColumn(build, q))
PlanUpdate == NextIs({"UPDATE"}) /\ Goes(UpdateRows(build, q))
PlanDelete == NextIs({"DELETE"}) /\ Goes(DeleteRows(build, q))
PlanColumns ==
    \/ NextIs({"COLUMN_NAME"}) /\ Goes(ColumnName(build, q))
    \/ NextIs({"COLUMN_TYPE"}) /\ Goes(ColumnType(build, q))
    \/ NextIs({"COLUMNS"}) /\ Goes(Columns(build))
PlanCreateTable == NextIs({"CREATE_TABLE"}) /\ Goes(CreateTableOf(build, q))
PlanConstraint == NextIs({"PRIMARY", "NOT_NULL", "UNIQUE"}) /\ Goes(Constrain(build, q))
PlanDropTable == NextIs({"DROP_TABLE"}) /\ Goes(DropTableOf(build, q))
PlanAddColumn == NextIs({"ADD_COLUMN"}) /\ Goes(AddColumnOf(build, q))
PlanDropColumn == NextIs({"DROP_COLUMN"}) /\ Goes(DropColumnOf(build, q))

\* No branch for it, or an empty one.
PlanUnknown == NextIs({"<", ">=", "<=", "ORDER", "DEFAULT", "CHECK_TABLE", "CREATE_DB"}) /\ Goes(build)

Planned ==
    /\ phase = "planning"
    /\ at <= Len(quads) => q.op = "RESULT"
    /\ phase' = "planned"
    /\ UNCHANGED <<client, data, stmt, corrections, quads, at, build, outcome>>

-----------------------------------------------------------------------------
(* Executing *)

Root == RootOf(build)

Executes(kinds) == phase = "planned" /\ Root.kind \in kinds
Done(kind, r, tableAfter) ==
    /\ Finish(IF r.thrown THEN "error" ELSE kind, r.rows)
    /\ table' = tableAfter
    /\ UNCHANGED <<client, found, updated, stmt, corrections, quads, at, build>>
NoRows == [rows |-> <<>>, thrown |-> FALSE]

\* There is no operator to call: not an exception that can be caught.
ExecuteNull == Executes({"null"}) /\ Done("crash", NoRows, table)

ExecuteSelect == Executes({"project"}) /\ Done("answer", Projected(Root, table), table)
ExecuteInsert ==
    /\ Executes({"insert"})
    /\ LET row == Inserted(Root)
       IN  Done("changed", [NoRows EXCEPT !.thrown = IndexThrows(row)], AfterInsert(table, row))
ExecuteUpdate == Executes({"update"}) /\ Done("changed", Updated(Root, table), TableUpdated(Root, table))
ExecuteDelete == Executes({"delete"}) /\ Done("changed", Deleted(Root, table), TableDeleted(Root, table))
ExecuteDefinition ==
    /\ Executes({"create table", "drop table", "add column", "drop column"})
    /\ Done("defined", NoRows, table)

-----------------------------------------------------------------------------

Compiling == Compile \/ Refuse \/ AskInVain \/ AskAI
Planning ==
    \/ PlanFrom \/ PlanCompare \/ PlanJunction \/ PlanWhere \/ PlanSelect
    \/ PlanValues \/ PlanInsert \/ PlanSet \/ PlanUpdate \/ PlanDelete
    \/ PlanColumns \/ PlanCreateTable \/ PlanConstraint \/ PlanDropTable
    \/ PlanAddColumn \/ PlanDropColumn \/ PlanUnknown \/ Planned
Executing ==
    \/ ExecuteNull \/ ExecuteSelect \/ ExecuteInsert \/ ExecuteUpdate
    \/ ExecuteDelete \/ ExecuteDefinition

Next == Receive \/ Compiling \/ Planning \/ Executing

Spec == Init /\ [][Next]_vars

-----------------------------------------------------------------------------
(* Statements the front end is known to get wrong *)

Tests == UNION {ToSet(stmt.where[i].tests) : i \in 1..Len(stmt.where)}

\* A negative number is read as its sign, and what follows is not read.
HasNegatives == \E t \in Tests : t.value.sign # ""

\* The comparison that decides alone whether an index is used: the last one
\* that the plan builder knows.
Known(c) == SelectSeq(c.tests, LAMBDA t : t.op \in {"=", ">"})
IndexDecides(c) == Known(c) # <<>> /\ Last(Known(c)).op = "=" /\ Last(Known(c)).col \in Indexed

\* If one is, all others are ignored.
IndexStandsAlone == \E c \in ToSet(stmt.where) : Len(c.tests) > 1 /\ IndexDecides(c)

\* Under a key the index names the records with that key, each once, and
\* perhaps deleted ones, which nobody minds.
IndexIsRight(t, col, w) ==
    LET named == SelectSeq(t.index[col][NumberOf[w]], LAMBDA p : IsRow(t.slots[p]))
    IN  IsInjective(named) /\ ToSet(named) = {p \in 1..Len(t.slots) : col \in DOMAIN t.slots[p] /\ t.slots[p][col] = w}

\* An UPDATE enters a row under its id at the first slot of the page, wherever
\* the row is.
IndexMisleads ==
    /\ updated
    /\ \E c \in ToSet(stmt.where) :
         /\ IndexDecides(c)
         /\ LET t == Last(Known(c))
            IN  ValueOf(t.value) \in DOMAIN NumberOf => ~IndexIsRight(found, t.col, ValueOf(t.value))

\* An UPDATE or a DELETE reads one comparison of its WHERE.
IgnoresTests == stmt.kind # "select" /\ Cardinality(Tests) > 1

\* An UPDATE makes its last assignment only, and gives up reading at an
\* arithmetic operator, WHERE included.
IgnoresAssignments == stmt.kind = "update" /\ (Len(stmt.set) > 1 \/ stmt.set[1].op # "")

\* An UPDATE looks for the old record by the new id.
ChangesIds == stmt.kind = "update" /\ \E i \in 1..Len(stmt.set) : stmt.set[i].col = "id"

\* "*" is no name.
SelectsAll == stmt.kind = "select" /\ stmt.all

\* Nobody says that a table does not exist.
NoSuchTable == stmt.table \notin TableNames

GoesWrong ==
    \/ NoSuchTable \/ SelectsAll \/ HasNegatives
    \/ IndexStandsAlone \/ IndexMisleads
    \/ IgnoresTests \/ IgnoresAssignments \/ ChangesIds

\* What the front end takes, of columns that there are.
Plain ==
    /\ \A t \in Tests :
         /\ t.op \in (IF stmt.kind = "select" THEN {"=", ">"} ELSE {"="})
         /\ t.op = ">" => ValueOf(t.value) \in DOMAIN NumberOf
         /\ \A row \in ToSet(found.slots) : IsRow(row) => t.col \in DOMAIN row
    /\ \A i \in 1..Len(stmt.where) : ~stmt.where[i].bracketed
    /\ stmt.kind = "select" =>
         \A row \in ToSet(found.slots) : IsRow(row) => ToSet(stmt.cols) \subseteq DOMAIN row

-----------------------------------------------------------------------------
(* Properties *)

\* A sequence that has in it each element of a set, once.
Enumerates(list, set) == IsInjective(list) /\ ToSet(list) = set

\* Apart from the statements that are known to go wrong, a SELECT is answered
\* with the rows that its condition, AND before OR, holds of, each once,
\* whatever was inserted and deleted before; or with an error, but only if it
\* has in it what the front end does not take.
AnswersAreRight ==
    (phase = "done" /\ stmt.kind = "select" /\ ~GoesWrong) =>
        \/ outcome.kind = "answer" /\ Enumerates(outcome.rows, Answer(stmt, found.slots))
        \/ outcome.kind \in {"error", "refused"} /\ ~Plain

\* The table that changes of these rows leave: all others are in their slots,
\* and what an UPDATE has made of the rows is behind them, nothing else.
Leaves(rows) ==
    LET others == {p \in 1..Len(found.slots) : \A r \in ToSet(rows) : r.at # p}
        behind == IF stmt.kind = "delete" THEN <<>> ELSE [i \in 1..Len(rows) |-> rows[i].row]
    IN  table.slots = [p \in 1..Len(found.slots) |-> IF p \in others THEN found.slots[p] ELSE <<>>] \o behind

\* Apart from the same statements, an UPDATE and a DELETE change the rows their
\* condition holds of, in the table; when one of the rows throws, some of those.
ChangesAreRight ==
    (phase = "done" /\ stmt.kind \in {"update", "delete"} /\ ~GoesWrong) =>
        LET due == IF stmt.kind = "update" THEN Updates(stmt, found.slots) ELSE Deletes(stmt, found.slots)
        IN  \/ outcome.kind = "changed" /\ Enumerates(outcome.rows, due) /\ Leaves(outcome.rows)
            \/ outcome.kind = "error" /\ ToSet(outcome.rows) \subseteq due
            \/ outcome.kind = "refused" /\ ~Plain

\* The columns of a CREATE TABLE and all of its constraints reach the operator.
ConstraintsReachTheTable ==
    (phase = "planned" /\ stmt.kind = "create_table") =>
        /\ [i \in 1..Len(Root.specs) |-> Root.specs[i][1]] = [i \in 1..Len(stmt.columns) |-> stmt.columns[i].name]
        /\ \A word \in {"PRIMARY", "NOT", "UNIQUE"} :
             ToSet(Root.constraints[QuadOf[word]])
               = {x.name : x \in {y \in ToSet(stmt.columns) : word \in ToSet(y.constraints)}}
=============================================================================
