----------------------------- MODULE SqlStatements -----------------------------
(***************************************************************************)
(* SQL statements as people mean them: their parts, the tokens they are    *)
(* written with (what Lexer::analyze makes of their text) and what they    *)
(* should do to a table.  SemanticAnalyzer, PlanBuilder and SqlCompiler    *)
(* say what the code does with the tokens.                                 *)
(*                                                                         *)
(* A column is a function from column names to values; a table is the      *)
(* sequence of its slots, an empty row being one whose record is deleted.  *)
(* Values are strings, as they are in the code.                            *)
(***************************************************************************)
EXTENDS Integers, Sequences, FiniteSets, SequencesExt

CONSTANT NumberOf       \* the strings that stoi takes -> their values

ASSUME NumberAssumption == \A s \in DOMAIN NumberOf : NumberOf[s] \in Int

-----------------------------------------------------------------------------
(* Tokens: the types of dataType.h's Token *)

Keyword(w) == [type |-> 1, value |-> w]
Identifier(w) == [type |-> 2, value |-> w]
Constant(w) == [type |-> 3, value |-> w]
OperatorSign(w) == [type |-> 4, value |-> w]
Delimiter(w) == [type |-> 5, value |-> w]
Text(w) == [type |-> 6, value |-> w]

\* A value: [sign, is] with "is" one token.  A negative number is two.
Number(w) == [sign |-> "", is |-> Constant(w)]
Negative(w) == [sign |-> "-", is |-> Constant(w)]
Quoted(w) == [sign |-> "", is |-> Text(w)]

ValueTokens(v) == IF v.sign = "" THEN <<v.is>> ELSE <<OperatorSign(v.sign), v.is>>
ValueOf(v) == v.sign \o v.is.value

Words(names) == [i \in 1..Len(names) |-> Keyword(names[i])]

\* Parts with a comma between them.
Commas(parts) ==
    IF parts = <<>> THEN <<>>
    ELSE FlattenSeq([i \in 1..Len(parts) |-> IF i = 1 THEN parts[1] ELSE <<Delimiter(",")>> \o parts[i]])
Bracketed(tokens) == <<Delimiter("(")>> \o tokens \o <<Delimiter(")")>>

\* A condition is [tests, joins, bracketed]: comparisons [col, op, value] with
\* an AND or an OR between each two, perhaps in brackets as a whole.
TestTokens(t) == <<Identifier(t.col), OperatorSign(t.op)>> \o ValueTokens(t.value)
ConditionTokens(c) ==
    LET inner == FlattenSeq([i \in 1..Len(c.tests) |->
                     (IF i = 1 THEN <<>> ELSE <<Keyword(c.joins[i - 1])>>) \o TestTokens(c.tests[i])])
    IN  IF c.bracketed THEN Bracketed(inner) ELSE inner

\* "where" is a sequence: no condition or one.
WhereTokens(where) ==
    FlattenSeq([i \in 1..Len(where) |-> <<Keyword("WHERE")>> \o ConditionTokens(where[i])])

NameTokens(names) == [i \in 1..Len(names) |-> <<Identifier(names[i])>>]

\* An assignment is [col, from, op, value]: col = value, or col = from op value.
AssignmentTokens(x) ==
    <<Identifier(x.col), OperatorSign("=")>>
    \o (IF x.op = "" THEN <<>> ELSE <<Identifier(x.from), OperatorSign(x.op)>>)
    \o ValueTokens(x.value)

\* A column definition is [name, type, length, constraints], the length a
\* sequence of no token or one.
ColumnTokens(x) ==
    <<Identifier(x.name), Keyword(x.type)>>
    \o (IF x.length = <<>> THEN <<>> ELSE Bracketed(x.length))
    \o FlattenSeq([i \in 1..Len(x.constraints) |->
           CASE x.constraints[i] = "PRIMARY" -> Words(<<"PRIMARY", "KEY">>)
             [] x.constraints[i] = "NOT" -> Words(<<"NOT", "NULL">>)
             [] x.constraints[i] = "UNIQUE" -> Words(<<"UNIQUE">>)])

Map1(Op(_), s) == [i \in 1..Len(s) |-> Op(s[i])]

\* What the lexer hands over.
Tokens(s) ==
    (CASE s.kind = "select" ->
            Words(<<"SELECT">>)
            \o (IF s.all THEN <<OperatorSign("*")>> ELSE Commas(NameTokens(s.cols)))
            \o <<Keyword("FROM"), Identifier(s.table)>> \o WhereTokens(s.where)
            \o (IF s.order = <<>> THEN <<>>
                ELSE <<Identifier("ORDER"), Keyword("BY"), Identifier(s.order[1])>>)
       [] s.kind = "insert" ->
            Words(<<"INSERT", "INTO">>) \o <<Identifier(s.table)>>
            \o (IF s.cols = <<>> THEN <<>> ELSE Bracketed(Commas(NameTokens(s.cols))))
            \o <<Keyword("VALUES")>> \o Bracketed(Commas(Map1(ValueTokens, s.values)))
       [] s.kind = "update" ->
            <<Keyword("UPDATE"), Identifier(s.table), Keyword("SET")>>
            \o Commas(Map1(AssignmentTokens, s.set)) \o WhereTokens(s.where)
       [] s.kind = "delete" ->
            Words(<<"DELETE", "FROM">>) \o <<Identifier(s.table)>> \o WhereTokens(s.where)
       [] s.kind = "create_table" ->
            Words(<<"CREATE", "TABLE">>) \o <<Identifier(s.table)>>
            \o Bracketed(Commas(Map1(ColumnTokens, s.columns)))
       [] s.kind = "add_column" ->
            Words(<<"ALTER", "TABLE">>) \o <<Identifier(s.table), Keyword("ADD"), Identifier("COLUMN")>>
            \o ColumnTokens(s.column)
       [] s.kind = "drop_column" ->
            Words(<<"ALTER", "TABLE">>) \o <<Identifier(s.table), Keyword("DROP"), Identifier("COLUMN"),
                                             Identifier(s.column)>>
       [] s.kind = "drop_table" ->
            Words(<<"DROP", "TABLE">>)
            \o (IF s.ifExists THEN Words(<<"IF", "EXISTS">>) ELSE <<>>) \o <<Identifier(s.table)>>
       [] s.kind = "create_database" -> <<Keyword("CREATE"), Identifier("DATABASE"), Identifier(s.name)>>
       [] s.kind = "create_user" ->
            <<Keyword("CREATE"), Keyword("USER"), Identifier(s.name), Keyword("IDENTIFIED"),
              Keyword("BY"), Text(s.password)>>
       [] s.kind = "other" -> s.tokens)
    \o <<Delimiter(";")>>

-----------------------------------------------------------------------------
(* What SQL means *)

IsRow(row) == DOMAIN row # {}

Compares(op, x, y) ==
    \/ op = "=" /\ x = y
    \/ /\ {x, y} \subseteq DOMAIN NumberOf
       /\ \/ op = ">" /\ NumberOf[x] > NumberOf[y]
          \/ op = "<" /\ NumberOf[x] < NumberOf[y]
          \/ op = ">=" /\ NumberOf[x] >= NumberOf[y]
          \/ op = "<=" /\ NumberOf[x] <= NumberOf[y]

\* A column that a row lacks compares with nothing.
Passes(row, t) == t.col \in DOMAIN row /\ Compares(t.op, row[t.col], ValueOf(t.value))

\* A run of tests joined by AND between two ORs, or an end, that all pass.
Holds(c, row) ==
    \E i, j \in 1..Len(c.tests) :
        /\ i <= j
        /\ i = 1 \/ c.joins[i - 1] = "OR"
        /\ j = Len(c.tests) \/ c.joins[j] = "OR"
        /\ \A k \in i..j : Passes(row, c.tests[k])
        /\ \A k \in i..(j - 1) : c.joins[k] = "AND"

\* The slots that a statement is about.
Selected(s, slots) ==
    {p \in 1..Len(slots) : IsRow(slots[p]) /\ \A i \in 1..Len(s.where) : Holds(s.where[i], slots[p])}

\* What a SELECT answers: slots with what is shown of them.
Answer(s, slots) == {[at |-> p, row |-> [x \in ToSet(s.cols) |-> slots[p][x]]] : p \in Selected(s, slots)}

StringOf(n) == CHOOSE w \in DOMAIN NumberOf : NumberOf[w] = n
NewValue(row, x) ==
    CASE x.op = "" -> ValueOf(x.value)
      [] x.op = "+" -> StringOf(NumberOf[row[x.from]] + NumberOf[ValueOf(x.value)])
      [] x.op = "-" -> StringOf(NumberOf[row[x.from]] - NumberOf[ValueOf(x.value)])

\* A row after the assignments of an UPDATE; of two to one column, the last.
Assigned(s, row) ==
    [x \in DOMAIN row \cup {s.set[i].col : i \in 1..Len(s.set)} |->
        LET here == {i \in 1..Len(s.set) : s.set[i].col = x}
        IN  IF here = {} THEN row[x]
            ELSE NewValue(row, s.set[CHOOSE i \in here : \A j \in here : j <= i])]

\* What an UPDATE and a DELETE do: the slots they are about and what becomes of them.
Updates(s, slots) == {[at |-> p, row |-> Assigned(s, slots[p])] : p \in Selected(s, slots)}
Deletes(s, slots) == {[at |-> p, row |-> slots[p]] : p \in Selected(s, slots)}
=============================================================================
