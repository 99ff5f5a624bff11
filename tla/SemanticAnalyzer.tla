--------------------------- MODULE SemanticAnalyzer ---------------------------
(***************************************************************************)
(* SemanticAnalyzer (semantic.cpp): the quadruples it makes of a sequence  *)
(* of tokens, or the error it throws.                                      *)
(*                                                                         *)
(* The analyzer goes through the tokens once and stops at the first thing  *)
(* it does not expect; what is left when it has all it wants it never      *)
(* looks at.  Here the positions of the parts are worked out first, and    *)
(* what is expected of them is a list of demands in the order of the code. *)
(* A SemanticError is corrected by the AI client, a runtime_error is not.  *)
(* Lists of names, which the code joins with commas and splits again, stay *)
(* lists; upper and lower case are the same here.                          *)
(***************************************************************************)
EXTENDS SqlStatements, FiniteSetsExt

None == "none"

Quad(op, arg1, arg2, result) == [op |-> op, arg1 |-> arg1, arg2 |-> arg2, result |-> result]

\* newTemp
Temp(n) == "T" \o ToString(n)

\* peek: the token at a position, if there is one.
At(toks, p) == IF p \in 1..Len(toks) THEN toks[p] ELSE [type |-> 0, value |-> ""]
Here(toks, p, value) == At(toks, p).value = value

\* expectKeyword, expectDelim, expectOp; expectIdent; expectConstOrString;
\* expectIdentOrConst.
Expect(toks, p, value) == [ok |-> Here(toks, p, value), error |-> "semantic"]
ExpectIdent(toks, p) == [ok |-> At(toks, p).type \in {1, 2}, error |-> "runtime"]
ExpectConstOrString(toks, p) == [ok |-> At(toks, p).type \in {3, 6}, error |-> "semantic"]
ExpectIdentOrConst(toks, p) == [ok |-> p <= Len(toks), error |-> "semantic"]

FirstError(demands) ==
    LET broken == {i \in 1..Len(demands) : ~demands[i].ok}
    IN  IF broken = {} THEN None ELSE demands[Min(broken)].error

Analysed(demands, quads) ==
    LET e == FirstError(demands)
    IN  IF e = None THEN [error |-> None, quads |-> quads] ELSE [error |-> e, quads |-> <<>>]

Refused(error) == [error |-> error, quads |-> <<>>]

-----------------------------------------------------------------------------
(* Lists *)

\* Names from p with a comma between each two: where they are.
NamePositions(toks, p) ==
    LET from[q \in Nat] == IF Here(toks, q + 1, ",") THEN <<q>> \o from[q + 2] ELSE <<q>>
    IN  from[p]

Values(toks, positions) == [i \in 1..Len(positions) |-> At(toks, positions[i]).value]

\* parseColumnList, parseValueList: whatever there is up to the next ")", the
\* values of the tokens run together between commas.  "end" is 0 without one.
Group(toks, p) ==
    LET ends == {q \in p..Len(toks) : Here(toks, q, ")")}
        end == IF ends = {} THEN 0 ELSE Min(ends)
        join(text, t) == IF t.value = "," THEN Append(text, "") ELSE [text EXCEPT ![Len(text)] = @ \o t.value]
    IN  [end |-> end,
         items |-> IF end \in {0, p} THEN <<>> ELSE FoldLeft(join, <<"">>, SubSeq(toks, p, end - 1))]

-----------------------------------------------------------------------------
(* Conditions: parseOr, parseAnd, parseComparison and parseOperand *)

\* A comparison, or a single operand that is taken for one, and what joins it
\* to the next.
IsCompared(toks, p) == At(toks, p + 1).value \in {"=", ">", "<", ">=", "<="} /\ At(toks, p).type # 0
EndOfTest(toks, p) == IF IsCompared(toks, p) THEN p + 3 ELSE p + 1
JoinAt(toks, end) == IF At(toks, end).value \in {"AND", "OR"} THEN At(toks, end).value ELSE None

Comparison(toks, p, end) ==
    [left |-> At(toks, p).value, op |-> IF end = p + 3 THEN At(toks, p + 1).value ELSE None,
     right |-> At(toks, p + 2).value, end |-> end, join |-> JoinAt(toks, end),
     demand |-> [ok |-> end - 1 <= Len(toks), error |-> "semantic"]]

Comparisons(toks, p) ==
    LET from[q \in Nat] ==
            <<Comparison(toks, q, EndOfTest(toks, q))>>
            \o (IF JoinAt(toks, EndOfTest(toks, q)) = None THEN <<>> ELSE from[EndOfTest(toks, q) + 1])
    IN  from[p]

\* The state of the two loops: quadruples so far, the next temporary, what
\* stands left of the OR and of the AND that are being read.
Emit(s, op, arg1, arg2) ==
    [s EXCEPT !.quads = Append(@, Quad(op, arg1, arg2, Temp(s.next))), !.next = @ + 1]

\* A comparison's result: its temporary, or the operand itself.
Read(s, c) ==
    IF c.op = None THEN [s EXCEPT !.read = c.left]
    ELSE [Emit(s, c.op, c.left, c.right) EXCEPT !.read = Temp(s.next)]

CloseOr(s) ==
    IF s.or = None THEN [s EXCEPT !.or = s.and]
    ELSE [Emit(s, "OR", s.or, s.and) EXCEPT !.or = Temp(s.next)]

\* Mutant of ReadJoined: AND binds no closer than OR.
ReadInOrder(s, join, c) ==
    LET r == Read(s, c)
    IN  IF join = None THEN [r EXCEPT !.and = r.read]
        ELSE [Emit(r, join, r.and, r.read) EXCEPT !.and = Temp(r.next)]

ReadJoined(s, join, c) ==
    IF join = "AND"
    THEN LET r == Read(s, c) IN [Emit(r, "AND", r.and, r.read) EXCEPT !.and = Temp(r.next)]
    ELSE LET r == Read(IF join = "OR" THEN CloseOr(s) ELSE s, c) IN [r EXCEPT !.and = r.read]

\* parseOr: the state it ends in, its result in "or".
ParseOr(cs, next) ==
    LET s0 == [quads |-> <<>>, next |-> next, or |-> None, and |-> None, read |-> None]
        step(s, i) == ReadJoined(s, IF i = 1 THEN None ELSE cs[i - 1].join, cs[i])
    IN  CloseOr(FoldLeft(step, s0, [i \in 1..Len(cs) |-> i]))

-----------------------------------------------------------------------------
(* Data: each handler numbers its temporaries from 1, FROM being T1 *)

\* Names, FROM, a table, perhaps the comparisons cs of a WHERE, perhaps ORDER BY.
SelectDemands(toks, names, from, cs, end) ==
    [i \in 1..Len(names) |-> ExpectIdent(toks, names[i])]
    \o <<Expect(toks, from, "FROM"), ExpectIdent(toks, from + 1)>>
    \o [i \in 1..Len(cs) |-> cs[i].demand]
    \o (IF Here(toks, end, "ORDER")
        THEN <<Expect(toks, end + 1, "BY"), ExpectIdent(toks, end + 2)>> ELSE <<>>)

FilterQuads(c) == Append(c.quads, Quad("WHERE", "T1", c.or, Temp(c.next)))

\* What stands on the rows of temporary n.
SelectQuads(toks, names, end, n) ==
    <<Quad("SELECT", Values(toks, names), Temp(n), Temp(n + 1))>>
    \o (IF Here(toks, end, "ORDER")
        THEN <<Quad("ORDER", At(toks, end + 2).value, Temp(n + 1), Temp(n + 2)),
               Quad("RESULT", Temp(n + 2), "-", "-")>>
        ELSE <<Quad("RESULT", Temp(n + 1), "-", "-")>>)

SelectFrom(toks, names, from, cs, end) ==
    Analysed(SelectDemands(toks, names, from, cs, end),
             <<Quad("FROM", At(toks, from + 1).value, "-", "T1")>>
             \o (IF cs = <<>> THEN SelectQuads(toks, names, end, 1)
                 ELSE FilterQuads(ParseOr(cs, 2)) \o SelectQuads(toks, names, end, ParseOr(cs, 2).next)))

HandleSelect(toks) ==
    LET names == NamePositions(toks, 2)
        from == Last(names) + 1
        cs == IF Here(toks, from + 2, "WHERE") THEN Comparisons(toks, from + 3) ELSE <<>>
    IN  SelectFrom(toks, names, from, cs, IF cs = <<>> THEN from + 2 ELSE Last(cs).end)

\* A list that is not given is an empty string; "()" is not.
HandleInsert(toks) ==
    LET named == Here(toks, 4, "(")
        cols == Group(toks, 5)
        key == IF named THEN cols.end + 1 ELSE 4
        given == Here(toks, key + 1, "(")
        vals == Group(toks, key + 2)
    IN  Analysed(
          <<Expect(toks, 1, "INSERT"), Expect(toks, 2, "INTO"), ExpectIdentOrConst(toks, 3)>>
          \o (IF named THEN <<[ok |-> cols.end # 0, error |-> "semantic"]>> ELSE <<>>)
          \o <<Expect(toks, key, "VALUES")>>
          \o (IF given THEN <<[ok |-> vals.end # 0, error |-> "semantic"]>> ELSE <<>>),
          <<Quad("FROM", At(toks, 3).value, "-", "T1"),
            Quad("VALUES", [given |-> given, items |-> vals.items],
                           [given |-> named, items |-> cols.items], "T2"),
            Quad("INSERT", "T1", "T2", "T3"), Quad("RESULT", "T3", "-", "-")>>)

\* The WHERE of an UPDATE or a DELETE: one comparison, an equality.
Where(toks, p) ==
    [is |-> Here(toks, p, "WHERE"),
     demands |-> IF Here(toks, p, "WHERE")
                 THEN <<ExpectIdent(toks, p + 1), Expect(toks, p + 2, "="), ExpectConstOrString(toks, p + 3)>>
                 ELSE <<>>,
     quads |-> IF Here(toks, p, "WHERE")
               THEN <<Quad("=", At(toks, p + 1).value, At(toks, p + 3).value, "T2"),
                      Quad("WHERE", "T1", "T2", "T3")>>
               ELSE <<>>]

\* The assignments of an UPDATE from p on.  An operator is looked for where a
\* value begins, so "x = x + 1" is read as "x = x", and the rest is not read.
Assignment(toks, p) ==
    LET signed == At(toks, p + 2).value \in {"+", "-", "*", "/"}
        end == IF signed THEN p + 4 ELSE p + 3
    IN  [col |-> At(toks, p).value, end |-> end, more |-> Here(toks, end, ","),
         value |-> IF signed THEN At(toks, p + 2).value \o At(toks, p + 3).value ELSE At(toks, p + 2).value,
         demands |-> <<ExpectIdent(toks, p), Expect(toks, p + 1, "="), ExpectIdentOrConst(toks, end - 1)>>]

Assignments(toks, p) ==
    LET from[q \in Nat] ==
            LET x == Assignment(toks, q) IN IF x.more THEN <<x>> \o from[x.end + 1] ELSE <<x>>
    IN  from[p]

\* Mutant of UpdateSource: the rows are those of the table.
UpdateTable(where) == "T1"
UpdateSource(where) == IF where.is THEN "T3" ELSE "T1"

\* One SET for each assignment; UPDATE has the last of them.
HandleUpdate(toks) ==
    LET set == Assignments(toks, 4)
        where == Where(toks, Last(set).end)
        n == (IF where.is THEN 3 ELSE 1)
    IN  Analysed(
          <<Expect(toks, 1, "UPDATE"), ExpectIdent(toks, 2), Expect(toks, 3, "SET")>>
          \o FlattenSeq([i \in 1..Len(set) |-> set[i].demands]) \o where.demands,
          <<Quad("FROM", At(toks, 2).value, "-", "T1")>> \o where.quads
          \o [i \in 1..Len(set) |-> Quad("SET", set[i].col, set[i].value, Temp(n + i))]
          \o <<Quad("UPDATE", UpdateSource(where), Temp(n + Len(set)), Temp(n + Len(set) + 1)),
               Quad("RESULT", Temp(n + Len(set) + 1), "-", "-")>>)

HandleDelete(toks) ==
    LET where == Where(toks, 4)
        n == IF where.is THEN 3 ELSE 1
    IN  Analysed(
          <<Expect(toks, 1, "DELETE"), Expect(toks, 2, "FROM"), ExpectIdent(toks, 3)>> \o where.demands,
          <<Quad("FROM", At(toks, 3).value, "-", "T1")>> \o where.quads
          \o <<Quad("DELETE", "-", Temp(n), Temp(n + 1)), Quad("RESULT", Temp(n + 1), "-", "-")>>)

-----------------------------------------------------------------------------
(* Definitions *)

\* The constraints from p on, as far as they are known where they stand, and
\* an end.
Constraints(toks, p, known) ==
    LET from[q \in Nat] ==
            LET word == At(toks, q).value
            IN  IF word \notin known THEN <<[is |-> None, at |-> q]>>
                ELSE <<[is |-> word, at |-> q]>> \o from[IF word = "UNIQUE" THEN q + 1 ELSE q + 2]
    IN  from[p]

ConstraintDemand(toks, c) ==
    CASE c.is = "PRIMARY" -> <<Expect(toks, c.at + 1, "KEY")>>
      [] c.is = "NOT" -> <<Expect(toks, c.at + 1, "NULL")>>
      [] c.is = "DEFAULT" -> <<ExpectConstOrString(toks, c.at + 1)>>
      [] OTHER -> <<>>

\* A column definition at p; its length is -1 if none is written.
ColumnAt(toks, p, known) ==
    LET sized == Here(toks, p + 2, "(")
        cs == Constraints(toks, IF sized THEN p + 5 ELSE p + 2, known)
        end == Last(cs).at
    IN  [name |-> At(toks, p).value, type |-> At(toks, p + 1).value,
         length |-> IF sized THEN At(toks, p + 3).value ELSE "-1",
         constraints |-> cs, end |-> end,
         demands |-> <<ExpectIdent(toks, p), ExpectIdent(toks, p + 1)>>
                     \o (IF sized THEN <<ExpectConstOrString(toks, p + 3), Expect(toks, p + 4, ")")>> ELSE <<>>)
                     \o FlattenSeq([i \in 1..Len(cs) |-> ConstraintDemand(toks, cs[i])])]

\* After a column there is a comma, the closing bracket, or, for all the code
\* cares, neither of them and another column.
ColumnsAt(toks, p) ==
    LET from[q \in Nat] ==
            LET c == ColumnAt(toks, q, {"PRIMARY", "NOT", "UNIQUE"})
            IN  IF FirstError(c.demands) # None \/ (~Here(toks, c.end, ",") /\ Here(toks, c.end, ")"))
                THEN <<c>>
                ELSE <<c>> \o from[IF Here(toks, c.end, ",") THEN c.end + 1 ELSE c.end]
    IN  from[p]

NamesWith(columns, constraint) ==
    FlattenSeq([i \in 1..Len(columns) |->
        LET cs == SelectSeq(columns[i].constraints, LAMBDA k : k.is = constraint)
        IN  [j \in 1..Len(cs) |-> columns[i].name]])

Definitions(columns) ==
    LET list(f) == [i \in 1..Len(columns) |-> columns[i][f]]
    IN  <<Quad("COLUMN_NAME", list("name"), <<>>, "T1"), Quad("COLUMN_TYPE", list("type"), list("length"), "T2"),
          Quad("COLUMNS", "T1", "T2", "T3")>>

\* The constraint quadruples there are, T5 and on.
QuadOf == [PRIMARY |-> "PRIMARY", NOT |-> "NOT_NULL", UNIQUE |-> "UNIQUE", DEFAULT |-> "DEFAULT"]

ConstraintQuads(table, columns) ==
    LET words == SelectSeq(<<"PRIMARY", "NOT", "UNIQUE">>, LAMBDA k : NamesWith(columns, k) # <<>>)
    IN  [i \in 1..Len(words) |-> Quad(QuadOf[words[i]], table, NamesWith(columns, words[i]), Temp(4 + i))]

HandleCreateTable(toks) ==
    LET columns == ColumnsAt(toks, 5)
    IN  Analysed(
          <<Expect(toks, 1, "CREATE"), Expect(toks, 2, "TABLE"), ExpectIdent(toks, 3), Expect(toks, 4, "(")>>
          \o FlattenSeq([i \in 1..Len(columns) |-> columns[i].demands]),
          Definitions(columns) \o <<Quad("CREATE_TABLE", At(toks, 3).value, "T3", "T4")>>
          \o ConstraintQuads(At(toks, 3).value, columns))

\* A quadruple for each constraint; nobody knows what to do with DEFAULT.
HandleAddColumn(toks) ==
    LET c == ColumnAt(toks, 6, {"NOT", "UNIQUE", "DEFAULT"})
    IN  Analysed(
          <<Expect(toks, 5, "COLUMN")>> \o c.demands,
          Definitions(<<c>>) \o <<Quad("ADD_COLUMN", At(toks, 3).value, "T3", "T4")>>
          \o [i \in 1..(Len(c.constraints) - 1) |->
                Quad(QuadOf[c.constraints[i].is], At(toks, 3).value, <<c.name>>, Temp(4 + i))]
          \o <<Quad("RESULT", "T4", "-", "-")>>)

HandleAlterTable(toks) ==
    CASE ~Here(toks, 2, "TABLE") -> Refused("semantic")
      [] At(toks, 3).type \notin {1, 2} -> Refused("runtime")
      [] Here(toks, 4, "ADD") -> HandleAddColumn(toks)
      [] Here(toks, 4, "DROP") ->
            Analysed(<<Expect(toks, 5, "COLUMN"), ExpectIdent(toks, 6)>>,
                     <<Quad("DROP_COLUMN", At(toks, 3).value, <<At(toks, 6).value>>, "T1"),
                       Quad("RESULT", "T1", "-", "-")>>)
      [] OTHER -> Refused("semantic")

HandleDropTable(toks) ==
    LET guarded == Here(toks, 3, "IF")
        at == IF guarded THEN 5 ELSE 3
    IN  Analysed(
          <<Expect(toks, 2, "TABLE")>> \o (IF guarded THEN <<Expect(toks, 4, "EXISTS")>> ELSE <<>>)
          \o <<ExpectIdent(toks, at)>>,
          <<Quad("CHECK_TABLE", At(toks, at).value, "_", "T1"), Quad("DROP_TABLE", At(toks, at).value, "_", "T2"),
            Quad("RESULT", "T2", "-", "-")>>)

HandleCreateDatabase(toks) ==
    Analysed(<<Expect(toks, 2, "DATABASE"), ExpectIdent(toks, 3)>>,
             <<Quad("CREATE_DB", At(toks, 3).value, "_", "T1"), Quad("RESULT", "T1", "-", "-")>>)

\* CREATE USER name IDENTIFIED BY 'password': LoginManager::registerUser, no quadruples.
IsCreateUser(toks) == Len(toks) >= 4 /\ Here(toks, 1, "CREATE") /\ Here(toks, 2, "USER")
CreateUser(toks) ==
    Analysed(<<[ok |-> Len(toks) >= 6, error |-> "semantic"], Expect(toks, 4, "IDENTIFIED"), Expect(toks, 5, "BY")>>,
             <<>>)

-----------------------------------------------------------------------------

\* analyze
Analyze(toks) ==
    CASE IsCreateUser(toks) -> CreateUser(toks)
      [] Here(toks, 1, "CREATE") -> IF Here(toks, 2, "TABLE") THEN HandleCreateTable(toks)
                                    ELSE HandleCreateDatabase(toks)
      [] Here(toks, 1, "SELECT") -> HandleSelect(toks)
      [] Here(toks, 1, "INSERT") -> HandleInsert(toks)
      [] Here(toks, 1, "UPDATE") -> HandleUpdate(toks)
      [] Here(toks, 1, "DELETE") -> HandleDelete(toks)
      [] Here(toks, 1, "ALTER") -> HandleAlterTable(toks)
      [] Here(toks, 1, "DROP") -> HandleDropTable(toks)
      [] OTHER -> Refused("semantic")
=============================================================================
