----------------------------- MODULE MCSqlCompiler -----------------------------
(* A table of two columns, id with an index and age without, and statements *)
(* of one or two comparisons of every kind, or of three plain ones, sent    *)
(* after none, INSERTs, a DELETE, UPDATEs, or an INSERT that fails.         *)
EXTENDS SqlCompiler

MCNumberOf == [s \in {"-1", "0", "1", "2", "3"} |->
                 CASE s = "-1" -> -1 [] s = "0" -> 0 [] s = "1" -> 1 [] s = "2" -> 2 [] s = "3" -> 3]

Test1(col, op, value) == [col |-> col, op |-> op, value |-> value]
PlainTests == {Test1(c, o, Number(n)) : c \in {"id", "age"}, o \in {"=", ">"}, n \in {"1", "2"}}
AllTests == PlainTests \cup {Test1("age", "<", Number("2")), Test1("age", ">=", Number("2")),
                             Test1("age", "<=", Number("1")),
                             Test1("age", "=", Negative("1")), Test1("age", ">", Quoted("x"))}
FewTests == {Test1("id", "=", Number("2")), Test1("age", ">", Number("1")), Test1("age", "=", Number("2"))}
Joins == {"AND", "OR"}

Where1(tests, joins, bracketed) == <<[tests |-> tests, joins |-> joins, bracketed |-> bracketed]>>
SingleWheres == {<<>>} \cup {Where1(<<t>>, <<>>, b) : t \in AllTests, b \in BOOLEAN}
DoubleWheres == {Where1(<<t, u>>, <<j>>, FALSE) : t, u \in AllTests, j \in Joins}
TripleWheres == {Where1(<<t, u, v>>, <<j, k>>, FALSE) : t, u, v \in FewTests, j, k \in Joins}
FewWheres == SingleWheres \cup {Where1(<<t, u>>, <<j>>, FALSE) : t, u \in FewTests, j \in Joins}

SelectOf(name, where) ==
    [kind |-> "select", all |-> FALSE, cols |-> <<"id", "age">>, table |-> name, where |-> where, order |-> <<>>]
Selects ==
    {SelectOf("t", w) : w \in SingleWheres \cup DoubleWheres \cup TripleWheres}
    \cup {SelectOf("missing", <<>>),
          [SelectOf("t", <<>>) EXCEPT !.all = TRUE],
          [SelectOf("t", <<>>) EXCEPT !.order = <<"age">>],
          [SelectOf("t", <<>>) EXCEPT !.cols = <<"age">>],
          [SelectOf("t", <<>>) EXCEPT !.cols = <<"none">>]}

To(col, value) == [col |-> col, from |-> col, op |-> "", value |-> value]
Plus(col) == [To(col, Number("1")) EXCEPT !.op = "+"]
UpdateOf(set, where) == [kind |-> "update", table |-> "t", set |-> set, where |-> where]
UpdatesOf(sets) == {UpdateOf(set, w) : set \in sets, w \in FewWheres}
SingleSets == {<<To("age", Number("3"))>>, <<To("age", Negative("1"))>>}
OtherSets == {<<To("age", Number("3")), To("id", Number("3"))>>, <<Plus("age")>>, <<To("id", Number("3"))>>}

DeletesOf == {[kind |-> "delete", table |-> "t", where |-> w] : w \in FewWheres}

InsertOf(cols, values) == [kind |-> "insert", table |-> "t", cols |-> cols, values |-> values]
Inserts == {InsertOf(<<"id", "age">>, <<Number("3"), Negative("1")>>),
            InsertOf(<<>>, <<Number("3"), Number("1")>>),
            InsertOf(<<"id", "age">>, <<Number("3")>>)}

Record(id, age) == InsertOf(<<"id", "age">>, <<Number(id), Number(age)>>)
Deletion(id) == [kind |-> "delete", table |-> "t",
                 where |-> Where1(<<Test1("id", "=", Number(id))>>, <<>>, FALSE)]
Ageing(age, test) == UpdateOf(<<To("age", Number(age))>>, Where1(<<test>>, <<>>, FALSE))

ThreeRows == <<Record("1", "2"), Record("2", "1"), Record("3", "2")>>
MCSession ==
    {<<>>,
     ThreeRows,
     Append(ThreeRows, Deletion("2")),
     \* id 2 is entered at the slot of id 1, twice;
     ThreeRows \o <<Ageing("1", Test1("id", "=", Number("2"))), Ageing("1", Test1("age", "=", Number("1")))>>,
     \* id 1 is entered at a slot that is empty;
     <<Record("1", "1"), Record("2", "2"), Ageing("2", Test1("id", "=", Number("1")))>>,
     \* a record without an id is left behind.
     <<Record("1", "1"), InsertOf(<<"age">>, <<Number("2")>>), Record("2", "2")>>}

ColumnOf(name, type, length, constraints) ==
    [name |-> name, type |-> type, length |-> length, constraints |-> constraints]
ConstraintLists == {<<>>, <<"PRIMARY">>, <<"NOT", "UNIQUE">>}
Definitions1 ==
    {[kind |-> "create_table", table |-> "u",
      columns |-> <<ColumnOf("id", "INT", <<>>, c), ColumnOf("name", "VARCHAR", <<Constant("8")>>, d)>>] :
        c, d \in ConstraintLists}
    \cup {[kind |-> "add_column", table |-> "t", column |-> ColumnOf("x", "INT", <<>>, c)] : c \in ConstraintLists}
    \cup {[kind |-> "drop_column", table |-> "t", column |-> "age"],
          [kind |-> "drop_table", table |-> "t", ifExists |-> TRUE],
          [kind |-> "drop_table", table |-> "t", ifExists |-> FALSE]}

CreateUserStatement == [kind |-> "create_user", name |-> "eve", password |-> "pw"]
CreateDatabaseStatement == [kind |-> "create_database", name |-> "d"]
Others == {CreateUserStatement, CreateDatabaseStatement,
           [kind |-> "other", tokens |-> <<Identifier("SELEKT"), Identifier("id")>>],
           [kind |-> "other", tokens |-> <<Keyword("SELECT"), Identifier("id"), Keyword("WHERE")>>]}

MCStatement == Selects \cup UpdatesOf(SingleSets \cup OtherSets) \cup DeletesOf
               \cup Inserts \cup Definitions1 \cup Others
MCCorrection == {SelectOf("t", Where1(<<Test1("age", "=", Number("2"))>>, <<>>, FALSE)),
                 [kind |-> "delete", table |-> "t", where |-> <<>>]}
=============================================================================
