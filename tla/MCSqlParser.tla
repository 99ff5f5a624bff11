------------------------------ MODULE MCSqlParser ------------------------------
EXTENDS SqlParser

P(source, result) == [source |-> source, result |-> result]

\* sql_grammar.txt
SqlGrammar ==
    [names |-> <<"SQL_STMT", "CREATE_STMT", "SELECT_STMT", "INSERT_STMT", "UPDATE_STMT", "DELETE_STMT",
                 "COLUMN_LIST", "COLUMN_LIST_TAIL", "COLUMN_DEF", "DATA_TYPE", "CONSTRAINT_LIST",
                 "CONSTRAINT", "SELECT_LIST", "COLUMN_NAME_LIST", "COLUMN_NAME_LIST_TAIL", "TABLE_LIST",
                 "WHERE_CLAUSE", "CONDITION", "CONDITION_TAIL", "TERM", "OPERATOR", "VALUE", "VALUE_LIST",
                 "VALUE_LIST_TAIL", "ASSIGNMENT_LIST", "ASSIGNMENT_LIST_TAIL", "ASSIGNMENT">>,
     productions |->
       <<P("SQL_STMT", <<"CREATE_STMT", ";">>), P("SQL_STMT", <<"SELECT_STMT", ";">>),
         P("SQL_STMT", <<"INSERT_STMT", ";">>), P("SQL_STMT", <<"UPDATE_STMT", ";">>),
         P("SQL_STMT", <<"DELETE_STMT", ";">>),
         P("CREATE_STMT", <<"CREATE", "TABLE", "IDENTIFIER", "(", "COLUMN_LIST", ")">>),
         P("COLUMN_LIST", <<"COLUMN_DEF", "COLUMN_LIST_TAIL">>),
         P("COLUMN_LIST_TAIL", <<",", "COLUMN_DEF", "COLUMN_LIST_TAIL">>), P("COLUMN_LIST_TAIL", <<"^">>),
         P("COLUMN_DEF", <<"IDENTIFIER", "DATA_TYPE", "CONSTRAINT_LIST">>),
         P("DATA_TYPE", <<"INT">>), P("DATA_TYPE", <<"VARCHAR", "(", "NUMBER", ")">>),
         P("DATA_TYPE", <<"CHAR", "(", "NUMBER", ")">>), P("DATA_TYPE", <<"FLOAT">>),
         P("DATA_TYPE", <<"DOUBLE">>),
         P("CONSTRAINT_LIST", <<"CONSTRAINT", "CONSTRAINT_LIST">>), P("CONSTRAINT_LIST", <<"^">>),
         P("CONSTRAINT", <<"PRIMARY", "KEY">>), P("CONSTRAINT", <<"NOT", "NULL">>),
         P("CONSTRAINT", <<"UNIQUE">>),
         P("SELECT_STMT", <<"SELECT", "SELECT_LIST", "FROM", "TABLE_LIST", "WHERE_CLAUSE">>),
         P("SELECT_LIST", <<"*">>), P("SELECT_LIST", <<"COLUMN_NAME_LIST">>),
         P("COLUMN_NAME_LIST", <<"IDENTIFIER", "COLUMN_NAME_LIST_TAIL">>),
         P("COLUMN_NAME_LIST_TAIL", <<",", "IDENTIFIER", "COLUMN_NAME_LIST_TAIL">>),
         P("COLUMN_NAME_LIST_TAIL", <<"^">>),
         P("TABLE_LIST", <<"IDENTIFIER">>),
         P("WHERE_CLAUSE", <<"WHERE", "CONDITION">>), P("WHERE_CLAUSE", <<"^">>),
         P("CONDITION", <<"TERM", "CONDITION_TAIL">>),
         P("CONDITION_TAIL", <<"AND", "TERM", "CONDITION_TAIL">>),
         P("CONDITION_TAIL", <<"OR", "TERM", "CONDITION_TAIL">>), P("CONDITION_TAIL", <<"^">>),
         P("TERM", <<"IDENTIFIER", "OPERATOR", "VALUE">>),
         P("OPERATOR", <<"=">>), P("OPERATOR", <<"<">>), P("OPERATOR", <<">">>), P("OPERATOR", <<"<=">>),
         P("OPERATOR", <<">=">>),
         P("VALUE", <<"NUMBER">>), P("VALUE", <<"IDENTIFIER">>),
         P("INSERT_STMT", <<"INSERT", "INTO", "IDENTIFIER", "VALUES", "(", "VALUE_LIST", ")">>),
         P("VALUE_LIST", <<"VALUE", "VALUE_LIST_TAIL">>),
         P("VALUE_LIST_TAIL", <<",", "VALUE", "VALUE_LIST_TAIL">>), P("VALUE_LIST_TAIL", <<"^">>),
         P("UPDATE_STMT", <<"UPDATE", "IDENTIFIER", "SET", "ASSIGNMENT_LIST", "WHERE_CLAUSE">>),
         P("ASSIGNMENT_LIST", <<"ASSIGNMENT", "ASSIGNMENT_LIST_TAIL">>),
         P("ASSIGNMENT_LIST_TAIL", <<",", "ASSIGNMENT", "ASSIGNMENT_LIST_TAIL">>),
         P("ASSIGNMENT_LIST_TAIL", <<"^">>),
         P("ASSIGNMENT", <<"IDENTIFIER", "=", "VALUE">>),
         P("DELETE_STMT", <<"DELETE", "FROM", "IDENTIFIER", "WHERE_CLAUSE">>)>>]

\* The grammar of expressions in test.txt, with blanks between the symbols:
\* two nonterminals are left recursive.
Expressions ==
    [names |-> <<"E", "T", "F">>,
     productions |-> <<P("E", <<"E", "+", "T">>), P("E", <<"T">>),
                       P("T", <<"T", "*", "F">>), P("T", <<"F">>),
                       P("F", <<"(", "E", ")">>), P("F", <<"IDENTIFIER">>)>>]

\* What the lexer makes of a word.
Token(w) ==
    [value |-> w,
     type |-> CASE w \in {"a", "b", "t"} -> 2
                [] w \in {"1", "20"} -> 3
                [] w \in {"*", "=", "<", ">", "<=", ">=", "+"} -> 4
                [] w \in {"(", ")", ",", ";"} -> 5
                [] w \in {"Bob"} -> 6
                [] OTHER -> 1]
Tokens(words) == [i \in 1..Len(words) |-> Token(words[i])]

Statements == {
    <<"CREATE", "TABLE", "t", "(", "a", "INT", "PRIMARY", "KEY", "NOT", "NULL", ",",
      "b", "VARCHAR", "(", "20", ")", ")", ";">>,
    <<"SELECT", "*", "FROM", "t", "WHERE", "a", ">=", "1", "AND", "b", "=", "a", ";">>,
    <<"SELECT", "a", ",", "b", "FROM", "t", ";">>,
    <<"SELECT", "*", "FROM", "t", "WHERE", "b", "=", "Bob", ";">>,
    <<"INSERT", "INTO", "t", "VALUES", "(", "1", ",", "20", ")", ";">>,
    <<"UPDATE", "t", "SET", "a", "=", "1", "WHERE", "b", "<", "20", ";">>,
    <<"DELETE", "FROM", "t", "WHERE", "a", "=", "1", "OR", "a", "<=", "20", ";">>}

\* A statement and all that is one slip away from it: a word left out, written
\* twice, or changed places with the next.
Slips(s) ==
    {s} \cup {RemoveAt(s, i) : i \in 1..Len(s)}
        \cup {InsertAt(s, i, s[i]) : i \in 1..Len(s)}
        \cup {[s EXCEPT ![i] = s[i + 1], ![i + 1] = s[i]] : i \in 1..(Len(s) - 1)}

Terms == UNION {[1..n -> {"a", "+", "*", "(", ")"}] : n \in 0..4}
         \cup {<<"(", "a", "+", "b", ")", "*", "a">>, <<"(", "a", ")", "*", "a", "a">>}

MCParsed ==
    ({SqlGrammar} \X {Tokens(s) : s \in UNION {Slips(s) : s \in Statements}})
    \cup ({Expressions} \X {Tokens(s) : s \in Terms})
=============================================================================
