------------------------------- MODULE SqlParser -------------------------------
(***************************************************************************)
(* SQLParser::start_parser of parser.cpp, once for one statement: it loads *)
(* the statement's terminals, reads the grammar file, removes direct left  *)
(* recursion, computes FIRST and FOLLOW, builds the LL(1) table and runs   *)
(* the table over the tokens.                                              *)
(*                                                                         *)
(* A grammar file is [names, productions]: the names on its first line and *)
(* its productions [source, result], one for each alternative.  Names are  *)
(* strings and a string is the sequence of its characters, because the     *)
(* first line is read into a buffer of BufferSize characters.              *)
(***************************************************************************)
EXTENDS Integers, Sequences, FiniteSets, SequencesExt, FiniteSetsExt, TLC

CONSTANTS
    Parsed,      \* the <<grammar file, tokens>> that start_parser is run on
    BufferSize,  \* the buffer of read_grammar (256)
    MaxAmount    \* MAX_AMOUNT, the size of the stack (50)

ASSUME SizesAssumption == BufferSize \in Nat \ {0} /\ MaxAmount \in Nat \ {0, 1}
ASSUME FilesAssumption ==
    \A x \in Parsed : /\ x[1].names # <<>>
                      /\ \A i \in DOMAIN x[1].productions : x[1].productions[i].result # <<>>

VARIABLES
    grammar,       \* the grammar file
    tokens,        \* the statement
    phase,         \* what start_parser does next
    names,         \* the nonterminals, in the order of their list
    productions,   \* the list of productions
    terminals,     \* terminal_all
    processed,     \* processed_nonterminals of eliminate_left_recursion
    first,         \* nonterminal -> FIRST
    follow,        \* nonterminal -> FOLLOW
    table,         \* <<nonterminal, terminal>> -> the number of a production
    stack,         \* TEST_STACK[0 .. amount]
    inputPos,      \* input_pos, counted from 1
    verdict        \* what is printed at the end

vars == <<grammar, tokens, phase, names, productions, terminals, processed, first, follow,
          table, stack, inputPos, verdict>>
lists == <<grammar, tokens, terminals, table, stack, inputPos, verdict>>
tables == <<grammar, tokens, names, productions, terminals, processed, first, follow>>

Empty == "^"
End == "#"

NothingIsLoaded ==
    /\ names = <<>> /\ productions = <<>> /\ terminals = {} /\ processed = {}
    /\ first = <<>> /\ follow = <<>> /\ table = <<>>
    /\ stack = <<>>

Init ==
    /\ \E x \in Parsed : grammar = x[1] /\ tokens = x[2]
    /\ phase = "load"
    /\ NothingIsLoaded
    /\ inputPos = 1
    /\ verdict = "none"

-----------------------------------------------------------------------------
(* Reading the statement and the grammar. *)

\* token_to_terminal: a text constant stands for itself, like a keyword.
Terminal(token) ==
    CASE token.type = 2 -> "IDENTIFIER"
      [] token.type = 3 -> "NUMBER"
      [] OTHER -> token.value

Symbols(statement) == [i \in 1..Len(statement) |-> Terminal(statement[i])]

\* The last character of the k-th name of a line of names, blanks between them.
LastColumn(line, k) == FoldFunctionOnSet(+, k - 1, [j \in 1..k |-> Len(line[j])], 1..k)

\* fgets fills the buffer with BufferSize - 1 characters: the name at its end
\* is cut, and the rest of the line is later skipped as a line without "->".
NamesRead(line) ==
    LET room == BufferSize - 1
        whole == {k \in 1..Len(line) : LastColumn(line, k) <= room}
        n == Cardinality(whole)
        start == IF n = 0 THEN 0 ELSE LastColumn(line, n) + 1
    IN  SubSeq(line, 1, n) \o
        (IF n < Len(line) /\ start < room THEN <<SubSeq(line[n + 1], 1, room - start)>> ELSE <<>>)

NoSets(nts) == [A \in ToSet(nts) |-> {}]

\* load_terminals_from_tokens, read_grammar
Load ==
    /\ phase = "load"
    /\ terminals' = ToSet(Symbols(tokens)) \cup {End, Empty}
    /\ names' = NamesRead(grammar.names)
    /\ productions' = grammar.productions
    /\ first' = NoSets(names')
    /\ follow' = NoSets(names')
    /\ phase' = "eliminate"
    /\ UNCHANGED <<grammar, tokens, processed, table, stack, inputPos, verdict>>

-----------------------------------------------------------------------------
(* eliminate_left_recursion *)

LeftRecursive(p) == p.result[1] = p.source

\* The productions of A become A -> beta A' and A' -> alpha A' | ^.  They move
\* to the end of the list.
Eliminated(list, A, new) ==
    LET P(source, result) == [source |-> source, result |-> result]
        of(recursive) == SelectSeq(list, LAMBDA p : p.source = A /\ LeftRecursive(p) = recursive)
        others == SelectSeq(list, LAMBDA p : p.source # A)
        betas == [i \in 1..Len(of(FALSE)) |-> P(A, Append(of(FALSE)[i].result, new))]
        alphas == [i \in 1..Len(of(TRUE)) |-> P(new, Append(Tail(of(TRUE)[i].result), new))]
    IN  others \o (IF betas = <<>> THEN <<P(A, <<new>>)>> ELSE betas)
               \o alphas \o <<P(new, <<Empty>>)>>

\* The productions that show a left recursion still to be removed.
Recursive ==
    {i \in 1..Len(productions) :
        LeftRecursive(productions[i]) /\ productions[i].source \notin processed}

\* The new name gets quotes until no nonterminal has it.
NewName(A) ==
    LET name[n \in 1..(Len(names) + 1)] == IF n = 1 THEN A \o "'" ELSE name[n - 1] \o "'"
    IN  name[Min({n \in DOMAIN name : name[n] \notin ToSet(names)})]

EliminateOne ==
    /\ phase = "eliminate"
    /\ Recursive # {}
    /\ LET A == productions[Min(Recursive)].source
           new == NewName(A)
       IN  /\ productions' = Eliminated(productions, A, new)
           /\ names' = Append(names, new)
           /\ processed' = processed \cup {A}
           /\ first' = NoSets(names')
           /\ follow' = NoSets(names')
    /\ UNCHANGED <<lists, phase>>

EndElimination ==
    /\ phase = "eliminate"
    /\ Recursive = {}
    /\ phase' = "first"
    /\ UNCHANGED <<lists, names, productions, processed, first, follow>>

-----------------------------------------------------------------------------
(* prediction, find_first, find_follow *)

IsTerminal(X) == X \in terminals
IsName(X) == X \in DOMAIN first
Nullable(X) == ~IsTerminal(X) /\ IsName(X) /\ Empty \in first[X]

\* What symbols can begin with: all that comes before
\* symbol i can be empty.  A symbol that is neither a terminal of this
\* statement nor a nonterminal ends the search.
FirstOf(symbols) ==
    LET reached == {i \in 1..(Len(symbols) + 1) : \A j \in 1..(i - 1) : Nullable(symbols[j])}
        begins(X) == IF IsTerminal(X) THEN {X} ELSE IF IsName(X) THEN first[X] \ {Empty} ELSE {}
    IN  UNION {begins(symbols[i]) : i \in reached \ {Len(symbols) + 1}}
        \cup (IF Len(symbols) + 1 \in reached THEN {Empty} ELSE {})

Of(A) == {p \in ToSet(productions) : p.source = A}
FindFirst(A) == first[A] \cup UNION {FirstOf(p.result) : p \in Of(A)}

\* What can come after the nonterminal B in the production p.
FollowIn(B, p) ==
    LET rest(i) == FirstOf(SubSeq(p.result, i + 1, Len(p.result)))
        after(i) == (rest(i) \ {Empty})
                    \cup (IF Empty \in rest(i) /\ IsName(p.source) THEN follow[p.source] ELSE {})
    IN  UNION {after(i) : i \in {j \in 1..Len(p.result) : p.result[j] = B}}

Found(B) == follow[B] \cup UNION {FollowIn(B, p) : p \in ToSet(productions)}

\* Mutant of FindFollow: nothing follows the start symbol.
FindFollowWithoutEnd(B) == Found(B)

FindFollow(B) == Found(B) \cup (IF B = names[1] THEN {End} ELSE {})

\* A round of calls, one for each nonterminal, is repeated while a set has
\* grown.  (In the code a call sees what the calls before it in the same round
\* have added, which saves rounds and ends with the same sets.)
FirstRound == [A \in ToSet(names) |-> FindFirst(A)]
FollowRound == [B \in ToSet(names) |-> FindFollow(B)]

\* Mutant of FirstPass: "changed" is never reset.
FirstPassForEver ==
    /\ phase = "first"
    /\ first' = FirstRound
    /\ phase' = IF first' = NoSets(names) THEN "follow" ELSE "first"
    /\ UNCHANGED <<lists, names, productions, processed, follow>>

FirstPass ==
    /\ phase = "first"
    /\ first' = FirstRound
    /\ phase' = IF first' = first THEN "follow" ELSE "first"
    /\ UNCHANGED <<lists, names, productions, processed, follow>>

FollowPass ==
    /\ phase = "follow"
    /\ follow' = FollowRound
    /\ phase' = IF follow' = follow THEN "table" ELSE "follow"
    /\ UNCHANGED <<lists, names, productions, processed, first>>

-----------------------------------------------------------------------------
(* prediction_table *)

\* compute_first_of_string: other than find_first, it passes over a symbol
\* that is neither a terminal of this statement nor a nonterminal.
FirstOfString(symbols) ==
    LET unknown(X) == ~IsTerminal(X) /\ ~IsName(X)
        known == SelectSeq(symbols, LAMBDA X : ~unknown(X))
    IN  IF unknown(Last(symbols)) THEN FirstOf(known) \ {Empty} ELSE FirstOf(known)

\* The terminals on which production p is predicted.
Predicted(p) ==
    terminals \cap
        ((FirstOfString(p.result) \ {Empty})
         \cup (IF Empty \in FirstOfString(p.result) /\ IsName(p.source) THEN follow[p.source] ELSE {}))

\* Of two productions with the same entry the later one stays.
BuildTable ==
    /\ phase = "table"
    /\ LET predicted == [k \in 1..Len(productions) |-> Predicted(productions[k])]
           for(key) == {k \in 1..Len(productions) : productions[k].source = key[1] /\ key[2] \in predicted[k]}
           keys == UNION {{productions[k].source} \X predicted[k] : k \in 1..Len(productions)}
       IN  table' = [key \in keys |-> Max(for(key))]
    /\ stack' = <<End, names[1]>>
    /\ phase' = "analyze"
    /\ UNCHANGED <<tables, inputPos, verdict>>

-----------------------------------------------------------------------------
(* analyze_input *)

Input == Append(Symbols(tokens), End)
Analyzes == phase = "analyze" /\ Len(stack) > 1 /\ inputPos <= Len(Input)
Top == Last(stack)
Key == <<Top, Input[inputPos]>>
RightSide == productions[table[Key]].result

Match ==
    /\ Analyzes
    /\ IsTerminal(Top) /\ Top = Input[inputPos]
    /\ stack' = Front(stack)
    /\ inputPos' = inputPos + 1
    /\ UNCHANGED <<tables, table, phase, verdict>>

\* Mutant of Pushed: the nonterminal stays under its right side.
PushedOver(result) == IF result = <<Empty>> THEN stack ELSE stack \o Reverse(result)

\* The right side replaces the top, its first symbol uppermost.
Pushed(result) == Front(stack) \o (IF result = <<Empty>> THEN <<>> ELSE Reverse(result))

\* A push on a full stack empties every list of the parser and then goes on
\* writing to the emptied stack: what happens then is undefined.
Expand ==
    /\ Analyzes
    /\ ~IsTerminal(Top) /\ Key \in DOMAIN table
    /\ stack' = Pushed(RightSide)
    /\ phase' = IF Len(stack') > MaxAmount THEN "undefined" ELSE "analyze"
    /\ UNCHANGED <<tables, table, inputPos, verdict>>

\* The analysis is over, one way or the other, and emergency(0) empties
\* everything.
Conclude(answer) ==
    /\ verdict' = answer
    /\ phase' = "done"
    /\ names' = <<>> /\ productions' = <<>> /\ terminals' = {} /\ processed' = {}
    /\ first' = <<>> /\ follow' = <<>> /\ table' = <<>>
    /\ stack' = <<>>
    /\ UNCHANGED <<grammar, tokens, inputPos>>

Reject ==
    /\ Analyzes
    /\ IF IsTerminal(Top) THEN Top # Input[inputPos] ELSE Key \notin DOMAIN table
    /\ Conclude("rejected")

LeaveLoop ==
    /\ phase = "analyze" /\ ~Analyzes
    /\ Conclude(IF Len(stack) = 1 /\ inputPos = Len(Input) THEN "accepted" ELSE "rejected")

Next ==
    \/ Load
    \/ EliminateOne \/ EndElimination
    \/ FirstPass \/ FollowPass
    \/ BuildTable
    \/ Match \/ Expand \/ Reject
    \/ LeaveLoop

\* start_parser runs in the thread of its client and waits for nothing.
Spec == Init /\ [][Next]_vars /\ WF_vars(Next)

-----------------------------------------------------------------------------
(***************************************************************************)
(* What the grammar file means, whatever the parser makes of it.  The      *)
(* triple <<A, i, j>> says that A derives the symbols i + 1 .. j of w.     *)
(***************************************************************************)
MoreSpans(file, w, spans) ==
    LET sources == {file.productions[k].source : k \in DOMAIN file.productions}
        over(X, i) ==
            IF X = Empty THEN {i}
            ELSE IF X \in sources THEN {s[3] : s \in {t \in spans : t[1] = X /\ t[2] = i}}
            ELSE IF i < Len(w) /\ w[i + 1] = X THEN {i + 1}
            ELSE {}
        ends(result, i) == FoldLeft(LAMBDA at, X : UNION {over(X, j) : j \in at}, {i}, result)
        from(p) == UNION {{<<p.source, i, j>> : j \in ends(p.result, i)} : i \in 0..Len(w)}
    IN  UNION {from(p) : p \in ToSet(file.productions)}

RECURSIVE SpansFrom(_, _, _)
SpansFrom(file, w, spans) ==
    LET more == MoreSpans(file, w, spans)
    IN  IF more = spans THEN spans ELSE SpansFrom(file, w, more)

\* The statement is derived from the first nonterminal.
IsSentence ==
    LET w == Symbols(tokens) IN <<grammar.names[1], 0, Len(w)>> \in SpansFrom(grammar, w, {})

\* All names of the first line got into the buffer.
NamesFit == NamesRead(grammar.names) = grammar.names

-----------------------------------------------------------------------------
(***************************************************************************)
(* Properties.                                                             *)
(***************************************************************************)

TypeOK ==
    /\ phase \in {"load", "eliminate", "first", "follow", "table", "analyze", "done"}
    /\ DOMAIN first = ToSet(names) /\ DOMAIN follow = ToSet(names)
    /\ \A A \in ToSet(names) : first[A] \subseteq terminals /\ follow[A] \subseteq terminals \ {Empty}
    /\ \A key \in DOMAIN table :
          key[2] \in terminals /\ table[key] \in 1..Len(productions) /\ productions[table[key]].source = key[1]
    /\ Len(stack) <= MaxAmount
    /\ phase = "analyze" => stack[1] = End /\ inputPos \in 1..(Len(Input) + 1)
    /\ verdict \in {"none", "accepted", "rejected"}

\* The statement begins with a word whose production needs a nonterminal that
\* the buffer has no room for.
Starved == ~NamesFit /\ tokens # <<>> /\ tokens[1].value \in {"INSERT", "UPDATE"}

\* The parser decides the language of the grammar file: it accepts a statement
\* exactly if the first nonterminal derives it, although its terminals, and so
\* FIRST, FOLLOW and the table, are those of this one statement
\* (compute_first_of_string, prediction_table) and left recursion was rewritten
\* before (eliminate_left_recursion).  Statements whose nonterminals were cut
\* off (read_grammar) are never accepted.
AcceptsTheSentences ==
    phase = "done" => (verdict = "accepted" <=> IsSentence /\ ~Starved)

\* start_parser returns for every statement: the rounds of prediction, the
\* elimination of left recursion and the stack machine all come to an end.
ParsingEnds == <>(phase = "done")
=============================================================================
