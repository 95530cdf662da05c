---------------------------- MODULE MCAlgorithms ----------------------------
(* The parts of the program that compute a result from what they are given *)
(* and keep no state: programs of a few shapes, run by both engines;       *)
(* delimited tables; lines of a source.  An input is chosen, then it is    *)
(* checked.                                                                *)
EXTENDS Programs
CONSTANTS Delimiter, Quote, LF, CR, BOM, Bad, Yes, No, MaxColumns, MaxRecord, MaxRows, MaxOutput
Tabs == INSTANCE Tables
ASSUME Tabs!TablesConstants
CONSTANTS MaxNest, MaxSuffix, MaxExponent, MaxDimension
Lines == INSTANCE Expressions
CONSTANTS LetterA, LetterB, MaxText

VARIABLES what, left, right, checked
vars == <<what, left, right, checked>>
Nothing == << >>

-----------------------------------------------------------------------------
X == Name("x")
Leaves == {Assign("x", Two("+", X, Num(1))), SetAt("a", Num(0), Num(5)), Show(X), Break, Continue}
Conds == {Two("<", X, Num(2)), Two("==", X, Metres(1)), Two("or", Two("==", X, Num(0)), Not(Two("<", Num(0), X)))}
Inner == Leaves \union {If(<< <<c, <<l>> >> >>, <<r>>) : c \in Conds, l \in {Break, Continue}, r \in Leaves}
           \union {Switch(X, << <<Num(0), <<l>> >>, <<Num(1), <<r>> >> >>, <<Show(X)>>) : l, r \in Leaves}
Bodies2 == {<<s, t>> : s \in Inner, t \in Leaves} \union {<<s>> : s \in Inner}
Loops(b) == {For("i", Num(0), Num(2), Num(1), b), For("x", Num(2), Num(0), Num(-1), b), For("i", Num(0), X, Num(0), b),
             ForEach("i", Name("a"), b), While(Two("<", X, Num(2)), b)}
Around(s) == <<Assign("x", Num(0)), Assign("a", Items(<<Num(1), Num(2)>>)), s, Show(At(Name("a"), Num(0))), Seal("x")>>
Flat == {Around(l) : l \in UNION {Loops(b) : b \in Bodies2}}
Nested == {Around(l) : l \in UNION {Loops(<<m, t>>) : m \in UNION {Loops(<<s>>) : s \in Leaves \union {Switch(X, << <<Num(1), <<Break>> >> >>, <<Continue>>)}}, t \in Leaves}}
FBodies == {<<Return(Two("+", Name("p"), Num(1)))>>}
  \union {<<If(<< <<Two("<", Name("p"), Num(n)), <<Return(CallOf("f", <<Two("+", Name("p"), Num(1))>>))>> >> >>, <<Show(Name("p"))>>), Return(Name("p"))>> : n \in 0..3}
  \union {<<l>> : l \in UNION {Loops(<<s>>) : s \in {Return(Num(7)), Break, Show(Num(1))}}}
  \union {<<Break, Return(Num(1))>>, <<Assign("x", Num(4)), Return(X)>>, <<Show(X), Return(Num(1))>>}
Calls == {<<Function("f", <<"p">>, b)>> \o Around(Assign("x", CallOf("f", es))) : b \in FBodies, es \in {<<X>>, << >>, <<CallOf("f", <<Num(1)>>)>>}}
  \union {<<Function("f", <<"p">>, b), Do(CallOf("f", <<Num(n)>>)), Assign("x", Num(n)), Seal("x")>> : b \in FBodies, n \in 0..1}
Lists == {Around(SetAt("a", i, e)) : i \in {Num(1), Num(2), Metres(0), X}, e \in {Num(5), Metres(1), Items(<<Num(1)>>), Two("+", Name("a"), Name("a"))}}
Headed == {<<h>> \o p : h \in {Mad, Budget(1)}, p \in Calls \union Lists \union {q \in Flat : Len(q[3].body) = 1}}
Inputs == Flat \union Nested \union Calls \union Lists \union Headed \union {<<h, Mad>> : h \in {Mad, Seal("x"), Return(X)}}

-----------------------------------------------------------------------------
Characters == {LetterA, Delimiter, Quote, LF, CR}
Strings(n) == UNION {[1..m -> Characters] : m \in 0..n}
TableTexts == Strings(MaxText) \union {<<BOM, LetterA, LF>> \o t : t \in Strings(3)}
Quoting(cell) == <<Quote>> \o Tabs!Doubled(cell) \o <<Quote>>
Table(rows) == FlattenSeq([i \in DOMAIN rows |-> Quoting(rows[i][1]) \o <<Delimiter>> \o Quoting(rows[i][2]) \o <<LF>>])
Of(rows) == Table(<< << <<LetterA>>, <<LetterB>> >> >> \o rows)
JoinKeys == {<<LetterA>>, <<LetterB>>, << >>, <<LetterA, Quote>>}
JoinCells == {<< >>, <<CR>>, <<Quote, LetterA>>}
Lefts == {Of(<< >>)} \union {Of(<< <<k, v>> >>) : k \in JoinKeys, v \in JoinCells}
          \union {Of(<< <<k, << >> >>, <<l, v>> >>) : k, l \in JoinKeys, v \in {<<LF>>, <<Delimiter>>}}
Rights == {Of(<< <<k, v>> >>) : k \in JoinKeys, v \in JoinCells}
            \union {Of(<< <<k, <<LetterA>> >>, <<l, <<LetterB>> >> >>) : k, l \in {<<LetterA>>, <<LetterB>>}}
            \union {Of(<< << <<LetterB>>, <<LetterA>> >>, <<l, <<LetterB>> >>, << <<LetterA>>, <<LF>> >> >>) : l \in JoinKeys}
Rules(kind, prefix) == [left_key |-> <<LetterA>>, right_key |-> <<LetterA>>, kind |-> kind, left_prefix |-> <<LetterA>>, right_prefix |-> prefix]
AllRules == {Rules(k, p) : k \in {"inner", "left"}, p \in {<<LetterA>>, <<LetterB>>}}

-----------------------------------------------------------------------------
Tokens(S, n) == UNION {[1..m -> S] : m \in 1..n}
Operands == {<<"x">>, <<"2">>, <<"-", "x">>, <<"2", "m">>, <<"(", "x", ")">>, <<"x", "[", "2", "]">>}
Infix == {<<"+">>, <<"*">>, <<"^">>, <<"<">>, << >>, <<"and">>, <<"or", "not">>}
SourceLines ==
  {FlattenSeq(<<a, p, b, q, c>>) : a, b, c \in Operands, p, q \in Infix}
  \union {<<"2", "m">> \o t : t \in Tokens({"*", "/", "^", "(", ")", "m", "1", "x"}, 4) \union Tokens({"^", "-", "3", "0.5", "*", "m", "s"}, 3)}
  \union {<<a, "[">> \o t \o <<"]", "=", "x">> : a \in {"x", "pi"}, t \in Tokens({"x", "[", "]", ":", ",", "="}, 3)}
  \union Tokens({"x", "2", "+", "^", "-", "(", ")"}, 4) \union Tokens({"x", "not", "and", "or", "<", "("}, 4)
  \union Tokens({"x", "[", "]", ":", "(", ",", ")", "="}, 4)

-----------------------------------------------------------------------------
Init == /\ checked = FALSE
        /\ \/ what = "program" /\ left \in Inputs /\ right = Nothing
           \/ what = "text" /\ left \in TableTexts /\ right = Nothing
           \/ what = "line" /\ left \in SourceLines /\ right = Nothing
           \/ what = "join" /\ left \in Lefts \X Rights /\ right \in AllRules
Next == ~checked /\ checked' = TRUE /\ UNCHANGED <<what, left, right>>
Spec == Init /\ [][Next]_vars
Given(x) == checked /\ what = x
Checking(x) == what = x          \* a step checks what is given

-----------------------------------------------------------------------------
(* break, continue and return leave what they are in and nothing more, and *)
(* no program that parses ends outside the loops and functions it began    *)
(* (eval_stmt_flow against validate_statements).                           *)
Contained == Given("program") => FlowContained(left)

(* The generated program ends as the interpreter does: the same output,    *)
(* values, steps of the budget and kind of error (generate_statements      *)
(* against eval_stmt_flow).                                                *)
Parity == [][Checking("program") => NativeAgrees(left)]_vars

(* "Interpreter and compiled execution are tested for the same array       *)
(* results" (docs/INTERACTION_AND_ARRAYS.md:30): every program that parses *)
(* builds.                                                                 *)
Claim == Given("program") => NativeRuns(left)

(* A line is read as the one tree its grammar gives it, and a line without *)
(* compound units as it was before there were any (the expression levels   *)
(* and unit suffixes of parser.rs).                                        *)
LinesRead == [][Checking("line") => Lines!ReadsAsGrammar(left) /\ Lines!HistoryKept(left)]_vars

(* The two parsers of delimited text read the same (parse_ecsv against     *)
(* record); csv_join writes the join of its inputs, and verify_run finds   *)
(* every loss or change of what is kept of it (join and verify of          *)
(* table_join.rs).                                                         *)
JoinKept ==
  \A k \in {"inner", "left"} : Tabs!JoinEvidenceIsJoin("o", left[1], left[2], right, [right EXCEPT !.kind = k])
Joined ==
  [][/\ Checking("text") => Tabs!ParsersAgree(left)
     /\ Checking("join") => Tabs!JoinIsExact(left[1], left[2], right) /\ JoinKept]_vars
=============================================================================
