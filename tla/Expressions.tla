----------------------------- MODULE Expressions -------------------------------
(***************************************************************************)
(* A statement of one line, from its tokens to its tree: the recursive     *)
(* descent of parser.rs with the unit suffixes of numbers, and beside it   *)
(* the grammar it descends, as the set of trees that every stretch of the  *)
(* tokens has.                                                             *)
(***************************************************************************)
EXTENDS Integers, Sequences, FiniteSets, TLC

CONSTANTS
  MaxNest, MaxSuffix, MaxExponent, MaxDimension   \* of a suffix: 32 groups, 256 tokens, 32, 256

Units == [m |-> <<1, 0>>, s |-> <<0, 1>>]         \* two of the registry, by dimension
Whole == ("1" :> 1) @@ ("2" :> 2) @@ ("3" :> 3)   \* raw numbers of digits only
Numbers == DOMAIN Whole \union {"0.5"}
Reserved == {"argc", "pi"}
Words == {"x", "and", "or", "not"} \union DOMAIN Units \union Reserved

NoTree == [t |-> << >>, n |-> 0]
Got(t, n) == [t |-> t, n |-> n]
Bin(op, l, r) == <<"bin", op, l, r>>
At(ts, i) == IF i \in DOMAIN ts THEN ts[i] ELSE "end"
Implicit(token) == token \in Numbers \union {"("} \union (Words \ {"and", "or"})

(* logical_or = 1 to power = 7, unary = 8, postfix = 9.                    *)
Operators(v) == CASE v = 1 -> {"or"} [] v = 2 -> {"and"} [] v = 4 -> {"<", "=="} [] v = 5 -> {"+", "-"} [] v = 6 -> {"*", "/", "%"} [] OTHER -> {}

-----------------------------------------------------------------------------
(* Dimensions of a tree of units; Wide when an exponent leaves its bounds. *)
Wide == <<MaxDimension + 1, 0>>
InBounds(d) == \A k \in 1..2 : d[k] \in -MaxDimension..MaxDimension
Checked(d) == IF InBounds(d) THEN d ELSE Wide
RECURSIVE Dimension(_)
Dimension(u) ==
  CASE u[1] = "quantity" -> Units[u[3]]
    [] u[1] = "num" -> <<0, 0>>
    [] OTHER ->
         LET l == Dimension(u[3])
             r == Dimension(u[4])
         IN CASE l = Wide -> Wide
              [] l # Wide /\ u[2] = "^" -> Checked([k \in 1..2 |-> l[k] * u[4][2]])
              [] l # Wide /\ u[2] # "^" /\ r = Wide -> Wide
              [] OTHER -> Checked([k \in 1..2 |-> IF u[2] = "*" THEN l[k] + r[k] ELSE l[k] - r[k]])
RECURSIVE Powers(_)
Powers(u) == IF u[1] # "bin" THEN {} ELSE {u} \union Powers(u[3]) \union (IF u[2] = "^" THEN {} ELSE Powers(u[4]))
ValidUnits(u) == \A p \in Powers(u) : InBounds(Dimension(p))

UnitStart(ts, i) ==
  \/ At(ts, i) \in DOMAIN Units
  \/ At(ts, i) = "1" /\ At(ts, i + 1) = "/" /\ At(ts, i + 2) \in DOMAIN Units \union {"("}
Opened(ts, i) == CHOOSE k \in i..(Len(ts) + 1) : At(ts, k) # "(" /\ \A j \in i..(k - 1) : ts[j] = "("
UnitFactorStart(ts, i) ==
  \/ UnitStart(ts, i)
  \/ LET k == Opened(ts, i) IN
     \/ k - i > MaxNest
     \/ k > i /\ (At(ts, k) \in DOMAIN Units \/ (At(ts, k) = "1" /\ At(ts, k + 1) \in {"/", "*", ")"}))

(* unit_expression and unit_power.                                         *)
RECURSIVE UnitExpression(_, _, _, _), UnitsAfter(_, _, _, _, _), UnitPower(_, _, _, _)
Exponent(ts, start, base, i) ==
  LET signed == At(ts, i) \in {"+", "-"}
      at == IF signed THEN i + 1 ELSE i
      e == IF At(ts, i) = "-" THEN -Whole[At(ts, at)] ELSE Whole[At(ts, at)]
      powered == Bin("^", base, <<"int", e>>)
  IN IF At(ts, at) \in DOMAIN Whole /\ e \in -MaxExponent..MaxExponent /\ at + 1 - start <= MaxSuffix
        /\ At(ts, at + 1) # "^" /\ ValidUnits(powered)
     THEN Got(powered, at + 1) ELSE NoTree
UnitPower(ts, depth, start, i) ==
  LET inner == UnitExpression(ts, depth + 1, start, i + 1)
      base == CASE At(ts, i) \in DOMAIN Units -> Got(<<"quantity", "1", At(ts, i)>>, i + 1)
                [] At(ts, i) = "1" -> Got(<<"num", "1">>, i + 1)
                [] At(ts, i) = "(" -> IF inner # NoTree /\ At(ts, inner.n) = ")" THEN Got(inner.t, inner.n + 1) ELSE NoTree
                [] OTHER -> NoTree
  IN CASE i - start >= MaxSuffix \/ base = NoTree \/ base.n - start > MaxSuffix -> NoTree
       [] OTHER -> IF At(ts, base.n) = "^" THEN Exponent(ts, start, base.t, base.n + 1) ELSE base
(* Mutant: a second slash divides once more.                               *)
DividedAgain(op, divided) == FALSE
Ambiguous(op, divided) == divided
UnitsAfter(ts, depth, start, l, divided) ==
  LET op == At(ts, l.n)
      r == UnitPower(ts, depth, start, l.n + 1)
      node == Bin(op, l.t, r.t)
  IN CASE op \notin {"*", "/"} \/ ~UnitFactorStart(ts, l.n + 1) -> l
       [] OTHER -> IF Ambiguous(op, divided) \/ r = NoTree THEN NoTree
                   ELSE IF ~ValidUnits(node) THEN NoTree ELSE UnitsAfter(ts, depth, start, Got(node, r.n), op = "/")
UnitExpression(ts, depth, start, i) ==
  LET first == UnitPower(ts, depth, start, i)
  IN IF depth > MaxNest \/ first = NoTree THEN NoTree ELSE UnitsAfter(ts, depth, start, first, FALSE)

Literal(value, units) == IF units[1] = "quantity" THEN <<"quantity", value, units[3]>> ELSE Bin("*", <<"num", value>>, units)
(* A number with what belongs to it; legacy: the syntax before suffixes.   *)
Number(ts, legacy, i) ==
  LET units == UnitExpression(ts, 0, i + 1, i + 1)
  IN CASE ~legacy /\ UnitStart(ts, i + 1) -> IF units = NoTree THEN NoTree ELSE Got(Literal(ts[i], units.t), units.n)
       [] legacy /\ At(ts, i + 1) \in DOMAIN Units -> Got(<<"quantity", ts[i], ts[i + 1]>>, i + 2)
       [] OTHER -> Got(<<"num", ts[i]>>, i + 1)

-----------------------------------------------------------------------------
RECURSIVE Level(_, _, _, _), More(_, _, _, _), Subscripts(_, _, _), List(_, _, _, _)
Expression(ts, legacy, i) == Level(ts, legacy, 1, i)
Joined(op, l, r) == IF r = NoTree THEN NoTree ELSE Got(Bin(op, l.t, r.t), r.n)
Wrapped(op, r) == IF r = NoTree THEN NoTree ELSE Got(<<op, r.t>>, r.n)
Closed(ts, r, close) == IF r # NoTree /\ At(ts, r.n) = close THEN Got(r.t, r.n + 1) ELSE NoTree
(* The items of an array or a call up to what closes it, at i the first.   *)
List(ts, legacy, i, close) ==
  LET first == Expression(ts, legacy, i)
      rest == List(ts, legacy, first.n + 1, close)
  IN CASE first = NoTree -> NoTree
       [] first # NoTree /\ At(ts, first.n) = "," -> IF rest = NoTree THEN NoTree ELSE Got(<<first.t>> \o rest.t, rest.n)
       [] OTHER -> Closed(ts, Got(<<first.t>>, first.n), close)
Items(ts, legacy, i, close) == IF At(ts, i) = close THEN Got(<< >>, i + 1) ELSE List(ts, legacy, i, close)

Primary(ts, legacy, i) ==
  LET token == At(ts, i) IN
  CASE token = "[" -> Wrapped("array", Items(ts, legacy, i + 1, "]"))
    [] token = "(" -> Closed(ts, Expression(ts, legacy, i + 1), ")")
    [] token \in Numbers -> Number(ts, legacy, i)
    [] token \in Words ->
         IF At(ts, i + 1) # "(" THEN Got(<<"name", token>>, i + 1)
         ELSE LET args == Items(ts, legacy, i + 2, ")") IN IF args = NoTree THEN NoTree ELSE Got(<<"call", token, args.t>>, args.n)
    [] OTHER -> NoTree
None == <<"none">>
Subscripts(ts, legacy, l) ==
  LET i == l.n + 1
      start == IF At(ts, i) \in {":", "]"} THEN Got(None, i) ELSE Expression(ts, legacy, i)
      stop == IF At(ts, start.n + 1) = "]" THEN Got(None, start.n + 1) ELSE Expression(ts, legacy, start.n + 1)
      part == IF At(ts, start.n) = ":"
              THEN IF stop = NoTree THEN NoTree ELSE Closed(ts, Got(<<"slice", l.t, start.t, stop.t>>, stop.n), "]")
              ELSE IF start.t = None THEN NoTree ELSE Closed(ts, Got(<<"at", l.t, start.t>>, start.n), "]")
  IN CASE l = NoTree -> NoTree
       [] l # NoTree /\ At(ts, l.n) # "[" -> l
       [] OTHER -> IF start = NoTree THEN NoTree ELSE Subscripts(ts, legacy, part)

More(ts, legacy, v, l) ==
  CASE l = NoTree -> NoTree
    [] l # NoTree /\ At(ts, l.n) \in Operators(v) -> More(ts, legacy, v, Joined(At(ts, l.n), l, Level(ts, legacy, v + 1, l.n + 1)))
    [] OTHER -> IF v = 6 /\ Implicit(At(ts, l.n)) THEN More(ts, legacy, v, Joined("*", l, Level(ts, legacy, 7, l.n))) ELSE l
(* What follows ^: the powers that follow belong to the exponent.          *)
PowerOf(ts, legacy, i) == Level(ts, legacy, 7, i)
Level(ts, legacy, v, i) ==
  LET l == Level(ts, legacy, v + 1, i) IN
  CASE v \in {1, 2, 5, 6} -> More(ts, legacy, v, l)
    [] v = 3 -> IF At(ts, i) = "not" THEN Wrapped("not", Level(ts, legacy, 3, i + 1)) ELSE l
    [] v = 4 -> IF l # NoTree /\ At(ts, l.n) \in Operators(4) THEN Joined(At(ts, l.n), l, Level(ts, legacy, 5, l.n + 1)) ELSE l
    [] v = 7 -> IF l # NoTree /\ At(ts, l.n) = "^" THEN Joined("^", l, PowerOf(ts, legacy, l.n + 1)) ELSE l
    [] v = 8 -> IF At(ts, i) \in {"+", "-"} THEN Wrapped(At(ts, i), Level(ts, legacy, 8, i + 1)) ELSE l
    [] v = 9 -> Subscripts(ts, legacy, Primary(ts, legacy, i))

(* A statement that is an assignment or an expression: what begins like an *)
(* indexed assignment and is none is read again from its beginning.        *)
Statement(ts, legacy) ==
  LET all == Expression(ts, legacy, 1)
      value == Expression(ts, legacy, 3)
      after == IF value = NoTree THEN NoTree ELSE Expression(ts, legacy, value.n + 2)
      Ended(r, t) == IF r = NoTree \/ r.n # Len(ts) + 1 THEN NoTree ELSE Got(t, r.n)
  IN CASE At(ts, 1) \in Words /\ At(ts, 2) = "=" -> IF ts[1] = "argc" THEN NoTree ELSE Ended(value, <<"let", ts[1], value.t>>)
       [] At(ts, 1) \in Words /\ At(ts, 2) = "[" /\ At(ts, 3) \notin {":", "]"} /\ value # NoTree
            /\ At(ts, value.n) = "]" /\ At(ts, value.n + 1) = "=" ->
            IF ts[1] \in Reserved THEN NoTree ELSE Ended(after, <<"set", ts[1], value.t, after.t>>)
       [] OTHER -> Ended(all, all.t)

-----------------------------------------------------------------------------
(* The grammar: the trees ts has from i to j.  A number takes the longest  *)
(* suffix that is one, a name takes the arguments that follow it.          *)
RECURSIVE UnitTrees(_, _, _, _)
AtomTrees(ts, i, j, first) ==
  IF i = j THEN CASE ts[i] \in DOMAIN Units -> {<<"quantity", "1", ts[i]>>}
                  [] ts[i] = "1" /\ (first \/ UnitStart(ts, i)) -> {<<"num", "1">>}
                  [] OTHER -> {}
  ELSE IF i < j /\ ts[i] = "(" /\ ts[j] = ")" THEN UnitTrees(ts, i + 1, j - 1, {"*", "/"}) ELSE {}
PowerTrees(ts, i, j, first) ==
  LET signed == At(ts, j - 1) \in {"+", "-"}
      k == IF signed THEN j - 2 ELSE j - 1
      e == IF At(ts, j - 1) = "-" THEN -Whole[ts[j]] ELSE Whole[ts[j]]
  IN IF k > i /\ ts[k] = "^" /\ ts[j] \in DOMAIN Whole
     THEN {Bin("^", u, <<"int", e>>) : u \in {u \in AtomTrees(ts, i, k - 1, first) : e \in -MaxExponent..MaxExponent}} ELSE {}
FactorTrees(ts, i, j, first) == AtomTrees(ts, i, j, first) \union PowerTrees(ts, i, j, first)
UnitTrees(ts, i, j, ops) ==
  FactorTrees(ts, i, j, TRUE)
  \union UNION {{Bin(ts[k], l, r) : l \in UnitTrees(ts, i, k - 1, {"*"}), r \in FactorTrees(ts, k + 1, j, FALSE)} :
                  k \in {k \in (i + 1)..(j - 1) : ts[k] \in ops}}
SuffixTrees(ts, i, j) == IF UnitStart(ts, i) THEN {u \in UnitTrees(ts, i, j, {"*", "/"}) : ValidUnits(u)} ELSE {}

RECURSIVE Trees(_, _, _, _), ListTrees(_, _, _)
Places(ts, i, j, tokens) == {k \in i..j : ts[k] \in tokens}
Maybe(ts, i, j) == IF i > j THEN {None} ELSE Trees(ts, 1, i, j)
ListTrees(ts, i, j) ==
  {<<t>> : t \in Trees(ts, 1, i, j)}
  \union UNION {{<<t>> \o rest : t \in Trees(ts, 1, i, k - 1), rest \in ListTrees(ts, k + 1, j)} : k \in Places(ts, i, j, {","})}
Lists(ts, i, j) == IF i > j THEN {<< >>} ELSE ListTrees(ts, i, j)
Halves(ts, v, w, i, j) ==
  UNION {{Bin(ts[k], l, r) : l \in Trees(ts, v, i, k - 1), r \in Trees(ts, w, k + 1, j)} : k \in Places(ts, i, j, Operators(v))}
Primaries(ts, i, j) ==
  CASE i = j -> {<<"name", ts[i]>> : k \in {k \in {i} : ts[k] \in Words /\ At(ts, k + 1) # "("}}
                  \union {<<"num", ts[i]>> : k \in {k \in {i} : ts[k] \in Numbers /\ ~UnitStart(ts, k + 1)}}
    [] i < j /\ ts[i] \in Numbers -> IF \E k \in (j + 1)..Len(ts) : SuffixTrees(ts, i + 1, k) # {} THEN {}
                                     ELSE {Literal(ts[i], u) : u \in SuffixTrees(ts, i + 1, j)}
    [] i < j /\ ts[i] = "(" /\ ts[j] = ")" -> Trees(ts, 1, i + 1, j - 1)
    [] i < j /\ ts[i] = "[" /\ ts[j] = "]" -> {<<"array", a>> : a \in Lists(ts, i + 1, j - 1)}
    [] i < j /\ ts[i] \in Words /\ ts[i + 1] = "(" /\ ts[j] = ")" -> {<<"call", ts[i], a>> : a \in Lists(ts, i + 2, j - 1)}
    [] OTHER -> {}
Trees(ts, v, i, j) ==
  CASE i > j -> {}
    [] i <= j /\ v \in {1, 2, 5} -> Trees(ts, v + 1, i, j) \union Halves(ts, v, v + 1, i, j)
    [] i <= j /\ v = 3 -> IF ts[i] = "not" THEN {<<"not", t>> : t \in Trees(ts, 3, i + 1, j)} ELSE Trees(ts, 4, i, j)
    [] i <= j /\ v = 4 -> Trees(ts, 5, i, j) \union UNION {{Bin(ts[k], l, r) : l \in Trees(ts, 5, i, k - 1), r \in Trees(ts, 5, k + 1, j)} : k \in Places(ts, i, j, Operators(4))}
    [] i <= j /\ v = 6 -> Trees(ts, 7, i, j) \union Halves(ts, 6, 7, i, j)
         \union UNION {{Bin("*", l, r) : l \in Trees(ts, 6, i, k - 1), r \in Trees(ts, 7, k, j)} : k \in {k \in (i + 1)..j : Implicit(ts[k])}}
    [] i <= j /\ v = 7 -> Trees(ts, 8, i, j) \union UNION {{Bin("^", l, r) : l \in Trees(ts, 8, i, k - 1), r \in Trees(ts, 7, k + 1, j)} : k \in Places(ts, i, j, {"^"})}
    [] i <= j /\ v = 8 -> IF ts[i] \in {"+", "-"} THEN {<<ts[i], t>> : t \in Trees(ts, 8, i + 1, j)} ELSE Trees(ts, 9, i, j)
    [] OTHER -> Primaries(ts, i, j) \union
         (IF ts[j] # "]" THEN {} ELSE UNION {
            {<<"at", l, x>> : l \in Trees(ts, 9, i, k - 1), x \in Trees(ts, 1, k + 1, j - 1)}
            \union UNION {{<<"slice", l, x, y>> : l \in Trees(ts, 9, i, k - 1), x \in Maybe(ts, k + 1, c - 1), y \in Maybe(ts, c + 1, j - 1)} :
                            c \in Places(ts, k, j, {":"})} : k \in Places(ts, i, j, {"["})})
StatementTrees(ts) ==
  CASE At(ts, 1) \in Words \ {"argc"} /\ At(ts, 2) = "=" -> {<<"let", ts[1], t>> : t \in Trees(ts, 1, 3, Len(ts))}
    [] OTHER -> Trees(ts, 1, 1, Len(ts)) \union UNION {
         {<<"set", ts[1], x, t>> : x \in Trees(ts, 1, 3, k - 2), t \in Trees(ts, 1, k + 1, Len(ts))} :
           k \in {k \in Places(ts, 1, Len(ts), {"="}) : k > 4 /\ ts[k - 1] = "]" /\ ts[2] = "[" /\ ts[1] \in Words \ Reserved}}

-----------------------------------------------------------------------------
(* The parser reads a statement as the one tree the grammar gives it, and  *)
(* refuses what has none; what it refuses beyond that has a number with a  *)
(* suffix, which is refused rather than guessed at.                        *)
Suffixed(ts) == \E i \in DOMAIN ts : ts[i] \in Numbers /\ UnitStart(ts, i + 1)
ReadsAsGrammar(ts) ==
  LET read == Statement(ts, FALSE)
      trees == StatementTrees(ts)
  IN IF read # NoTree THEN trees = {read.t} ELSE trees = {} \/ Suffixed(ts)

(* What has no suffix but single units is read as it was before there were *)
(* suffixes.                                                               *)
HistoryKept(ts) ==
  (\A i \in DOMAIN ts : ts[i] \in Numbers /\ UnitStart(ts, i + 1) =>
     ts[i + 1] \in DOMAIN Units /\ At(ts, i + 2) \notin {"^", "*", "/"}) => Statement(ts, TRUE) = Statement(ts, FALSE)
=============================================================================
