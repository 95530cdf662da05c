------------------------------ MODULE Programs ------------------------------
(***************************************************************************)
(* The statements of Goblin++ twice: as src/src/evaluator.rs interprets    *)
(* them, and as src/src/compiler.rs turns them into a Rust program, run    *)
(* the way Rust runs it.  What src/src/parser.rs lets through is checked   *)
(* first.  Numbers are integers with a dimension; text is left out.        *)
(***************************************************************************)
EXTENDS Integers, Sequences, FiniteSets, SequencesExt

CONSTANTS
  DefaultBudget,  \* DEFAULT_LOOP_BUDGET
  MaxBudget,      \* MAX_LOOP_BUDGET
  MaxDepth        \* MAX_FUNCTION_DEPTH

(* An expression or a statement is a record with a kind k.                 *)
Num(n) == [k |-> "num", n |-> n, d |-> "1"]
Metres(n) == [k |-> "num", n |-> n, d |-> "m"]
Name(x) == [k |-> "name", x |-> x]
Items(es) == [k |-> "array", items |-> es]
At(a, i) == [k |-> "index", a |-> a, i |-> i]
Two(op, l, r) == [k |-> op, l |-> l, r |-> r]      \* "+", "==", "<", "and", "or"
Not(e) == [k |-> "not", e |-> e]
CallOf(f, es) == [k |-> "call", f |-> f, args |-> es]

Assign(x, e) == [k |-> "assign", x |-> x, e |-> e]
SetAt(x, i, e) == [k |-> "set", x |-> x, i |-> i, e |-> e]
Show(e) == [k |-> "print", e |-> e]
Do(e) == [k |-> "do", e |-> e]
Seal(x) == [k |-> "seal", x |-> x]
Return(e) == [k |-> "return", e |-> e]
Break == [k |-> "break"]
Continue == [k |-> "continue"]
For(x, from, to, by, body) == [k |-> "for", x |-> x, from |-> from, to |-> to, by |-> by, body |-> body]
ForEach(x, e, body) == [k |-> "each", x |-> x, e |-> e, body |-> body]
While(e, body) == [k |-> "while", e |-> e, body |-> body]
If(branches, otherwise) == [k |-> "if", branches |-> branches, otherwise |-> otherwise]
Switch(e, cases, otherwise) == [k |-> "switch", e |-> e, cases |-> cases, otherwise |-> otherwise]
Function(f, params, body) == [k |-> "g_func", f |-> f, params |-> params, body |-> body]
Budget(n) == [k |-> "budget", n |-> n]
Mad == [k |-> "mad"]

-----------------------------------------------------------------------------
(* What the parser accepts: its flags in_function and loop_depth, and what *)
(* may only stand at the top.                                              *)
RECURSIVE Accepted(_, _, _, _)
Bodies(s) ==
  IF s.k \in {"for", "each", "while", "g_func"} THEN {s.body}
  ELSE IF s.k = "if" THEN {s.branches[i][2] : i \in DOMAIN s.branches} \union {s.otherwise}
  ELSE IF s.k = "switch" THEN {s.cases[i][2] : i \in DOMAIN s.cases} \union {s.otherwise}
  ELSE {}

Accepted(stmts, block, function, loops) ==
  \A j \in DOMAIN stmts :
    LET s == stmts[j]
    IN /\ s.k \in {"g_func", "budget", "mad"} => ~block
       /\ s.k = "return" => function
       /\ s.k \in {"break", "continue"} => loops > 0
       /\ s.k = "seal" => ~function
       /\ s.k = "switch" => s.cases # << >>
       /\ s.k = "budget" => s.n \in 1..MaxBudget
       /\ \A b \in Bodies(s) :
            Accepted(b, TRUE, function \/ s.k = "g_func", IF s.k \in {"for", "each", "while"} THEN loops + 1 ELSE loops)

(* Mutant: the body of a function is a place for break.                    *)
ParsesLoose(program) ==
  /\ program # << >>
  /\ \A i \in DOMAIN program :
       Accepted(<<program[i]>>, FALSE, FALSE, IF program[i].k = "g_func" THEN 1 ELSE 0)

(* The whole program: no function twice, one budget, and COMPLETELY_MAD    *)
(* once and first.                                                         *)
Parses(program) ==
  /\ program # << >> /\ Accepted(program, FALSE, FALSE, 0)
  /\ \A i, j \in DOMAIN program :
       i # j => /\ program[i].k = "g_func" /\ program[j].k = "g_func" => program[i].f # program[j].f
                /\ ~(program[i].k = "budget" /\ program[j].k = "budget")
  /\ \A i \in DOMAIN program : program[i].k = "mad" => i = 1

-----------------------------------------------------------------------------
(* Values, and the operations both sides have.                             *)
Quantity(n, d) == [t |-> "q", n |-> n, d |-> d]
Bool(b) == [t |-> "b", b |-> b]
Array(vs) == [t |-> "a", items |-> vs]
Wrong == [t |-> "wrong"]
Integer(v) == v.t = "q" /\ v.d = "1"
SameType(v, w) == v.t = w.t /\ v.t \in {"q", "b"} /\ (v.t = "q" => v.d = w.d)
Uniform(vs) == \A i \in DOMAIN vs : vs[1].t # "a" /\ SameType(vs[1], vs[i])

RECURSIVE Binary(_, _, _)
Binary(op, v, w) ==
  IF v.t = "a" /\ w.t = "a" /\ Len(v.items) = Len(w.items)
    THEN LET r == [i \in DOMAIN v.items |-> Binary(op, v.items[i], w.items[i])]
         IN IF \E i \in DOMAIN r : r[i] = Wrong THEN Wrong ELSE Array(r)
  ELSE IF v.t = "q" /\ w.t = "q" /\ v.d = w.d THEN Quantity(v.n + w.n, v.d) ELSE Wrong

Compare(op, v, w) ==
  IF v.t # w.t THEN Wrong
  ELSE IF v.t = "q" /\ v.d # w.d THEN Wrong
  ELSE IF op = "==" THEN Bool(v = w)
  ELSE IF v.t = "q" THEN Bool(v.n < w.n) ELSE Wrong

Element(a, i) == IF a.t = "a" /\ Integer(i) /\ i.n \in 0..Len(a.items) - 1 THEN a.items[i.n + 1] ELSE Wrong
Replace(a, i, v) ==
  IF Element(a, i) # Wrong /\ SameType(a.items[1], v) THEN Array([a.items EXCEPT ![i.n + 1] = v]) ELSE Wrong

Put(env, x, v) == [y \in DOMAIN env \union {x} |-> IF y = x THEN v ELSE env[y]]
Local(params, vs) == [x \in ToSet(params) |-> vs[CHOOSE i \in DOMAIN params : params[i] = x]]
Budgets(program) == {program[i].n : i \in {j \in DOMAIN program : program[j].k = "budget"}}
Limit(program) == IF Budgets(program) = {} THEN DefaultBudget ELSE CHOOSE n \in Budgets(program) : TRUE
IsMad(program) == \E i \in DOMAIN program : program[i].k = "mad"
Declared(program, f) ==
  LET found == {i \in DOMAIN program : program[i].k = "g_func" /\ program[i].f = f}
  IN IF found = {} THEN Wrong ELSE program[CHOOSE i \in found : TRUE]

-----------------------------------------------------------------------------
(* The native program.  generate_statements makes a list of Rust           *)
(* statements; those with a body open a scope for their own lets.          *)
Let(x, e, as) == [r |-> "let", x |-> x, e |-> e, as |-> as]      \* let x = as(e)?
Copy(x, from) == [r |-> "copy", x |-> x, from |-> from]          \* let x = from
Insert(x, from) == [r |-> "insert", x |-> x, from |-> from]      \* goblin_env.insert(x, from)
R(r) == [r |-> r]
RBlock(r, body) == [r |-> r, body |-> body]

RECURSIVE Generate(_, _)
(* The body of a range loop; the mutant advances after it.                 *)
RangeBodyLate(s, mad) == <<R("loop_tick"), Insert(s.x, "index")>> \o Generate(s.body, mad) \o <<R("advance")>>
RangeBody(s, mad) == <<R("loop_tick"), Insert(s.x, "index"), R("advance")>> \o Generate(s.body, mad)

Generated(s, mad) ==
  CASE s.k \in {"g_func", "budget", "mad"} -> << >>
    [] s.k \in {"break", "continue"} -> <<R(s.k)>>
    [] s.k = "return" -> <<[r |-> "return", e |-> s.e]>>
    [] s.k = "assign" ->
         <<Let("value", s.e, "value"), Insert(s.x, "value")>> \o (IF mad THEN <<[r |-> "final", x |-> s.x]>> ELSE << >>)
    [] s.k = "set" -> <<[r |-> "array_set", x |-> s.x, i |-> s.i, e |-> s.e]>>
    [] s.k = "print" -> <<[r |-> "call_print", e |-> s.e]>>
    [] s.k = "do" -> <<Let("_", s.e, "value")>>
    [] s.k = "seal" -> <<[r |-> "seal", x |-> s.x, e |-> Name(s.x)]>>
    [] s.k = "for" ->
         <<RBlock("block",
             <<Let("start", s.from, "range_integer"), Let("stop", s.to, "range_integer"), Let("step", s.by, "range_integer"),
               R("nonzero"), Copy("index", "start"),
               RBlock("while_index", RangeBody(s, mad))>>)>>
    [] s.k = "each" ->
         <<RBlock("block",
             <<Let("items", s.e, "array"),
               RBlock("for_item", <<R("loop_tick"), Insert(s.x, "item")>> \o Generate(s.body, mad))>>)>>
    [] s.k = "while" -> <<RBlock("loop", <<[r |-> "break_unless", e |-> s.e], R("loop_tick")>> \o Generate(s.body, mad))>>
    [] s.k = "if" ->
         <<[r |-> "if", tests |-> [i \in DOMAIN s.branches |-> s.branches[i][1]],
            bodies |-> [i \in DOMAIN s.branches |-> Generate(s.branches[i][2], mad)] \o <<Generate(s.otherwise, mad)>>]>>
    [] s.k = "switch" ->
         <<RBlock("block",
             <<Let("switch_value", s.e, "value"), R("let_unmatched")>>
             \o [i \in DOMAIN s.cases |->
                   RBlock("if_unmatched",
                     <<Let("case_value", s.cases[i][1], "value"),
                       RBlock("if_equal", <<R("matched")>> \o Generate(s.cases[i][2], mad))>>)]
             \o <<RBlock("if_unmatched", Generate(s.otherwise, mad))>>)>>

Generate(stmts, mad) == FoldLeft(LAMBDA code, s : code \o Generated(s, mad), << >>, stmts)

-----------------------------------------------------------------------------
(* The interpreter.  A result is a value, or a flow, and the state m after *)
(* it; an error stays in m.                                                *)
Is(v, m) == [v |-> v, m |-> m]
Raise(m, error) == [v |-> Wrong, m |-> [m EXCEPT !.error = error]]
Then(r, F(_, _)) == IF r.m.error # "" THEN r ELSE F(r.v, r.m)
Checked(v, m) == IF v = Wrong THEN Raise(m, "error") ELSE Is(v, m)
Tick(program, m) == IF m.steps >= Limit(program) THEN Raise(m, "error") ELSE Is("next", [m EXCEPT !.steps = @ + 1])

RECURSIVE Eval(_, _, _), EvalAll(_, _, _), Call(_, _, _, _), Exec(_, _, _), Block(_, _, _), Branch(_, _, _, _, _), Cases(_, _, _, _, _, _)
RECURSIVE RangeLoop(_, _, _, _, _, _), Each(_, _, _, _), Repeat(_, _, _), Rust(_, _, _)

Eval(program, e, m) ==
  CASE e.k = "num" -> Is(Quantity(e.n, e.d), m)
    [] e.k = "name" -> Checked(IF e.x \in DOMAIN m.env THEN m.env[e.x] ELSE Wrong, m)
    [] e.k = "array" -> Then(EvalAll(program, e.items, m), LAMBDA vs, n : Checked(IF Uniform(vs) THEN Array(vs) ELSE Wrong, n))
    [] e.k = "index" -> Then(EvalAll(program, <<e.a, e.i>>, m), LAMBDA vs, n : Checked(Element(vs[1], vs[2]), n))
    [] e.k = "+" -> Then(EvalAll(program, <<e.l, e.r>>, m), LAMBDA vs, n : Checked(Binary(e.k, vs[1], vs[2]), n))
    [] e.k \in {"==", "<"} -> Then(EvalAll(program, <<e.l, e.r>>, m), LAMBDA vs, n : Checked(Compare(e.k, vs[1], vs[2]), n))
    [] e.k \in {"and", "or"} ->
         Then(Eval(program, e.l, m), LAMBDA v, n :
           IF v.t # "b" THEN Raise(n, "error")
           ELSE IF v.b = (e.k = "or") THEN Is(v, n)
           ELSE Then(Eval(program, e.r, n), LAMBDA w, o : Checked(IF w.t = "b" THEN w ELSE Wrong, o)))
    [] e.k = "not" -> Then(Eval(program, e.e, m), LAMBDA v, n : Checked(IF v.t = "b" THEN Bool(~v.b) ELSE Wrong, n))
    [] e.k = "call" -> Call(program, e.f, e.args, m)

EvalAll(program, es, m) ==
  IF es = << >> THEN Is(<< >>, m)
  ELSE Then(Eval(program, Head(es), m), LAMBDA v, n :
         Then(EvalAll(program, Tail(es), n), LAMBDA vs, o : Is(<<v>> \o vs, o)))

(* eval_user_function: the depth is checked before the arguments are       *)
(* evaluated; a body has to return, and no loop control gets out of it.    *)
EvalUserFunction(program, f, args, m) ==
  LET fn == Declared(program, f)
  IN IF fn = Wrong \/ m.depth >= MaxDepth THEN Raise(m, "error")
     ELSE IF Len(args) # Len(fn.params) THEN Raise(m, "error")
     ELSE Then(EvalAll(program, args, m), LAMBDA vs, n :
       Then(Block(program, fn.body, [n EXCEPT !.env = Local(fn.params, vs), !.depth = @ + 1, !.returned = Wrong]), LAMBDA flow, o :
         IF flow = "next" THEN Raise(o, "error")
         ELSE IF flow # "return" \/ o.returned = Wrong THEN Raise(o, "escaped")
         ELSE Is(o.returned, [o EXCEPT !.env = n.env, !.depth = n.depth, !.returned = n.returned])))

(* goblin_call: the arguments first, then the depth of the callee, in an   *)
(* environment of its own; the steps are shared.                           *)
GoblinCall(program, f, args, m) ==
  Then(EvalAll(program, args, m), LAMBDA vs, n :
    LET fn == Declared(program, f)
    IN IF n.depth + 1 > MaxDepth \/ fn = Wrong THEN Raise(n, "error")
       ELSE IF Len(args) # Len(fn.params) THEN Raise(n, "error")
       ELSE Then(Rust(program, Generate(fn.body, FALSE),
                      [n EXCEPT !.env = Local(fn.params, vs), !.scopes = << >>, !.depth = @ + 1]), LAMBDA flow, o :
         IF flow # "return" THEN Raise(o, "error")
         ELSE Is(o.returned, [o EXCEPT !.env = n.env, !.scopes = n.scopes, !.depth = n.depth])))

Call(program, f, args, m) ==
  IF m.native THEN GoblinCall(program, f, args, m) ELSE EvalUserFunction(program, f, args, m)

(* The loops of eval_stmt_flow: one tick for every entry of a body.        *)
RangeLoop(program, s, i, to, by, m) ==
  IF ~(IF by > 0 THEN i < to ELSE i > to) THEN Is("next", m)
  ELSE Then(Tick(program, m), LAMBDA tick, n :
    Then(Block(program, s.body, [n EXCEPT !.env = Put(@, s.x, Quantity(i, "1"))]), LAMBDA flow, o :
      IF flow = "break" THEN Is("next", o) ELSE IF flow = "return" THEN Is("return", o)
      ELSE RangeLoop(program, s, i + by, to, by, o)))

Each(program, s, vs, m) ==
  IF vs = << >> THEN Is("next", m)
  ELSE Then(Tick(program, m), LAMBDA tick, n :
    Then(Block(program, s.body, [n EXCEPT !.env = Put(@, s.x, Head(vs))]), LAMBDA flow, o :
      IF flow = "break" THEN Is("next", o) ELSE IF flow = "return" THEN Is("return", o)
      ELSE Each(program, s, Tail(vs), o)))

Repeat(program, s, m) ==
  Then(Eval(program, s.e, m), LAMBDA v, l :
    IF v.t # "b" THEN Raise(l, "error")
    ELSE IF ~v.b THEN Is("next", l)
    ELSE Then(Tick(program, l), LAMBDA tick, n :
      Then(Block(program, s.body, n), LAMBDA flow, o :
        IF flow = "break" THEN Is("next", o) ELSE IF flow = "return" THEN Is("return", o) ELSE Repeat(program, s, o))))

Branch(program, branches, i, otherwise, m) ==
  IF i > Len(branches) THEN Block(program, otherwise, m)
  ELSE Then(Eval(program, branches[i][1], m), LAMBDA v, n :
    IF v.t # "b" THEN Raise(n, "error")
    ELSE IF v.b THEN Block(program, branches[i][2], n) ELSE Branch(program, branches, i + 1, otherwise, n))

Cases(program, v, cases, i, otherwise, m) ==
  IF i > Len(cases) THEN Block(program, otherwise, m)
  ELSE Then(Eval(program, cases[i][1], m), LAMBDA w, n :
    Then(Checked(Compare("==", v, w), n), LAMBDA same, o :
      IF same.b THEN Block(program, cases[i][2], o) ELSE Cases(program, v, cases, i + 1, otherwise, o)))

(* eval_stmt_flow.                                                         *)
Exec(program, s, m) ==
  CASE s.k \in {"g_func", "budget", "mad"} -> Is("next", m)
    [] s.k \in {"break", "continue"} -> Is(s.k, m)
    [] s.k = "return" -> Then(Eval(program, s.e, m), LAMBDA v, n : Is("return", [n EXCEPT !.returned = v]))
    [] s.k = "assign" ->
         Then(Eval(program, s.e, m), LAMBDA v, n :
           Is("next", [n EXCEPT !.env = Put(@, s.x, v),
                                !.final = IF IsMad(program) /\ n.depth = 0 THEN @ \union {s.x} ELSE @]))
    [] s.k = "set" ->
         Then(EvalAll(program, <<s.i, s.e>>, m), LAMBDA vs, n :
           Then(Checked(IF s.x \in DOMAIN n.env THEN Replace(n.env[s.x], vs[1], vs[2]) ELSE Wrong, n), LAMBDA a, o :
             Is("next", [o EXCEPT !.env = Put(@, s.x, a)])))
    [] s.k = "print" -> Then(Eval(program, s.e, m), LAMBDA v, n : Is("next", [n EXCEPT !.out = Append(@, v)]))
    [] s.k = "do" -> Then(Eval(program, s.e, m), LAMBDA v, n : Is("next", n))
    [] s.k = "seal" -> Then(Eval(program, Name(s.x), m), LAMBDA v, n : Is("next", [n EXCEPT !.sealed = Put(@, s.x, v)]))
    [] s.k = "for" ->
         Then(EvalAll(program, <<s.from, s.to, s.by>>, m), LAMBDA vs, n :
           IF (\E i \in 1..3 : ~Integer(vs[i])) \/ vs[3].n = 0 THEN Raise(n, "error")
           ELSE RangeLoop(program, s, vs[1].n, vs[2].n, vs[3].n, n))
    [] s.k = "each" ->
         Then(Eval(program, s.e, m), LAMBDA v, n : IF v.t # "a" THEN Raise(n, "error") ELSE Each(program, s, v.items, n))
    [] s.k = "while" -> Repeat(program, s, m)
    [] s.k = "if" -> Branch(program, s.branches, 1, s.otherwise, m)
    [] s.k = "switch" -> Then(Eval(program, s.e, m), LAMBDA v, n : Cases(program, v, s.cases, 1, s.otherwise, n))

Block(program, stmts, m) ==
  IF stmts = << >> THEN Is("next", m)
  ELSE Then(Exec(program, Head(stmts), m), LAMBDA flow, n :
         IF flow = "next" THEN Block(program, Tail(stmts), n) ELSE Is(flow, n))

Empty == [x \in {} |-> Wrong]
Start(native) ==
  [env |-> Empty, out |-> << >>, sealed |-> Empty, final |-> {}, steps |-> 0, depth |-> 0,
   returned |-> Wrong, error |-> "", native |-> native, scopes |-> << >>]
Interpreted(program) ==
  LET end == Block(program, program, Start(FALSE))
  IN IF end.m.error = "" /\ end.v # "next" THEN Raise(end.m, "escaped").m ELSE end.m

-----------------------------------------------------------------------------
(* What rustc refuses: break outside a loop, a value returned from         *)
(* goblin_main, and, when borrow is asked for, array_set(&mut goblin_env, .., e) when e reads         *)
(* goblin_env while the first argument holds it.                           *)
RECURSIVE ReadsEnv(_)
ReadsEnv(e) ==
  CASE e.k = "num" -> FALSE
    [] e.k = "name" -> TRUE
    [] e.k = "array" -> \E i \in DOMAIN e.items : ReadsEnv(e.items[i])
    [] e.k = "index" -> ReadsEnv(e.a) \/ ReadsEnv(e.i)
    [] e.k = "not" -> ReadsEnv(e.e)
    [] e.k = "call" -> \E i \in DOMAIN e.args : ReadsEnv(e.args[i])
    [] OTHER -> ReadsEnv(e.l) \/ ReadsEnv(e.r)

RECURSIVE Builds(_, _, _, _)
Builds(code, function, loops, borrow) ==
  \A j \in DOMAIN code :
    LET c == code[j]
        in == loops \/ c.r \in {"while_index", "for_item", "loop"}
    IN /\ c.r \in {"break", "continue"} => loops
       /\ c.r = "return" => function
       /\ borrow /\ c.r = "array_set" => ~ReadsEnv(c.i) /\ ~ReadsEnv(c.e)
       /\ c.r = "if" => \A i \in DOMAIN c.bodies : Builds(c.bodies[i], function, loops, borrow)
       /\ "body" \in DOMAIN c => Builds(c.body, function, in, borrow)

(* The locals: a scope is a function from the names let in it to values.   *)
Has(m, x) == CHOOSE i \in DOMAIN m.scopes : x \in DOMAIN m.scopes[i] /\ \A j \in i + 1..Len(m.scopes) : x \notin DOMAIN m.scopes[j]
Get(m, x) == m.scopes[Has(m, x)][x]
Bind(m, x, v) == [m EXCEPT !.scopes[Len(m.scopes)] = Put(@, x, v)]
Store(m, x, v) == [m EXCEPT !.scopes[Has(m, x)][x] = v]

As(as, v) ==
  CASE as = "range_integer" -> IF Integer(v) THEN v ELSE Wrong
    [] as = "array" -> IF v.t = "a" THEN v ELSE Wrong
    [] OTHER -> v

RECURSIVE Step(_, _, _), Steps(_, _, _), WhileIndex(_, _, _), ForItem(_, _, _, _), Loop(_, _, _), IfElse(_, _, _, _)
Rust(program, code, m) ==
  Then(Steps(program, code, [m EXCEPT !.scopes = Append(@, Empty)]), LAMBDA flow, n : Is(flow, [n EXCEPT !.scopes = Front(@)]))

Steps(program, code, m) ==
  IF code = << >> THEN Is("next", m)
  ELSE Then(Step(program, Head(code), m), LAMBDA flow, n :
         IF flow = "next" THEN Steps(program, Tail(code), n) ELSE Is(flow, n))

WhileIndex(program, c, m) ==
  IF ~(IF Get(m, "step").n > 0 THEN Get(m, "index").n < Get(m, "stop").n ELSE Get(m, "index").n > Get(m, "stop").n)
    THEN Is("next", m)
  ELSE Then(Rust(program, c.body, m), LAMBDA flow, n :
         IF flow = "break" THEN Is("next", n) ELSE IF flow = "return" THEN Is(flow, n) ELSE WhileIndex(program, c, n))

ForItem(program, c, items, m) ==
  IF items = << >> THEN Is("next", m)
  ELSE Then(Rust(program, <<[r |-> "item", v |-> Head(items)]>> \o c.body, m), LAMBDA flow, n :
         IF flow = "break" THEN Is("next", n) ELSE IF flow = "return" THEN Is(flow, n) ELSE ForItem(program, c, Tail(items), n))

Loop(program, c, m) ==
  Then(Rust(program, c.body, m), LAMBDA flow, n :
    IF flow = "break" THEN Is("next", n) ELSE IF flow = "return" THEN Is(flow, n) ELSE Loop(program, c, n))

IfElse(program, c, i, m) ==
  IF i > Len(c.tests) THEN Rust(program, c.bodies[i], m)
  ELSE Then(Eval(program, c.tests[i], m), LAMBDA v, n :
    IF v.t # "b" THEN Raise(n, "error") ELSE IF v.b THEN Rust(program, c.bodies[i], n) ELSE IfElse(program, c, i + 1, n))

Step(program, c, m) ==
  CASE c.r \in {"break", "continue"} -> Is(c.r, m)
    [] c.r = "return" -> Then(Eval(program, c.e, m), LAMBDA v, n : Is("return", [n EXCEPT !.returned = v]))
    [] c.r = "let" -> Then(Eval(program, c.e, m), LAMBDA v, n : Then(Checked(As(c.as, v), n), LAMBDA w, o : Is("next", Bind(o, c.x, w))))
    [] c.r = "copy" -> Is("next", Bind(m, c.x, Get(m, c.from)))
    [] c.r = "item" -> Is("next", Bind(m, "item", c.v))
    [] c.r = "insert" -> Is("next", [m EXCEPT !.env = Put(@, c.x, Get(m, c.from))])
    [] c.r = "final" -> Is("next", [m EXCEPT !.final = @ \union {c.x}])
    [] c.r = "array_set" ->
         Then(EvalAll(program, <<c.i, c.e>>, m), LAMBDA vs, n :
           Then(Checked(IF c.x \in DOMAIN n.env THEN Replace(n.env[c.x], vs[1], vs[2]) ELSE Wrong, n), LAMBDA a, o :
             Is("next", [o EXCEPT !.env = Put(@, c.x, a)])))
    [] c.r = "call_print" -> Then(Eval(program, c.e, m), LAMBDA v, n : Is("next", [n EXCEPT !.out = Append(@, v)]))
    [] c.r = "seal" -> Then(Eval(program, c.e, m), LAMBDA v, n : Is("next", [n EXCEPT !.sealed = Put(@, c.x, v)]))
    [] c.r = "nonzero" -> IF Get(m, "step").n = 0 THEN Raise(m, "error") ELSE Is("next", m)
    [] c.r = "loop_tick" -> Tick(program, m)
    [] c.r = "advance" -> Is("next", Store(m, "index", Quantity(Get(m, "index").n + Get(m, "step").n, "1")))
    [] c.r = "break_unless" ->
         Then(Eval(program, c.e, m), LAMBDA v, n :
           IF v.t # "b" THEN Raise(n, "error") ELSE Is(IF v.b THEN "next" ELSE "break", n))
    [] c.r = "let_unmatched" -> Is("next", Bind(m, "switch_matched", Bool(FALSE)))
    [] c.r = "matched" -> Is("next", Store(m, "switch_matched", Bool(TRUE)))
    [] c.r = "if_unmatched" -> IF Get(m, "switch_matched").b THEN Is("next", m) ELSE Rust(program, c.body, m)
    [] c.r = "if_equal" ->
         Then(Checked(Compare("==", Get(m, "switch_value"), Get(m, "case_value")), m), LAMBDA same, n :
           IF same.b THEN Rust(program, c.body, n) ELSE Is("next", n))
    [] c.r = "if" -> IfElse(program, c, 1, m)
    [] c.r = "block" -> Rust(program, c.body, m)
    [] c.r = "while_index" -> WhileIndex(program, c, m)
    [] c.r = "for_item" -> ForItem(program, c, Get(m, "items").items, m)
    [] c.r = "loop" -> Loop(program, c, m)

(* generate: the bodies of the functions never keep final names.           *)
BuildsAll(program, borrow) ==
  /\ Builds(Generate(program, IsMad(program)), FALSE, FALSE, borrow)
  /\ \A i \in DOMAIN program :
       program[i].k = "g_func" => Builds(Generate(program[i].body, FALSE), TRUE, FALSE, borrow)
Compiled(program) == Rust(program, Generate(program, IsMad(program)), Start(TRUE)).m

-----------------------------------------------------------------------------
(* A break, a continue or a return never leaves the construct it belongs   *)
(* to: what the parser lets through reaches no evaluator error of that     *)
(* kind, and the generated program has no stray one.                       *)
FlowContained(program) ==
  Parses(program) => Interpreted(program).error # "escaped" /\ BuildsAll(program, FALSE)

(* Where the generated program builds, it does what the interpreter does:  *)
(* it fails or not alike, and a program that ends shows the same lines,    *)
(* seals the same values, names the same final state and counts the same   *)
(* loop steps.                                                             *)
Agrees(program) ==
  LET i == Interpreted(program)
      n == Compiled(program)
  IN /\ (i.error = "") = (n.error = "")
     /\ i.error = "" => /\ i.out = n.out /\ i.sealed = n.sealed /\ i.steps = n.steps
                         /\ i.final = n.final /\ \A x \in i.final : i.env[x] = n.env[x]
NativeAgrees(program) == Parses(program) /\ BuildsAll(program, TRUE) => Agrees(program)

(* The claim of docs/INTERACTION_AND_ARRAYS.md: interpreted and compiled   *)
(* execution give the same results, so what runs there builds here.        *)
NativeRuns(program) == Parses(program) /\ Interpreted(program).error = "" => BuildsAll(program, TRUE)
=============================================================================
