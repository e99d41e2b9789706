---------------------------- MODULE AstraMeaning ----------------------------
(***************************************************************************)
(* What a source program means: an evaluator over the syntax tree, from    *)
(* left to right, with short-circuit && and ||, block-structured variables *)
(* and a division by zero that ends the program (RFC 001, 3 to 7).  It is  *)
(* the specification that optimizer, code generator and machine together   *)
(* have to meet, and knows of none of them.                                *)
(*                                                                         *)
(* A `for` runs nothing, a cast to the operand's own type and an await do   *)
(* nothing; the programs evaluated have no other casts and no body in a     *)
(* `for`.                                                                   *)
(*                                                                         *)
(* The state s of an evaluation: the variables in scope, innermost last,   *)
(* the output, the last value, the last arguments, and how it goes on.     *)
(***************************************************************************)
EXTENDS AstraAST

Begin(vars0) == [env |-> vars0, out |-> <<>>, val |-> Null, args |-> <<>>, how |-> "go"]
Goes(s) == s.how = "go"

Bindings(xs, vs) == [i \in DOMAIN xs |-> [name |-> xs[i], val |-> vs[i], mut |-> FALSE]]
Innermost(env, x) ==
    CHOOSE i \in DOMAIN env :
        <<env[i].name>> = x /\ \A j \in i + 1 .. Len(env) : <<env[j].name>> # x

TheOne(S) == CHOOSE x \in S : TRUE
Apply(op, x, y) ==
    CASE op \in {"==", "!="} -> BoolV((x = y) = (op = "=="))
      [] op \in {"/", "%"} -> IntV(TheOne(IntDivision(BinaryOpcode(op), x.v, y.v)))
      [] OTHER -> TheOne(BinaryResults(BinaryOpcode(op), x, y))

(* The function a name stands for: its path, or the last name of it.        *)
RECURSIVE Declared(_, _)
Declared(items, prefix) ==
    UNION {LET i == items[n]
           IN  CASE i.k = "fn" -> {[path |-> Append(prefix, i.name), fn |-> i]}
                 [] i.k = "mod" -> Declared(i.items, Append(prefix, i.name))
                 [] OTHER -> {}
           : n \in DOMAIN items}
Named(fns, path) ==
    LET exact == {f \in fns : f.path = path}
        bare == {f \in fns : f.path[Len(f.path)] = path[Len(path)]}
    IN  TheOne(IF exact # {} THEN exact ELSE bare).fn

RECURSIVE Eval(_, _, _)
RECURSIVE EvalArgs(_, _, _, _)
RECURSIVE Run(_, _, _)
RECURSIVE RunAll(_, _, _)

EvalArgs(es, vs, s, fns) ==
    IF es = <<>> THEN [s EXCEPT !.args = vs]
    ELSE LET x == Eval(Head(es), s, fns)
         IN  IF Goes(x) THEN EvalArgs(Tail(es), Append(vs, x.val), x, fns) ELSE x

(* A call has its own variables, and ends at its return or its last statement. *)
EvalCall(e, s, fns) ==
    LET a == EvalArgs(e.args, <<>>, s, fns)
        f == Named(fns, Callee(e))
        r == Run(TheOne(f.body), [a EXCEPT !.env = Bindings(Names(f.params), a.args)], fns)
    IN  IF ~Goes(a) THEN a
        ELSE IF Callee(e) \in {<<"print">>, <<"println">>}
        THEN [a EXCEPT !.out = Append(@, [stream |-> "out", value |-> a.args[1]])]
        ELSE [r EXCEPT !.env = a.env, !.how = IF @ = "return" THEN "go" ELSE @]

EvalBinop(e, s, fns) ==
    LET l == Eval(e.lhs, s, fns)
        r == Eval(e.rhs, l, fns)
        decided == l.val = BoolV(e.op = "||")
    IN  CASE ~Goes(l) -> l
          [] Goes(l) /\ e.op \in {"&&", "||"} -> IF decided THEN l ELSE r
          [] Goes(l) /\ e.op \notin {"&&", "||"} ->
                IF ~Goes(r) THEN r
                ELSE IF e.op \in {"/", "%"} /\ r.val.v = 0 THEN [r EXCEPT !.how = "divzero"]
                ELSE [r EXCEPT !.val = Apply(e.op, l.val, r.val)]

Eval(e, s, fns) ==
    CASE e.k = "int" -> [s EXCEPT !.val = IntV(e.v)]
      [] e.k = "bool" -> [s EXCEPT !.val = BoolV(e.v = 1)]
      [] e.k = "float" -> [s EXCEPT !.val = FloatV(e.v)]
      [] e.k = "str" -> [s EXCEPT !.val = StrV(Len(e.text))]
      [] e.k = "ident" -> [s EXCEPT !.val = s.env[Innermost(s.env, e.path)].val]
      [] e.k = "binop" -> EvalBinop(e, s, fns)
      [] e.k \in {"cast", "await"} -> Eval(e.operand, s, fns)
      [] e.k = "unop" ->
            LET x == Eval(e.operand, s, fns)
            IN  IF Goes(x) THEN [x EXCEPT !.val = TheOne(UnaryResults(UnaryOpcode(e.op), @))]
                ELSE x
      [] e.k = "call" -> EvalCall(e, s, fns)
      [] e.k = "assign" ->
            LET r == Eval(e.rhs, s, fns)
                i == Innermost(s.env, e.lhs.path)
            IN  CASE ~Goes(r) -> r
                  [] Goes(r) /\ s.env[i].mut -> [r EXCEPT !.env[i].val = r.val]
                  [] Goes(r) /\ ~s.env[i].mut -> [r EXCEPT !.how = "immutable"]

RunAll(ss, s, fns) ==
    IF ss = <<>> \/ ~Goes(s) THEN s ELSE RunAll(Tail(ss), Run(Head(ss), s, fns), fns)

(* What is declared in a block ends with it.                                *)
Run(st, s, fns) ==
    CASE st.k = "block" ->
            LET r == RunAll(st.stmts, s, fns)
            IN  [r EXCEPT !.env = SubSeq(@, 1, Len(s.env))]
      [] st.k = "let" ->
            LET r == IF st.init = {} THEN [s EXCEPT !.val = Null]
                     ELSE Eval(TheOne(st.init), s, fns)
            IN  [r EXCEPT !.env = Append(@, [name |-> st.name, val |-> r.val, mut |-> st.mut])]
      [] st.k = "for" -> Eval(st.iter, s, fns)
      [] st.k = "expr" -> Eval(st.expr, s, fns)
      [] st.k = "return" ->
            LET r == IF st.value = {} THEN s ELSE Eval(TheOne(st.value), s, fns)
            IN  IF Goes(r) THEN [r EXCEPT !.how = "return"] ELSE r
      [] st.k = "if" ->
            LET c == Eval(st.cond, s, fns)
            IN  IF ~Goes(c) THEN c
                ELSE IF c.val = BoolV(TRUE) THEN Run(st.then, c, fns)
                ELSE IF st.else = {} THEN c ELSE Run(TheOne(st.else), c, fns)
      [] st.k = "while" ->
            LET c == Eval(st.cond, s, fns)
                b == Run(st.body, c, fns)
            IN  IF ~Goes(c) \/ c.val = BoolV(FALSE) THEN c
                ELSE IF Goes(b) THEN Run(st, b, fns) ELSE b

(* The outcome of a program whose evaluation ends.                          *)
Meaning(items) ==
    LET fns == Declared(items, <<>>)
        r == Run(TheOne(Named(fns, <<"main">>).body), Begin(<<>>), fns)
    IN  [output |-> r.out, status |-> IF r.how \in {"go", "return"} THEN "ok" ELSE r.how]
=============================================================================
