----------------------------- MODULE MCCompiled -----------------------------
(***************************************************************************)
(* Source programs for TLC: expressions of up to three operators over      *)
(* constants, a variable and calls that print; and every main function of  *)
(* up to MainLength statements out of a list with loops, branches, early   *)
(* returns, blocks, dead code, recursion and calls.                        *)
(***************************************************************************)
EXTENDS AstraCompiled

CONSTANT MainLength   \* bound: statements in main after its declaration

X == Ident("x")
N == Ident("n")
Call1(f, a) == CallTo(<<f>>, <<a>>)
Say(e) == ExprStmt(Call1("println", e))
Set(x, e) == ExprStmt(Assign(Ident(x), e))
Let(x, e) == VarDecl(x, TRUE, {}, {e})
When(c, ss) == IfStmt(c, Block(ss), {})
Unless(c, ss, tt) == IfStmt(c, Block(ss), {Block(tt)})
True == BoolLit(TRUE)
False == BoolLit(FALSE)

(* f and t print their argument and return it; v counts down, returning     *)
(* early; fac, in a module, calls itself by its bare name, and the module   *)
(* has an f of its own.                                                     *)
Fn(x, type, ret, ss) == FnDecl(x, <<Typed("n", type)>>, ret, Block(ss))
Mod ==
    ModDecl("m",
         <<Fn("fac", I64, I64,
              <<When(Binop("<=", N, IntLit(1)), <<ReturnStmt({IntLit(1)})>>),
                ReturnStmt({Binop("*", N, Call1("fac", Binop("-", N, IntLit(1))))})>>),
           Fn("f", I64, I64, <<ReturnStmt({Binop("-", IntLit(0), N)})>>)>>)
Helpers ==
    <<ExternFn("host", <<Typed("n", I64)>>, I64),
      Fn("f", I64, I64, <<Say(N), ReturnStmt({N})>>),
      Fn("t", Bool, Bool, <<Say(N), ReturnStmt({N})>>),
      Fn("v", I64, Void,
         <<When(Binop("<", N, IntLit(1)), <<ReturnStmt({})>>), Say(N),
           ExprStmt(Call1("v", Binop("-", N, IntLit(1))))>>)>>

Main(ss) ==
    <<Mod, FnDecl("main", <<>>, Void, Block(<<Let("x", IntLit(2))>> \o ss))>> \o Helpers

-----------------------------------------------------------------------------
(* Expressions.  Left out are those where one operand calls or divides and  *)
(* the other has, whatever x is, the value that decides the operation: the  *)
(* optimizer then drops the call (MCDropped).                               *)

RECURSIVE Calls(_)
Calls(e) ==
    CASE e.k = "call" -> TRUE
      [] e.k = "binop" -> e.op \in {"/", "%"} \/ Calls(e.lhs) \/ Calls(e.rhs)
      [] e.k = "unop" -> Calls(e.operand)
      [] OTHER -> FALSE

Always(e, v) ==
    \A i \in 0 .. 3 : M!Eval(e, M!Begin(M!Bindings(<<"x">>, <<IntV(i)>>)), {}).val = v

DecidedBy(b, e) ==
    /\ ~Calls(e)
    /\ CASE b.op = "*" -> Always(e, IntV(0))
         [] b.op \in {"&&", "||"} -> Always(e, BoolV(b.op = "||"))
         [] OTHER -> FALSE

RECURSIVE Drops(_)
Drops(e) ==
    CASE e.k = "binop" ->
            \/ Drops(e.lhs) \/ Drops(e.rhs)
            \/ Calls(e.lhs) /\ DecidedBy(e, e.rhs)
            \/ Calls(e.rhs) /\ DecidedBy(e, e.lhs)
      [] e.k = "unop" -> Drops(e.operand)
      [] OTHER -> FALSE

Binops(ops, ls, rs) == {Binop(op, l, r) : op \in ops, l \in ls, r \in rs}

FX == Call1("f", X)
IntAtoms == {IntLit(0), IntLit(1), IntLit(3), Unop("-", IntLit(3)), X, FX}
Ints ==
    Binops({"+", "-", "*", "/", "<<", ">>", "&", "^"}, IntAtoms, IntAtoms)
      \cup Binops({"%"}, IntAtoms, {IntLit(1), IntLit(3), X})
      \cup Binops({"+", "-", "*"},
                  Binops({"-", "*"}, {IntLit(0), IntLit(3), X}, {IntLit(3), FX}),
                  {IntLit(0), IntLit(1), X})
BoolAtoms ==
    {True, False, Call1("t", True), Call1("t", False),
     Binop("<", X, IntLit(3)), Binop(">=", IntLit(1), IntLit(3))}
Bools2 == Binops({"&&", "||"}, BoolAtoms, BoolAtoms)
Inside == {Unop("!", b) : b \in {c \in Bools2 : c.lhs.k # "bool" /\ c.lhs # c.rhs}}
Bools == Bools2 \cup Binops({"&&", "||"}, BoolAtoms, Inside)

Kept(es) == {e \in es : ~Drops(e)}
Dropped(es) == {e \in es : Drops(e)}

Printing(es) == {<<Say(e)>> : e \in es}
Deciding(es) ==
    {<<Unless(e, <<Say(IntLit(1))>>, <<Say(IntLit(3))>>)>> : e \in es}

-----------------------------------------------------------------------------
(* Statements. *)

Statements ==
    {Say(X), Set("x", Binop("-", X, IntLit(1))), Say(Assign(X, FX)),
     ExprStmt(Call1("v", X)), ExprStmt(FX), ExprStmt(Binop("+", FX, IntLit(1))),
     Let("x", Binop("+", X, IntLit(1))),
     WhileStmt(Binop("<", IntLit(0), X),
               Block(<<VarDecl("y", TRUE, {I64}, {}), Set("y", X), Set("x", Binop("-", Ident("y"), IntLit(1))),
                       When(Binop("==", X, IntLit(1)), <<ExprStmt(Call1("v", X))>>)>>)),
     WhileStmt(Binop("&&", False, True), Block(<<Say(IntLit(0))>>)),
     Unless(True, <<Let("z", X), Say(Ident("z"))>>, <<Say(IntLit(0))>>),
     When(Binop("<", IntLit(3), IntLit(1)), <<Say(IntLit(0))>>),
     When(Binop("<", X, IntLit(1)), <<ReturnStmt({})>>),
     IfStmt(Binop("<", X, IntLit(2)), Block(<<Set("x", IntLit(3))>>),
            {Unless(Binop("<", X, IntLit(3)), <<Say(Unop("-", X))>>, <<Block(<<>>)>>)}),
     Say(CallTo(<<"m", "fac">>, <<IntLit(3)>>))}

Bodies == UNION {[1 .. k -> Statements] : k \in 0 .. MainLength}

Texts ==
    {<<Say(StrLit("hi")), VarDecl("s", FALSE, {Str}, {StrLit("")}), Say(Ident("s")),
       Say(StrLit("hi")), Say(FloatLit(0)), VarDecl("g", FALSE, {}, {FloatLit(1)}),
       Say(Ident("g"))>>}

-----------------------------------------------------------------------------
(* Programs for the semantic analyzer: every operator, call, condition,     *)
(* declaration, assignment and return over operands of every type.          *)
MixedAtoms ==
    {IntLit(3), X, True, Ident("b"), Ident("f"), Ident("q"), StrLit("s"), FloatLit(1),
     Call1("f", X), Call1("v", X), Call1("t", True), CallTo(<<"m", "f">>, <<X>>)}

(* Where the analyzer asks less than the machine: void values, and values   *)
(* other than integers under an integer comparison or minus; see README.    *)
IntTyped == {IntLit(3), X, Call1("f", X), CallTo(<<"m", "f">>, <<X>>)}
Valued == MixedAtoms \ {Ident("f"), Call1("v", X)}
Mixed ==
    (Binops({"+", "/", "<<", "&&"}, MixedAtoms, MixedAtoms)
       \ Binops({"+", "/"}, {FloatLit(1)}, {FloatLit(1)}))
      \cup Binops({"<", "=="}, IntTyped, MixedAtoms)
      \cup {Unop("!", e) : e \in MixedAtoms} \cup {Unop("-", e) : e \in MixedAtoms \ {FloatLit(1)}}
      \cup {Call1(g, e) : g \in {"f", "t", "host", "x", "q", "fac"}, e \in MixedAtoms}
      \cup {CallTo(<<"f">>, <<>>), CallTo(<<"f">>, <<X, X>>), CallTo(<<"println">>, <<>>),
            CallExpr(Binop("+", X, X), <<X>>)}
      \cup {Assign(l, e) : l \in {X, Ident("b"), Ident("q"), IntLit(3)}, e \in MixedAtoms}
Typing ==
    {<<Say(e)>> : e \in Mixed \cup Valued}
      \cup {<<VarDecl("y", FALSE, ann, {e}), Say(Ident("y"))>> :
              ann \in {{}, {I64}, {Bool}, {Void}}, e \in MixedAtoms \ {Ident("f")}}
      \cup {<<When(e, <<Say(X)>>), WhileStmt(e, Block(<<ReturnStmt({})>>))>> : e \in MixedAtoms}
      \cup {<<ReturnStmt({e})>> : e \in MixedAtoms \ {Ident("f"), Call1("v", X)}}
      \cup {<<Block(<<VarDecl("y", mut, {}, {X})>> \o ss)>> :
              mut \in BOOLEAN, ss \in {<<Set("y", X), Say(Ident("y"))>>,
                                       <<VarDecl("y", TRUE, {}, {True})>>}}
      \cup {<<Block(<<VarDecl("y", TRUE, {}, {X})>>), Say(Ident("y"))>>}

(* A function nobody calls, with what the machine cannot make yet: structs, *)
(* pointers, arrays; and a `for` around nothing.                            *)
Shapes ==
    {FieldExpr(Ident("p"), x) : x \in {"a", "o", "q"}}
      \cup {FieldExpr(FieldExpr(Ident("p"), "o"), "b"), FieldExpr(N, "a"), NullLit,
            IndexExpr(Ident("r"), N), IndexExpr(Ident("r"), Ident("q")), Unop("*", Ident("w")),
            AwaitExpr(Call1("f", N)), CastExpr(N, F64), CastExpr(Ident("q"), I64),
            Assign(FieldExpr(Ident("p"), "a"), N), Assign(N, N), Assign(Ident("p"), N),
            Binop("==", Ident("p"), Ident("p")), Binop("==", Ident("w"), Ident("r"))}
Unused(ss) ==
    <<StructDecl("P", <<Typed("a", I64), Typed("o", NamedType("O"))>>), UseStmt(<<"io">>)>>
      \o Main(<<ForStmt("i", FX, Block(<<>>)), Say(CastExpr(AwaitExpr(FX), I64))>>)
      \o <<FnDecl("z", <<Typed("n", I64), Typed("p", NamedType("P")), Typed("w", PointerTo(I64)),
                        Typed("r", ArrayOf(I64, -1))>>, I64, Block(Append(ss, ReturnStmt({N}))))>>
Shaped ==
    {Unused(ss) : ss \in {<<ExprStmt(e)>> : e \in Shapes} \cup {<<ReturnStmt({e})>> : e \in Shapes}
                   \cup {<<VarDecl("y", FALSE, {}, {e})>> : e \in Shapes}
                   \cup {<<ForStmt("i", e, Block(<<Set(x, N)>>))>> : x \in {"i", "x"}, e \in {N, NullLit}}}

(* A bare name that two modules declare alike: either may be called.        *)
Same(m) == ModDecl(m, <<Fn("k", I64, I64, <<ReturnStmt({N})>>)>>)
Either == {<<Same("a"), Same("b")>> \o Main(<<Say(Call1("k", X))>>)}

Mains(bodies) == {Main(ss) : ss \in bodies}
WellTyped == Mains(Printing(Kept(Ints)) \cup Deciding(Kept(Bools)) \cup Bodies \cup Texts)
IllTyped ==
    Mains({<<VarDecl("b", FALSE, {}, {True})>> \o ss : ss \in Typing})
      \cup {<<>>, Helpers, <<FnDecl("main", <<>>, I64, Block(<<ReturnStmt({IntLit(1)})>>))>>,
            <<Fn("main", I64, Void, <<>>)>>, <<ExternFn("main", <<>>, Void)>>}
      \cup {Main(<<>>) \o <<Fn("z", I64, t, ss)>> :
              t \in {I64, Void, Bool}, ss \in {<<ReturnStmt({})>>, <<ReturnStmt({N})>>}}
MCSources == WellTyped \cup IllTyped \cup Shaped \cup Either
MCDropped == Mains(Printing(Dropped(Ints)) \cup Deciding(Dropped(Bools)))

(* A variable declared in a block, under the name of an outer one.          *)
MCShadowed ==
    {Main(<<When(c, <<Let("x", IntLit(3))>>), Say(X)>>) :
       c \in {Binop("<", X, IntLit(1)), Binop("<", IntLit(1), X)}}

(* The analyzer accepts what is well typed.                                 *)
ASSUME AllAccepted == \A s \in WellTyped : S!Accepts(s)
=============================================================================
