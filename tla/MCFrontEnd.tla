----------------------------- MODULE MCFrontEnd -----------------------------
(***************************************************************************)
(* Texts for TLC: every string of some characters each, up to a length,    *)
(* where tokens, comments, strings and numbers meet; every sequence of a   *)
(* few tokens; and trees written down: operators of every level in every   *)
(* place, statements and items of every form.                              *)
(***************************************************************************)
EXTENDS AstraFrontEnd

CONSTANTS
    TextLength,   \* bound: characters of an arbitrary text
    SoupLength    \* bound: tokens of an arbitrary sequence

-----------------------------------------------------------------------------
RECURSIVE Strings(_, _)
Strings(chars, n) ==
    IF n = 0 THEN {""}
    ELSE LET shorter == Strings(chars, n - 1)
         IN  shorter \cup {c \o s : c \in chars, s \in shorter}

Alphabets ==
    {{"/", "*", "\n", "x"}, {"1", ".", "e", "+"}, {"\"", "\\", "\n", "x"},
     {"<", "=", ">", "-", "@"}, {"a", "s", "1", " ", "_"}, {":", "&", "|", "!"}}
Raw == UNION {Strings(a, TextLength) : a \in Alphabets}

RECURSIVE Join(_)
Join(toks) == IF toks = <<>> THEN "" ELSE Head(toks) \o " " \o Join(Tail(toks))

Soup(toks) == UNION {[1 .. n -> toks] : n \in 0 .. SoupLength}
Around(before, soups, after) == {before \o s \o after : s \in soups}
Soups ==
    {Join(s) : s \in
       Soup({"a", "1", "(", ")", "-", "=", ";", "{", "}", "if", "return"})
         \cup Around(<<"let">>, Soup({"mut", "a", ":", "=", "i64", "*", ";"}), <<"1", ";">>)
         \cup Around(<<"a", "=">>, Soup({"b", "1", "+", "=", ".", ",", "(", ")", "as", "*"}), <<";">>)
         \cup Around(<<"fn", "f", "(">>, Soup({"a", ":", ",", "bool", ")", "->", "{"}), <<"{", "}">>)
         \cup Around(<<"if", "a">>, Soup({"{", "}", "else", "if", "a", ";"}), <<"{", "}">>)
         \cup Around(<<>>, Soup({"pub", "async", "extern", "mod", "m", "{"}), <<"fn", "f", "(", ")", "{", "}">>)
         \cup Around(<<"[">>, Soup({"a", "[", "]", "::", ";", "0"}), <<"]", ";">>)}

-----------------------------------------------------------------------------
A == Ident("a")
B == Path(<<"m", "b">>)
I == IntLit(1)

(* One operator of every level, around each other on every side.            *)
Infix == {"||", "&&", "|", "^", "&", "==", "<", "<<", "-", "*", "%"}
Around1(l, r) ==
    {Binop(op, l, r) : op \in Infix} \cup {Assign(l, r)}
Suffixed == {FieldExpr(A, "x"), IndexExpr(A, I), CallExpr(A, <<>>), CallExpr(B, <<A, I>>)}
Flat == Around1(A, I) \cup Suffixed
         \cup {CastExpr(A, F64), Unop("-", A), AwaitExpr(A), StrLit("s"), FloatLit(0), NullLit,
               BoolLit(TRUE)}
Prefixed(e) == {Unop("!", e), Unop("&", e), AwaitExpr(e)}
Deep ==
    UNION {Around1(A, e) \cup Around1(e, B)
             \cup {CastExpr(e, PointerTo(I64)), FieldExpr(e, "x"), IndexExpr(e, e),
                   CallExpr(e, <<e, A>>)} : e \in Flat}
      \cup UNION {Prefixed(e) : e \in Flat \ Suffixed}

Inner ==
    {ExprStmt(A), ReturnStmt({}), ReturnStmt({A}), VarDecl("a", TRUE, {ArrayOf(Bool, 3)}, {}),
     VarDecl("a", FALSE, {}, {A}), Block(<<>>), WhileStmt(A, Block(<<ExprStmt(I)>>)),
     ForStmt("i", A, Block(<<>>))}
Stmts ==
    Inner \cup {Block(<<s, t>>) : s, t \in Inner}
      \cup {IfStmt(A, Block(<<s>>), e) : s \in Inner,
              e \in {{}, {Block(<<>>)}, {IfStmt(I, Block(<<>>), {})},
                     {IfStmt(I, Block(<<>>), {Block(<<ExprStmt(A)>>)})}}}
      \cup {IfStmt(A, Block(<<IfStmt(I, Block(<<>>), e)>>), f) : e, f \in {{}, {Block(<<>>)}}}

Params == {<<>>, <<Typed("a", I64)>>, <<Typed("a", NamedType("T")), Typed("b", PointerTo(ArrayOf(Str, -1)))>>}
Decls ==
    {FnDecl("f", ps, t, Block(<<ExprStmt(A)>>)) : ps \in Params, t \in {Void, F64}}
      \cup {StructDecl("S", ps) : ps \in Params} \cup {UseStmt(<<"a">>), UseStmt(<<"a", "b">>)}
      \cup {ModDecl("m", <<FnDecl("f", <<>>, Void, Block(<<>>)), ModDecl("n", <<UseStmt(<<"a">>)>>)>>)}

Trees ==
    {<<ExprStmt(e)>> : e \in Flat \cup Deep} \cup {<<s>> : s \in Stmts \cup Decls}
      \cup {<<s, t>> : s \in Decls, t \in Decls \cup Inner}

(* A prefix operator on a call, an index or a field is not read back when   *)
(* it is written by the table: in these the parentheses are written out.    *)
PrefixWord(e) == IF e.k = "await" THEN "await" ELSE e.op
Bracketed(e) == <<PrefixWord(e), "(">> \o Write(e.operand) \o <<")", ";">>
OnSuffixed == UNION {Prefixed(e) : e \in Suffixed}

MCInputs ==
    {[text |-> Spell(t), meant |-> {}] : t \in Raw \cup Soups}
      \cup {[text |-> Spell(Join(WriteAll(t))), meant |-> {t}] : t \in Trees}
      \cup {[text |-> Spell(Join(Bracketed(e))), meant |-> {<<ExprStmt(e)>>}] : e \in OnSuffixed}
=============================================================================
