---------------------------- MODULE AstraParser ----------------------------
(***************************************************************************)
(* The parser: recursive descent over the tokens, with precedence climbing *)
(* for expressions.                                                        *)
(*                                                                         *)
(* Its state s: the tokens `toks`, the current one `at`, and the value     *)
(* `out` of what was parsed last.  An error is an exception that ends the  *)
(* parse: `ok` is FALSE from then on, and the parser stands at the end of  *)
(* the tokens, where no loop goes on.                                      *)
(***************************************************************************)
EXTENDS AstraAST, AstraLexer, SequencesExt

Cur(s) == s.toks[s.at]
Is(s, type) == Cur(s).type = type
IsIn(s, types) == Cur(s).type \in types
Consume(s) == [s EXCEPT !.at = IF @ < Len(s.toks) THEN @ + 1 ELSE @]
Match(s, type) == IF Is(s, type) THEN Consume(s) ELSE s
Error(s) == [s EXCEPT !.at = Len(s.toks), !.ok = FALSE]
Yield(s, x) == [s EXCEPT !.out = x]
Some(s) == Yield(s, {s.out})
Expect(s, type) == IF Is(s, type) THEN Consume(s) ELSE Error(s)
RECURSIVE Word(_)
Word(chars) == IF chars = <<>> THEN "" ELSE Head(chars) \o Word(Tail(chars))
Name(s) == Yield(Expect(s, "ident"), Word(Cur(s).text))
Start(toks, at) == [toks |-> toks, at |-> at, out |-> <<>>, ok |-> TRUE]

(* The numbers in the texts have few digits; what does not fit throws, and  *)
(* an array size is an int, narrower than a literal.                        *)
RECURSIVE NumberOf(_)
NumberOf(digits) ==
    IF digits = <<>> THEN 0
    ELSE 10 * NumberOf(Front(digits)) + (CHOOSE i \in 0 .. 9 : ToString(i) = Last(digits))
Number(s, limit) ==
    LET n == Expect(s, "int")
        value == NumberOf(Cur(s).text)
    IN  IF n.ok /\ value < limit THEN Yield(n, value) ELSE Error(n)

(* A float is zero if there is no other digit before its exponent; those    *)
(* too large or too small are left out.                                     *)
IsNonzero(chars) ==
    LET mantissa == RunEnd(chars, 0, Digits \cup {"."})
    IN  IF Chars(Slice(chars, 0, mantissa)) \subseteq {"0", "."} THEN 0 ELSE 1

(* The productions that need each other, under one recursive operator.      *)
RECURSIVE Parse(_, _, _)
ParseExpr(s, min) == Parse("expr", s, min)
ParseBlock(s) == Parse("block", s, 0)
ParseStmt(s) == Parse("stmt", s, 0)
ParseItem(s) == Parse("item", s, 0)

-----------------------------------------------------------------------------
(* parse_type.                                                              *)
RECURSIVE ParseType(_)
ParseType(s) ==
    LET inner == ParseType(Consume(s))
    IN  CASE Is(s, "*") -> Yield(inner, PointerTo(inner.out))
          [] Is(s, "[") /\ ~Is(inner, ";") -> Yield(Expect(inner, "]"), ArrayOf(inner.out, -1))
          [] Is(s, "[") /\ Is(inner, ";") ->
                LET n == Number(Consume(inner), HalfWord \div 2)
                IN  Yield(Expect(n, "]"), ArrayOf(inner.out, n.out))
          [] IsIn(s, PrimitiveWords) -> Yield(Consume(s), Prim(Word(Cur(s).text)))
          [] Is(s, "ident") -> Yield(Consume(s), NamedType(Word(Cur(s).text)))
          [] OTHER -> Error(s)

-----------------------------------------------------------------------------
(* Expressions. *)
AssignOps == {"=", "+=", "-=", "*=", "/="}
PrefixOps == {"!", "-", "~", "&", "*"}

(* get_infix_prec.                                                          *)
InfixPrec(op) ==
    CASE op \in AssignOps -> 1
      [] op = "||" -> 2
      [] op = "&&" -> 3
      [] op = "|" -> 4
      [] op = "^" -> 5
      [] op = "&" -> 6
      [] op \in {"==", "!="} -> 7
      [] op \in {"<", ">", "<=", ">="} -> 8
      [] op \in {"<<", ">>"} -> 9
      [] op \in {"+", "-"} -> 10
      [] op \in {"*", "/", "%"} -> 11
      [] op = "as" -> 12
      [] op \in {".", "[", "("} -> 14
      [] OTHER -> -1

(* The parts of a path, after the first; and arguments, after "(".          *)
RECURSIVE ParsePath(_, _)
ParsePath(s, path) ==
    LET x == Name(Consume(s))
    IN  IF Is(s, "::") THEN ParsePath(x, Append(path, x.out)) ELSE Yield(s, Path(path))

RECURSIVE ParseArgs(_, _)
ParseArgs(s, args) ==
    LET a == ParseExpr(s, 0)
        more == Append(args, a.out)
    IN  IF IsIn(s, {")", "eof"}) THEN Yield(Expect(s, ")"), args)
        ELSE IF Is(a, ",") THEN ParseArgs(Consume(a), more)
        ELSE Yield(Expect(a, ")"), more)

(* A string keeps its escapes and loses its quotes: one character alone is  *)
(* not enough.                                                              *)
ParsePrimary(s) ==
    LET k == Cur(s)
        n == Consume(s)
        inner == ParseExpr(n, 0)
    IN  CASE k.type = "int" -> LET i == Number(s, HalfWord) IN Yield(i, IntLit(i.out))
          [] k.type = "float" -> Yield(n, FloatLit(IsNonzero(k.text)))
          [] k.type = "string" ->
                IF Len(k.text) = 1 THEN Error(s)
                ELSE Yield(n, StrLit(Word(Slice(k.text, 1, Len(k.text) - 1))))
          [] k.type \in {"true", "false"} -> Yield(n, BoolLit(k.type = "true"))
          [] k.type = "null" -> Yield(n, NullLit)
          [] k.type = "ident" -> ParsePath(n, <<Word(k.text)>>)
          [] k.type = "(" -> Expect(inner, ")")
          [] OTHER -> Error(s)

(* The operand of a prefix operator ends before any suffix: -f(x) is (-f)(x). *)
RECURSIVE ParseUnary(_)
ParseUnary(s) ==
    LET x == ParseUnary(Consume(s))
    IN  CASE IsIn(s, PrefixOps) -> Yield(x, Unop(Cur(s).type, x.out))
          [] Is(s, "await") -> Yield(x, AwaitExpr(x.out))
          [] OTHER -> ParsePrimary(s)

(* One turn of parse_infix, with the left operand in `out`.  Every operator *)
(* that assigns is taken for "=".                                           *)
(* Mutant: a binary operator takes its like on the right.                   *)
ParseSuffixRight(s) ==
    LET op == Cur(s).type
        r == ParseExpr(Consume(s), InfixPrec(op))
        a == ParseArgs(Consume(s), <<>>)
    IN  IF op = "(" THEN Yield(a, CallExpr(s.out, a.out)) ELSE Yield(r, Binop(op, s.out, r.out))

ParseSuffix(s) ==
    LET op == Cur(s).type
        n == Consume(s)
        t == ParseType(n)
        x == Name(n)
        i == ParseExpr(n, 0)
        a == ParseArgs(n, <<>>)
        r == ParseExpr(n, IF op \in AssignOps THEN InfixPrec(op) ELSE InfixPrec(op) + 1)
    IN  CASE op = "as" -> Yield(t, CastExpr(s.out, t.out))
          [] op = "." -> Yield(x, FieldExpr(s.out, x.out))
          [] op = "[" -> Yield(Expect(i, "]"), IndexExpr(s.out, i.out))
          [] op = "(" -> Yield(a, CallExpr(s.out, a.out))
          [] op \in AssignOps -> Yield(r, Assign(s.out, r.out))
          [] OTHER -> Yield(r, Binop(op, s.out, r.out))

RECURSIVE ParseInfix(_, _)
ParseInfix(s, min) ==
    IF InfixPrec(Cur(s).type) < min THEN s ELSE ParseInfix(ParseSuffix(s), min)

-----------------------------------------------------------------------------
(* Statements. *)
(* What is between braces: statements, or the items of a module.            *)
RECURSIVE ParseMany(_, _, _)
ParseMany(s, done, items) ==
    LET x == IF items THEN ParseItem(s) ELSE ParseStmt(s)
    IN  IF IsIn(s, {"}", "eof"}) THEN Yield(Expect(s, "}"), done)
        ELSE ParseMany(x, Append(done, x.out), items)

(* Mutant: mut is looked for after it has been taken.                       *)
ParseVarDeclForgets(s) ==
    LET m == Match(Consume(s), "mut")
        x == Name(m)
        t == IF Is(x, ":") THEN Some(ParseType(Consume(x))) ELSE Yield(x, {})
        e == IF Is(t, "=") THEN Some(ParseExpr(Consume(t), 0)) ELSE Yield(t, {})
    IN  Yield(Expect(e, ";"), VarDecl(x.out, Is(m, "mut"), t.out, e.out))

ParseVarDecl(s) ==
    LET x == Name(Match(Consume(s), "mut"))
        t == IF Is(x, ":") THEN Some(ParseType(Consume(x))) ELSE Yield(x, {})
        e == IF Is(t, "=") THEN Some(ParseExpr(Consume(t), 0)) ELSE Yield(t, {})
    IN  Yield(Expect(e, ";"), VarDecl(x.out, Is(Consume(s), "mut"), t.out, e.out))

ParseReturn(s) ==
    LET n == Consume(s)
        e == IF Is(n, ";") THEN Yield(n, {}) ELSE Some(ParseExpr(n, 0))
    IN  Yield(Expect(e, ";"), ReturnStmt(e.out))

RECURSIVE ParseIf(_)
ParseIf(s) ==
    LET c == ParseExpr(Consume(s), 0)
        t == ParseBlock(c)
        n == Consume(t)
        e == Some(IF Is(n, "if") THEN ParseIf(n) ELSE ParseBlock(n))
        f == IF Is(t, "else") THEN e ELSE Yield(t, {})
    IN  Yield(f, IfStmt(c.out, t.out, f.out))

ParseWhile(s) ==
    LET c == ParseExpr(Consume(s), 0)
        b == ParseBlock(c)
    IN  Yield(b, WhileStmt(c.out, b.out))

ParseFor(s) ==
    LET x == Name(Consume(s))
        i == ParseExpr(Expect(x, "in"), 0)
        b == ParseBlock(i)
    IN  Yield(b, ForStmt(x.out, i.out, b.out))

ParseExprStmt(s) == LET e == ParseExpr(s, 0) IN Yield(Expect(e, ";"), ExprStmt(e.out))

-----------------------------------------------------------------------------
(* Items. *)

(* Parameters, which a comma separates, or fields, which it may.            *)
RECURSIVE ParseTyped(_, _, _)
ParseTyped(s, done, end) ==
    LET x == Name(s)
        t == ParseType(Expect(x, ":"))
        more == Append(done, Typed(x.out, t.out))
    IN  IF IsIn(s, {end, "eof"}) THEN Yield(Expect(s, end), done)
        ELSE IF end = "}" \/ Is(t, ",") THEN ParseTyped(Match(t, ","), more, end)
        ELSE Yield(Expect(t, end), more)

ParseFn(s, extern) ==
    LET x == Name(Consume(s))
        ps == ParseTyped(Expect(x, "("), <<>>, ")")
        r == IF Is(ps, "->") THEN ParseType(Consume(ps)) ELSE Yield(ps, Void)
        b == ParseBlock(r)
    IN  IF extern THEN Yield(Expect(r, ";"), ExternFn(x.out, ps.out, r.out))
        ELSE Yield(b, FnDecl(x.out, ps.out, r.out, b.out))

ParseStruct(s) ==
    LET x == Name(Consume(s))
        fs == ParseTyped(Expect(x, "{"), <<>>, "}")
    IN  Yield(fs, StructDecl(x.out, fs.out))

ParseMod(s) ==
    LET x == Name(Consume(s))
        items == ParseMany(Expect(x, "{"), <<>>, TRUE)
    IN  Yield(items, ModDecl(x.out, items.out))

ParseUse(s) ==
    LET x == Name(Consume(s))
        path == ParsePath(x, <<x.out>>)
    IN  Yield(Expect(path, ";"), UseStmt(path.out.path))

(* The words before a declaration are dropped before anything else, too.    *)
Parse(what, s, min) ==
    LET p == Match(Match(s, "pub"), "async")
        d == Match(p, "extern")
        many == ParseMany(Expect(s, "{"), <<>>, FALSE)
    IN  CASE what = "expr" -> ParseInfix(ParseUnary(s), min)
          [] what = "block" -> Yield(many, Block(many.out))
          [] what = "stmt" ->
               CASE Is(s, "let") -> ParseVarDecl(s)
                 [] Is(s, "return") -> ParseReturn(s)
                 [] Is(s, "if") -> ParseIf(s)
                 [] Is(s, "while") -> ParseWhile(s)
                 [] Is(s, "for") -> ParseFor(s)
                 [] Is(s, "{") -> ParseBlock(s)
                 [] OTHER -> ParseExprStmt(s)
          [] what = "item" ->
               CASE Is(d, "fn") -> ParseFn(d, Is(p, "extern"))
                 [] Is(d, "struct") -> ParseStruct(d)
                 [] Is(d, "mod") -> ParseMod(d)
                 [] Is(d, "use") -> ParseUse(d)
                 [] OTHER -> ParseStmt(d)
=============================================================================
