----------------------------- MODULE AstraSema -----------------------------
(***************************************************************************)
(* The semantic analyzer: names, types and mutability.  It rejects a       *)
(* program by throwing at the first error, so every check yields the SET   *)
(* of its results: {} is a rejection.                                      *)
(*                                                                         *)
(* The state g of the analysis: the stack of `scopes`, the function table  *)
(* `fns` and the struct table `structs`, and the result type `ret` of the  *)
(* function under analysis, {} outside of functions.                       *)
(***************************************************************************)
EXTENDS AstraAST, FiniteSets, SequencesExt

(* Types that may meet: two pointers or arrays always may.                  *)
Compatible(a, b) == a.k = b.k /\ (a.k \in {"prim", "named"} => a = b)

(* Symbols.  The innermost scope that has the name counts, and in it the    *)
(* FIRST declaration of the name.                                           *)
Define(g, x, t, mut) ==
    [g EXCEPT !.scopes[Len(g.scopes)] = Append(@, [name |-> x, type |-> t, mut |-> mut])]
Push(g) == [g EXCEPT !.scopes = Append(@, <<>>)]
PopAll(results, g) == {[h EXCEPT !.scopes = g.scopes] : h \in results}

Lookup(g, path) ==
    LET Of(i) == {j \in DOMAIN g.scopes[i] : <<g.scopes[i][j].name>> = path}
        has == {i \in DOMAIN g.scopes : Of(i) # {}}
    IN  {g.scopes[i][Min(Of(i))] : i \in {j \in has : j = Max(has)}}

-----------------------------------------------------------------------------
(* Expressions: the type, unless rejected. *)

(* Mutant: two strings may be added.                                        *)
BinopTypeText(op, l, r) ==
    CASE op \in {"&&", "||"} -> {l} \cap {r} \cap {Bool}
      [] op \in {"==", "!=", "<", ">", "<=", ">="} -> IF Compatible(l, r) THEN {Bool} ELSE {}
      [] op \in {"&", "|", "^", "<<", ">>", "%"} -> {l} \cap {r} \cap IntegerTypes
      [] op \in {"+", "-", "*", "/"} -> {l} \cap {r} \cap (NumericTypes \cup {Str})

BinopType(op, l, r) ==
    CASE op \in {"&&", "||"} -> {l} \cap {r} \cap {Bool}
      [] op \in {"==", "!=", "<", ">", "<=", ">="} -> IF Compatible(l, r) THEN {Bool} ELSE {}
      [] op \in {"&", "|", "^", "<<", ">>", "%"} -> {l} \cap {r} \cap IntegerTypes
      [] op \in {"+", "-", "*", "/"} -> {l} \cap {r} \cap NumericTypes

UnopType(op, t) ==
    CASE op = "!" -> {t} \cap {Bool}
      [] op \in {"-", "~"} -> {t} \cap NumericTypes
      [] op \in {"&", "*"} -> {t}

RECURSIVE TypeOf(_, _)

(* The name of a function counts as a void value.                           *)
IdentType(e, g) ==
    IF Lookup(g, e.path) # {} THEN {s.type : s \in Lookup(g, e.path)}
    ELSE {Void : p \in {e.path} \cap DOMAIN g.fns}

(* print takes one argument of any type, void included.                     *)
CallType(e, g) ==
    IF Callee(e) \in Builtins
    THEN {Void : t \in IF Len(e.args) = 1 THEN TypeOf(e.args[1], g) ELSE {}}
    ELSE {f.ret : f \in
            {f \in {g.fns[p] : p \in {Callee(e)} \cap DOMAIN g.fns} :
               /\ ~f.extern
               /\ Len(e.args) = Len(f.params)
               /\ \A i \in DOMAIN e.args : \E t \in TypeOf(e.args[i], g) :
                     Compatible(f.params[i].type, t)}}

AssignType(e, g) ==
    LET targets == IF e.lhs.k = "ident" THEN Lookup(g, e.lhs.path) ELSE {}
    IN  {t \in TypeOf(e.rhs, g) : \E s \in targets : s.mut /\ Compatible(s.type, t)}

Field(fields, x) ==
    LET at == {i \in DOMAIN fields : fields[i].name = x}
    IN  {fields[i].type : i \in {j \in at : j = Min(at)}}
FieldType(e, g) ==
    UNION {Field(g.structs[t.name], e.name) :
             t \in {u \in TypeOf(e.base, g) : u.k = "named" /\ u.name \in DOMAIN g.structs}}

TypeOf(e, g) ==
    CASE e.k = "int" -> {I64}
      [] e.k = "float" -> {F64}
      [] e.k = "bool" -> {Bool}
      [] e.k = "str" -> {Str}
      [] e.k = "null" -> {Void}
      [] e.k = "ident" -> IdentType(e, g)
      [] e.k = "binop" ->
            UNION {BinopType(e.op, l, r) : l \in TypeOf(e.lhs, g), r \in TypeOf(e.rhs, g)}
      [] e.k = "unop" -> UNION {UnopType(e.op, t) : t \in TypeOf(e.operand, g)}
      [] e.k = "call" -> CallType(e, g)
      [] e.k = "assign" -> AssignType(e, g)
      [] e.k = "cast" -> {e.target : t \in TypeOf(e.operand, g)}
      [] e.k = "field" -> FieldType(e, g)
      [] e.k = "index" -> {Void : t \in TypeOf(e.base, g) \X TypeOf(e.index, g)}
      [] e.k = "await" -> TypeOf(e.operand, g)

-----------------------------------------------------------------------------
(* Statements: the state after the statement, unless rejected. *)
RECURSIVE Check(_, _)
RECURSIVE CheckAll(_, _)
CheckAll(ss, g) ==
    IF ss = <<>> THEN {g} ELSE UNION {CheckAll(Tail(ss), h) : h \in Check(Head(ss), g)}

CheckVarDecl(s, g) ==
    LET inits == UNION {TypeOf(e, g) : e \in s.init}
        types == IF s.ann # {} THEN s.ann ELSE inits
        fits == /\ s.init # {} => inits # {}
                /\ \A a \in s.ann, t \in inits : Compatible(a, t)
    IN  {Define(g, s.name, t, s.mut) : t \in IF fits THEN types \ {Void} ELSE {}}

(* The condition of an `if` or a `while`, and then what it governs.         *)
CheckWhen(c, ss, g) == IF Bool \in TypeOf(c, g) THEN CheckAll(ss, g) ELSE {}

CheckFor(s, g) ==
    UNION {PopAll(Check(s.body, Define(Push(g), s.name, I64, FALSE)), g) : t \in TypeOf(s.iter, g)}

CheckReturn(s, g) ==
    LET types == IF s.value = {} THEN {Void} ELSE UNION {TypeOf(e, g) : e \in s.value}
    IN  {g : t \in {u \in types : \A r \in g.ret : Compatible(r, u)}}

RECURSIVE Parameters(_, _)
Parameters(ps, g) ==
    IF ps = <<>> THEN g ELSE Parameters(Tail(ps), Define(g, Head(ps).name, Head(ps).type, FALSE))

CheckFn(f, g) ==
    LET start == [Parameters(f.params, Push(g)) EXCEPT !.ret = {f.ret}]
    IN  IF f.extern THEN {g}
        ELSE UNION {{[h EXCEPT !.scopes = g.scopes, !.ret = g.ret] : h \in Check(b, start)} : b \in f.body}

(* Inside a module its functions go by their bare names -- and, since the   *)
(* table is never restored, ever after.                                     *)
CheckMod(s, g) ==
    LET own == {i \in DOMAIN s.items : s.items[i].k = "fn"}
        Bare(i) == <<s.items[i].name>>
        Latest(p) == s.items[Max({i \in own : Bare(i) = p})]
    IN  PopAll(CheckAll(s.items, Push([g EXCEPT !.fns = [p \in {Bare(i) : i \in own} |-> Latest(p)] @@ @])), g)

Check(s, g) ==
    CASE s.k = "fn" -> CheckFn(s, g)
      [] s.k = "let" -> CheckVarDecl(s, g)
      [] s.k = "block" -> PopAll(CheckAll(s.stmts, Push(g)), g)
      [] s.k = "if" -> CheckWhen(s.cond, <<s.then>> \o SetToSeq(s.else), g)
      [] s.k = "while" -> CheckWhen(s.cond, <<s.body>>, g)
      [] s.k = "for" -> CheckFor(s, g)
      [] s.k = "return" -> CheckReturn(s, g)
      [] s.k = "expr" -> {g : t \in TypeOf(s.expr, g)}
      [] s.k = "mod" -> CheckMod(s, g)
      [] s.k \in {"struct", "use"} -> {g}

-----------------------------------------------------------------------------
(* collect_fns and collect_structs: what the whole program declares, the    *)
(* functions under their paths; the latest declaration of a name counts.    *)
RECURSIVE Collected(_, _)
Collected(items, prefix) ==
    IF items = <<>> THEN <<>>
    ELSE LET i == Head(items)
             here == CASE i.k = "fn" -> Append(prefix, i.name) :> i
                       [] i.k = "mod" -> Collected(i.items, Append(prefix, i.name))
                       [] OTHER -> <<>>
         IN  Collected(Tail(items), prefix) @@ here

RECURSIVE Structs(_)
Structs(items) ==
    IF items = <<>> THEN <<>>
    ELSE LET i == Head(items)
             here == CASE i.k = "struct" -> i.name :> i.fields
                       [] i.k = "mod" -> Structs(i.items)
                       [] OTHER -> <<>>
         IN  Structs(Tail(items)) @@ here

(* analyze().  The built-in functions are in the table as well, without     *)
(* parameters.                                                              *)
Accepts(items) ==
    LET builtin == [p \in Builtins |-> FnDecl(p[1], <<>>, Void, Block(<<>>))]
        fns == Collected(items, <<>>) @@ builtin
        main == <<"main">>
    IN  /\ main \in DOMAIN fns
        /\ ~fns[main].extern /\ fns[main].params = <<>> /\ fns[main].ret = Void
        /\ CheckAll(items, [scopes |-> <<<<>>>>, fns |-> fns, structs |-> Structs(items),
                            ret |-> {}]) # {}
=============================================================================
