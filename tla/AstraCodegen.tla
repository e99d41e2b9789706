---------------------------- MODULE AstraCodegen ----------------------------
(***************************************************************************)
(* The code generator: one walk over the syntax tree that appends          *)
(* instructions and patches jumps.                                         *)
(*                                                                         *)
(* Its state while it generates a function is a record g: the program's    *)
(* function table `fns` (fn_idx_), the string pool `strs` (str_idx_), the  *)
(* instructions so far `code` (instrs_) and the declared variables         *)
(* `locals`.  The slot of a variable is its place among the declarations,  *)
(* and a name means the LATEST declaration of that name in the function,   *)
(* in whatever block (locals_).  `pick` is the function that the iteration *)
(* of the hash table yields first for a name that is the last of several.  *)
(***************************************************************************)
EXTENDS AstraAST, FiniteSets, SequencesExt

Ins3(op, a, b) == [op |-> op, a |-> a, b |-> b]
Emit2(g, op, a, b) == [g EXCEPT !.code = Append(@, Ins3(op, a, b))]
Emit(g, op, a) == Emit2(g, op, a, 0)
Pos(g) == Len(g.code)                                   \* current_pos()
Patch(g, at, target) == [g EXCEPT !.code[at + 1].a = target]
PatchHere(g, at) == Patch(g, at, Pos(g))

(* The last index of x in s, counted from 0; -1 if there is none.           *)
LastIndex(s, x) ==
    LET at == {i \in DOMAIN s : s[i] = x}
    IN  IF at = {} THEN -1 ELSE (CHOOSE i \in at : \A j \in at : j <= i) - 1

Slot(g, path) == LastIndex(g.locals, path)
StoreTo(g, e) ==
    IF e.k = "ident" /\ Slot(g, e.path) >= 0
    THEN Emit(g, "STORE_LOCAL", Slot(g, e.path)) ELSE g

InternString(g, s) ==
    IF LastIndex(g.strs, s) >= 0 THEN g ELSE [g EXCEPT !.strs = Append(@, s)]

-----------------------------------------------------------------------------
(* The function table: functions in the order of the walk, those of modules *)
(* under their path, extern ones left out.                                  *)
RECURSIVE CollectFns(_, _)
CollectFns(items, prefix) ==
    IF items = <<>> THEN <<>>
    ELSE LET i == Head(items)
             here == IF i.k = "mod" THEN CollectFns(i.items, Append(prefix, i.name))
                     ELSE IF i.k = "fn" /\ ~i.extern
                     THEN <<[path |-> Append(prefix, i.name), fn |-> i]>>
                     ELSE <<>>
         IN  here \o CollectFns(Tail(items), prefix)

Paths(table) == [i \in DOMAIN table |-> table[i].path]

(* The callee: the exact path, else a function whose last name matches.     *)
Bare(path) == path[Len(path)]
Matching(fns, x) ==
    {LastIndex(fns, p) : p \in {fns[i] : i \in {j \in DOMAIN fns : Bare(fns[j]) = x}}}

Ambiguous(fns) ==
    {x \in {Bare(fns[i]) : i \in DOMAIN fns} :
       LastIndex(fns, <<x>>) < 0 /\ Cardinality(Matching(fns, x)) > 1}
Picks(fns) ==
    {pick \in [Ambiguous(fns) -> 0 .. Len(fns)] :
       \A x \in Ambiguous(fns) : pick[x] \in Matching(fns, x)}

FnIndex(g, path) ==
    CASE LastIndex(g.fns, path) >= 0 -> LastIndex(g.fns, path)
      [] LastIndex(g.fns, path) < 0 /\ Len(path) = 1 /\ Matching(g.fns, path[1]) # {} ->
            IF path[1] \in DOMAIN g.pick THEN g.pick[path[1]]
            ELSE CHOOSE i \in Matching(g.fns, path[1]) : TRUE
      [] OTHER -> -1

-----------------------------------------------------------------------------
(* Expressions: each leaves one value, except a call of print, println or   *)
(* a function without a result.  A cast, an await and a field access leave  *)
(* the value of what they are applied to.                                   *)
RECURSIVE GenExpr(_, _)
RECURSIVE GenAll(_, _)
GenAll(es, g) == IF es = <<>> THEN g ELSE GenAll(Tail(es), GenExpr(Head(es), g))

LoadVar(path, g) ==
    IF Slot(g, path) >= 0 THEN Emit(g, "LOAD_LOCAL", Slot(g, path)) ELSE Emit(g, "LOAD_GLOBAL", 0)

(* What is called without a name in the table is evaluated, and called as   *)
(* the function -1.                                                         *)
GenCall(e, g) ==
    LET h == GenAll(e.args, g)
        i == FnIndex(g, Callee(e))
        n == Len(e.args)
    IN  CASE Callee(e) = <<"println">> -> Emit(h, "PRINTLN", 0)
          [] Callee(e) = <<"print">> -> Emit(h, "PRINT", 0)
          [] Callee(e) \notin Builtins /\ i >= 0 -> Emit2(h, "CALL", i, n)
          [] OTHER -> Emit2(GenExpr(e.callee, h), "CALL", -1, n)

(* Both jumps of the operands lead to the second of two constants.          *)
GenShortCircuit(e, g) ==
    LET jump == IF e.op = "&&" THEN "JMP_IFNOT" ELSE "JMP_IF"
        on == IF e.op = "&&" THEN 1 ELSE 0
        l == GenExpr(e.lhs, g)
        r == GenExpr(e.rhs, Emit(l, jump, 0))
        first == Emit(Emit(Emit(r, jump, 0), "PUSH_BOOL", on), "JMP", 0)
        other == Emit(PatchHere(PatchHere(first, Pos(l)), Pos(r)), "PUSH_BOOL", 1 - on)
    IN  PatchHere(other, Pos(first) - 1)

GenExpr(e, g) ==
    CASE e.k = "int" -> Emit(g, "PUSH_I64", e.v)
      [] e.k = "bool" -> Emit(g, "PUSH_BOOL", e.v)
      [] e.k = "float" -> Emit(g, "PUSH_F64", e.v)
      [] e.k = "str" ->
            LET h == InternString(g, e.text) IN Emit(h, "PUSH_STR", LastIndex(h.strs, e.text))
      [] e.k = "null" -> Emit(g, "PUSH_NULL", 0)
      [] e.k = "ident" -> LoadVar(e.path, g)
      [] e.k = "binop" /\ e.op \in {"&&", "||"} -> GenShortCircuit(e, g)
      [] e.k = "binop" /\ e.op \notin {"&&", "||"} ->
            Emit(GenExpr(e.rhs, GenExpr(e.lhs, g)), BinaryOpcode(e.op), 0)
      [] e.k = "unop" /\ e.op \in {"-", "!", "~"} ->
            Emit(GenExpr(e.operand, g), UnaryOpcode(e.op), 0)
      [] e.k = "unop" /\ e.op \in {"&", "*"} -> GenExpr(e.operand, g)
      [] e.k = "call" -> GenCall(e, g)
      [] e.k = "assign" -> StoreTo(Emit(GenExpr(e.rhs, g), "DUP", 0), e.lhs)
      [] e.k \in {"cast", "await"} -> GenExpr(e.operand, g)
      [] e.k = "field" -> GenExpr(e.base, g)
      [] e.k = "index" -> Emit(GenExpr(e.index, GenExpr(e.base, g)), "LOAD_PTR", 0)

-----------------------------------------------------------------------------
(* Statements. *)

(* An expression statement drops the value its expression leaves; whether   *)
(* it leaves one is decided by the callee's name alone.                     *)
(* Mutant: every expression is taken to leave a value.                      *)
LeavesValueAlways(e, g) == TRUE

LeavesValue(e, g) ==
    ~(e.k = "call" /\ (Callee(e) \in Builtins \/ LastIndex(g.fns, Callee(e)) >= 0))

GenExprStmt(e, g) ==
    IF e.k = "assign" THEN StoreTo(GenExpr(e.rhs, g), e.lhs)
    ELSE IF LeavesValue(e, g) THEN Emit(GenExpr(e, g), "POP", 0)
    ELSE GenExpr(e, g)

GenVarDecl(s, g) ==
    LET h == IF s.init = {} THEN Emit(g, "PUSH_NULL", 0)
             ELSE GenExpr(CHOOSE e \in s.init : TRUE, g)
    IN  Emit([h EXCEPT !.locals = Append(@, <<s.name>>)], "STORE_LOCAL", Len(h.locals))

GenReturn(s, g) ==
    IF s.value = {} THEN Emit(g, "RETURN_VOID", 0)
    ELSE Emit(GenExpr(CHOOSE e \in s.value : TRUE, g), "RETURN", 0)

RECURSIVE GenStmt(_, _)
RECURSIVE GenBlock(_, _)
GenBlock(ss, g) == IF ss = <<>> THEN g ELSE GenBlock(Tail(ss), GenStmt(Head(ss), g))

GenIf(s, g) ==
    LET c == GenExpr(s.cond, g)
        t == GenStmt(s.then, Emit(c, "JMP_IFNOT", 0))
        e == GenStmt(CHOOSE x \in s.else : TRUE,
                     LET j == Emit(t, "JMP", 0) IN PatchHere(j, Pos(c)))
    IN  IF s.else = {} THEN PatchHere(t, Pos(c)) ELSE PatchHere(e, Pos(t))

(* Mutant: the exit is patched before the jump back is emitted.             *)
GenWhileEarlyPatch(s, g) ==
    LET c == GenExpr(s.cond, g)
    IN  Emit(PatchHere(GenStmt(s.body, Emit(c, "JMP_IFNOT", 0)), Pos(c)), "JMP", Pos(g))

GenWhile(s, g) ==
    LET c == GenExpr(s.cond, g)
        b == Emit(GenStmt(s.body, Emit(c, "JMP_IFNOT", 0)), "JMP", Pos(g))
    IN  PatchHere(b, Pos(c))

(* A `for` evaluates what it would iterate over, and never runs its body; a *)
(* declaration inside a function generates nothing.                         *)
GenStmt(s, g) ==
    CASE s.k = "block" -> GenBlock(s.stmts, g)
      [] s.k = "let" -> GenVarDecl(s, g)
      [] s.k = "if" -> GenIf(s, g)
      [] s.k = "while" -> GenWhile(s, g)
      [] s.k = "return" -> GenReturn(s, g)
      [] s.k = "expr" -> GenExprStmt(s.expr, g)
      [] s.k = "for" -> Emit(GenExpr(s.iter, g), "POP", 0)
      [] s.k \in {"fn", "mod", "struct", "use"} -> g

-----------------------------------------------------------------------------
(* A function's parameters are its first variables, and its code ends in    *)
(* RETURN_VOID.  The string pool is the program's.                          *)
Closed(g) ==
    IF Pos(g) > 0 /\ g.code[Pos(g)].op = "RETURN_VOID" THEN g ELSE Emit(g, "RETURN_VOID", 0)
GenFn(fn, g) ==
    Closed(GenBlock(SetToSeq(fn.body),
                    [g EXCEPT !.code = <<>>, !.locals = [i \in DOMAIN fn.params |-> <<fn.params[i].name>>]]))

Added(done, fn, g) ==
    [functions |-> Append(done.functions,
                          [params |-> Len(fn.params), locals |-> Len(g.locals), code |-> g.code]),
     g |-> g]
RECURSIVE GenItems(_, _)
GenItems(table, done) ==
    IF table = <<>> THEN done
    ELSE GenItems(Tail(table), Added(done, Head(table).fn, GenFn(Head(table).fn, done.g)))

(* generate(): no module when the program has no `main`.                    *)
IRModule(done, main) ==
    [functions |-> done.functions, strings |-> [i \in DOMAIN done.g.strs |-> Len(done.g.strs[i])],
     entry |-> main]
Generate(items) ==
    LET table == CollectFns(items, <<>>)
        fns == Paths(table)
        main == LastIndex(fns, <<"main">>)
        Start(pick) == [fns |-> fns, strs |-> <<>>, code |-> <<>>, locals |-> <<>>, pick |-> pick]
    IN  {IRModule(GenItems(table, [functions |-> <<>>, g |-> Start(pick)]), main) :
           pick \in IF main = -1 THEN {} ELSE Picks(fns)}
=============================================================================
