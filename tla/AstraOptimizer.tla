--------------------------- MODULE AstraOptimizer ---------------------------
(***************************************************************************)
(* The optimizer: constant folding, algebraic simplification and dead code *)
(* elimination over the syntax tree, bottom up.  Every pass yields the SET *)
(* of its results, which is empty where the compiler dies instead: on the  *)
(* trap of MIN / -1, and on an `else if` under a constant false condition, *)
(* which is taken for a block.                                             *)
(***************************************************************************)
EXTENDS AstraAST

IsInt(e, i) == e.k = "int" /\ e.v = i
IsBool(e, b) == e.k = "bool" /\ e.v = IF b THEN 1 ELSE 0

(* One result per node, for a sequence of nodes.                            *)
RECURSIVE Every(_)
Every(results) ==
    IF results = <<>> THEN {<<>>}
    ELSE {<<x>> \o rest : x \in Head(results), rest \in Every(Tail(results))}

-----------------------------------------------------------------------------
(* fold_binop.  Signed overflow is undefined in the compiler's own C++; the *)
(* build wraps, shifts modulo the word and traps on MIN / -1.               *)
FoldInts(op, x, y) ==
    CASE op \in {"/", "%"} ->
            IF DivPanics(x, y) THEN {}
            ELSE {IntLit(z) : z \in IntDivision(BinaryOpcode(op), x, y)}
      [] BinaryOpcode(op) \in IntCmpOps -> {BoolLit(IntCmp(BinaryOpcode(op), x, y))}
      [] OTHER -> {IntLit(z) : z \in IntBinop(BinaryOpcode(op), x, y)}

FoldBools(op, p, q) ==
    CASE op = "&&" -> {BoolLit(p /\ q)}
      [] op = "||" -> {BoolLit(p \/ q)}
      [] op = "==" -> {BoolLit(p <=> q)}
      [] op = "!=" -> {BoolLit(~(p <=> q))}

(* Floats, of which only zero is told apart.                                *)
FoldFloats(op, p, q) ==
    CASE op \in {"==", "!="} ->
            {BoolLit(r = (op = "==")) : r \in IF p = 1 /\ q = 1 THEN BOOLEAN ELSE {p = q}}
      [] op \in {"<", ">"} ->
            {BoolLit(r) : r \in IF p = 0 /\ q = 0 THEN {FALSE} ELSE BOOLEAN}
      [] op = "+" -> {FloatLit(z) : z \in FltBinop("FADD", p, q)}
      [] op = "-" -> {FloatLit(z) : z \in FltBinop("FSUB", p, q)}
      [] op = "*" -> {FloatLit(z) : z \in FltBinop("FMUL", p, q)}
      [] op = "/" -> {FloatLit(z) : z \in FltBinop("FDIV", p, q)}

(* Mutant: a division by zero is folded as well.                            *)
FoldsZero(b) == b.lhs.k = "int" /\ b.rhs.k = "int" /\ b.op \notin {"&&", "||"}

Folds(b) ==
    \/ /\ b.lhs.k = "int" /\ b.rhs.k = "int"
       /\ b.op \notin {"&&", "||"}
       /\ b.op \in {"/", "%"} => b.rhs.v # 0
    \/ /\ b.lhs.k = "bool" /\ b.rhs.k = "bool"
       /\ b.op \in {"&&", "||", "==", "!="}
    \/ /\ b.lhs.k = "float" /\ b.rhs.k = "float"
       /\ b.op \in {"+", "-", "*", "/", "==", "!=", "<", ">"}
       /\ b.op = "/" => b.rhs.v # 0

FoldBinop(b) ==
    CASE b.lhs.k = "int" -> FoldInts(b.op, b.lhs.v, b.rhs.v)
      [] b.lhs.k = "float" -> FoldFloats(b.op, b.lhs.v, b.rhs.v)
      [] b.lhs.k = "bool" -> FoldBools(b.op, b.lhs.v = 1, b.rhs.v = 1)

(* simplify_binop: the operand that remains, or the constant.               *)
SimplifyBinop(b) ==
    CASE b.op = "+" /\ IsInt(b.rhs, 0) -> b.lhs
      [] b.op = "+" /\ IsInt(b.lhs, 0) -> b.rhs
      [] b.op = "-" /\ IsInt(b.rhs, 0) -> b.lhs
      [] b.op = "*" /\ IsInt(b.rhs, 1) -> b.lhs
      [] b.op = "*" /\ IsInt(b.lhs, 1) -> b.rhs
      [] b.op = "*" /\ (IsInt(b.rhs, 0) \/ IsInt(b.lhs, 0)) -> IntLit(0)
      [] b.op = "/" /\ IsInt(b.rhs, 1) -> b.lhs
      [] b.op = "&&" /\ IsBool(b.rhs, TRUE) -> b.lhs
      [] b.op = "&&" /\ IsBool(b.lhs, TRUE) -> b.rhs
      [] b.op = "&&" /\ (IsBool(b.rhs, FALSE) \/ IsBool(b.lhs, FALSE)) -> BoolLit(FALSE)
      [] b.op = "||" /\ IsBool(b.rhs, FALSE) -> b.lhs
      [] b.op = "||" /\ IsBool(b.lhs, FALSE) -> b.rhs
      [] b.op = "||" /\ (IsBool(b.rhs, TRUE) \/ IsBool(b.lhs, TRUE)) -> BoolLit(TRUE)
      [] OTHER -> b

FoldUnop(op, x) ==
    CASE op = "-" /\ x.k = "int" -> IntLit(Wrap(-x.v))
      [] op = "-" /\ x.k = "float" -> x
      [] op = "!" /\ x.k = "bool" -> BoolLit(x.v = 0)
      [] OTHER -> Unop(op, x)

RECURSIVE OptExpr(_)
OptExpr(e) ==
    CASE e.k = "binop" ->
            UNION {IF Folds(b) THEN FoldBinop(b) ELSE {SimplifyBinop(b)} :
                     b \in {Binop(e.op, l, r) : l \in OptExpr(e.lhs), r \in OptExpr(e.rhs)}}
      [] e.k = "unop" -> {FoldUnop(e.op, x) : x \in OptExpr(e.operand)}
      [] e.k = "call" ->
            {CallExpr(e.callee, args) :
               args \in Every([i \in DOMAIN e.args |-> OptExpr(e.args[i])])}
      [] e.k = "assign" -> {Assign(e.lhs, r) : r \in OptExpr(e.rhs)}
      [] OTHER -> {e}

(* An optional child, optimized.                                            *)
Optionally(results) == IF results = {} THEN {{}} ELSE {{x} : x \in UNION results}

-----------------------------------------------------------------------------
(* opt_stmt and opt_block.  The arms of an `if` are optimized after its     *)
(* condition; the body of `while false` is not optimized before it is       *)
(* dropped at O2; a `for` is left alone.                                    *)

(* Mutant: blocks are removed whether empty or not.                         *)
EmptyBlockAny(s) == s.k = "block"
EmptyBlock(s) == s.k = "block" /\ s.stmts = <<>>
Remaining(ss) == SelectSeq(ss, LAMBDA s : ~EmptyBlock(s))

RECURSIVE OptStmt(_, _)
OptIf(c, s, level) ==
    CASE IsBool(c, TRUE) -> OptStmt(s.then, level)
      [] IsBool(c, FALSE) /\ s.else = {} -> {Block(<<>>)}
      [] IsBool(c, FALSE) /\ s.else # {} ->
            {e \in UNION {OptStmt(x, level) : x \in s.else} : e.k = "block"}
      [] OTHER ->
            {IfStmt(c, t, e) : t \in OptStmt(s.then, level),
                               e \in Optionally({OptStmt(x, level) : x \in s.else})}
OptWhile(c, s, level) ==
    IF level >= 2 /\ IsBool(c, FALSE) THEN {Block(<<>>)}
    ELSE {WhileStmt(c, b) : b \in OptStmt(s.body, level)}

OptStmt(s, level) ==
    CASE s.k = "block" ->
            {Block(Remaining(ss)) :
               ss \in Every([i \in DOMAIN s.stmts |-> OptStmt(s.stmts[i], level)])}
      [] s.k = "let" ->
            {[s EXCEPT !.init = i] : i \in Optionally({OptExpr(x) : x \in s.init})}
      [] s.k = "expr" -> {ExprStmt(e) : e \in OptExpr(s.expr)}
      [] s.k = "return" ->
            {ReturnStmt(v) : v \in Optionally({OptExpr(x) : x \in s.value})}
      [] s.k = "if" -> UNION {OptIf(c, s, level) : c \in OptExpr(s.cond)}
      [] s.k = "while" -> UNION {OptWhile(c, s, level) : c \in OptExpr(s.cond)}
      [] s.k = "fn" -> {[s EXCEPT !.body = b] : b \in Optionally({OptStmt(x, level) : x \in s.body})}
      [] s.k = "mod" ->
            {ModDecl(s.name, items) :
               items \in Every([i \in DOMAIN s.items |-> OptStmt(s.items[i], level)])}
      [] OTHER -> {s}

(* Optimizer::run at -O0, -O1 or -O2.                                       *)
Optimize(items, level) ==
    IF level = 0 THEN {items}
    ELSE Every([i \in DOMAIN items |-> OptStmt(items[i], level)])
=============================================================================
