------------------------------ MODULE AstraAST ------------------------------
(***************************************************************************)
(* The syntax tree that the parser builds, the semantic analyzer accepts,  *)
(* the optimizer rewrites and the code generator walks.  A node is a       *)
(* record with its kind; an optional child is a set of at most one node; a *)
(* name is a string, and what may be qualified the sequence of its parts.  *)
(* Places in the source, pub and async, which nothing reads, are left out. *)
(***************************************************************************)
EXTENDS AstraValues

(* Types. *)
Prim(p) == [k |-> "prim", prim |-> p]
PointerTo(t) == [k |-> "ptr", inner |-> t]
ArrayOf(t, n) == [k |-> "array", inner |-> t, size |-> n]     \* -1: dynamic
NamedType(x) == [k |-> "named", name |-> x]

IntegerTypes == {Prim(p) : p \in {"i8", "i16", "i32", "i64", "u8", "u16", "u32", "u64"}}
NumericTypes == IntegerTypes \cup {Prim("f32"), Prim("f64")}
I64 == Prim("i64")
F64 == Prim("f64")
Bool == Prim("bool")
Str == Prim("str")
Void == Prim("void")

(* Expressions.  Of a float literal all that is kept is whether it is zero. *)
IntLit(i) == [k |-> "int", v |-> i]
FloatLit(z) == [k |-> "float", v |-> z]
BoolLit(b) == [k |-> "bool", v |-> IF b THEN 1 ELSE 0]
StrLit(s) == [k |-> "str", text |-> s]
NullLit == [k |-> "null"]
Path(names) == [k |-> "ident", path |-> names]
Ident(x) == Path(<<x>>)
Binop(op, l, r) == [k |-> "binop", op |-> op, lhs |-> l, rhs |-> r]
Unop(op, x) == [k |-> "unop", op |-> op, operand |-> x]
CallExpr(f, args) == [k |-> "call", callee |-> f, args |-> args]
CallTo(path, args) == CallExpr(Path(path), args)
IndexExpr(b, i) == [k |-> "index", base |-> b, index |-> i]
FieldExpr(b, x) == [k |-> "field", base |-> b, name |-> x]
CastExpr(e, t) == [k |-> "cast", operand |-> e, target |-> t]
Assign(l, r) == [k |-> "assign", lhs |-> l, rhs |-> r]
AwaitExpr(e) == [k |-> "await", operand |-> e]

(* Statements. *)
VarDecl(x, mut, ann, init) ==
    [k |-> "let", name |-> x, mut |-> mut, ann |-> ann, init |-> init]
ReturnStmt(value) == [k |-> "return", value |-> value]
ExprStmt(e) == [k |-> "expr", expr |-> e]
Block(ss) == [k |-> "block", stmts |-> ss]
IfStmt(c, t, e) == [k |-> "if", cond |-> c, then |-> t, else |-> e]
WhileStmt(c, b) == [k |-> "while", cond |-> c, body |-> b]
ForStmt(x, i, b) == [k |-> "for", name |-> x, iter |-> i, body |-> b]

(* Items.  An extern function has no body.                                  *)
Typed(x, t) == [name |-> x, type |-> t]
FnDecl(name, params, ret, body) ==
    [k |-> "fn", name |-> name, params |-> params, ret |-> ret, body |-> {body},
     extern |-> FALSE]
ExternFn(name, params, ret) ==
    [k |-> "fn", name |-> name, params |-> params, ret |-> ret, body |-> {},
     extern |-> TRUE]
StructDecl(name, fields) == [k |-> "struct", name |-> name, fields |-> fields]
ModDecl(name, items) == [k |-> "mod", name |-> name, items |-> items]
UseStmt(path) == [k |-> "use", path |-> path]

Names(typed) == [i \in DOMAIN typed |-> typed[i].name]
Callee(e) == IF e.callee.k = "ident" THEN e.callee.path ELSE <<>>

(* print and println are not functions of the program.                      *)
Builtins == {<<"print">>, <<"println">>}

(* The instruction that serves a source operator; & and * have none.        *)
BinaryOpcode(op) ==
    CASE op = "+" -> "IADD" [] op = "-" -> "ISUB" [] op = "*" -> "IMUL"
      [] op = "/" -> "IDIV" [] op = "%" -> "IMOD"
      [] op = "==" -> "IEQ" [] op = "!=" -> "INEQ"
      [] op = "<" -> "ILT" [] op = ">" -> "IGT"
      [] op = "<=" -> "ILTE" [] op = ">=" -> "IGTE"
      [] op = "&" -> "BAND" [] op = "|" -> "BOR" [] op = "^" -> "BXOR"
      [] op = "<<" -> "LSHIFT" [] op = ">>" -> "RSHIFT"
UnaryOpcode(op) ==
    CASE op = "-" -> "INEG" [] op = "!" -> "NOT" [] op = "~" -> "BNOT"
=============================================================================
