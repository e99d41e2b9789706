---------------------------- MODULE AstraGrammar ----------------------------
(***************************************************************************)
(* How a tree is written, said without the parser: with no more            *)
(* parentheses than the table of operator precedences asks for (RFC 001,   *)
(* 3.1).  A tree is written as a sequence of words.                        *)
(***************************************************************************)
EXTENDS AstraAST, SequencesExt

Levels1 ==
    <<{"="}, {"||"}, {"&&"}, {"|"}, {"^"}, {"&"}, {"==", "!="}, {"<", ">", "<=", ">="},
      {"<<", ">>"}, {"+", "-"}, {"*", "/", "%"}, {"as"}>>
OpLevel(op) == CHOOSE n \in DOMAIN Levels1 : op \in Levels1[n]

(* The suffixes () [] . are the table's highest level.  The prefix          *)
(* operators, which the table does not list, fit in the one it leaves free. *)
Level(e) ==
    CASE e.k = "assign" -> OpLevel("=")
      [] e.k = "binop" -> OpLevel(e.op)
      [] e.k = "cast" -> OpLevel("as")
      [] e.k \in {"unop", "await"} -> 13
      [] e.k \in {"call", "index", "field"} -> 14
      [] OTHER -> 15

Commas(parts) ==
    FlattenSeq([i \in DOMAIN parts |-> IF i = 1 THEN parts[i] ELSE <<",">> \o parts[i]])
WritePath(path) ==
    FlattenSeq([i \in DOMAIN path |-> IF i = 1 THEN <<path[i]>> ELSE <<"::", path[i]>>])

RECURSIVE WriteType(_)
WriteType(t) ==
    CASE t.k = "prim" -> <<t.prim>>
      [] t.k = "named" -> <<t.name>>
      [] t.k = "ptr" -> <<"*">> \o WriteType(t.inner)
      [] t.k = "array" ->
            LET size == IF t.size = -1 THEN <<>> ELSE <<";", ToString(t.size)>>
            IN  <<"[">> \o WriteType(t.inner) \o size \o <<"]">>

RECURSIVE Write(_)
WriteAt(e, level) ==
    IF Level(e) >= level THEN Write(e) ELSE <<"(">> \o Write(e) \o <<")">>
Write(e) ==
    CASE e.k = "int" -> <<ToString(e.v)>>
      [] e.k = "float" -> <<IF e.v = 0 THEN "0.0" ELSE "1.5">>
      [] e.k = "str" -> <<"\"" \o e.text \o "\"">>
      [] e.k = "bool" -> <<IF e.v = 1 THEN "true" ELSE "false">>
      [] e.k = "null" -> <<"null">>
      [] e.k = "ident" -> WritePath(e.path)
      [] e.k = "binop" -> WriteAt(e.lhs, Level(e)) \o <<e.op>> \o WriteAt(e.rhs, Level(e) + 1)
      [] e.k = "assign" -> WriteAt(e.lhs, Level(e) + 1) \o <<"=">> \o WriteAt(e.rhs, Level(e))
      [] e.k = "cast" -> WriteAt(e.operand, Level(e)) \o <<"as">> \o WriteType(e.target)
      [] e.k = "unop" -> <<e.op>> \o WriteAt(e.operand, Level(e))
      [] e.k = "await" -> <<"await">> \o WriteAt(e.operand, Level(e))
      [] e.k = "field" -> WriteAt(e.base, 14) \o <<".", e.name>>
      [] e.k = "index" -> WriteAt(e.base, 14) \o <<"[">> \o Write(e.index) \o <<"]">>
      [] e.k = "call" ->
            WriteAt(e.callee, 14) \o <<"(">>
              \o Commas([i \in DOMAIN e.args |-> Write(e.args[i])]) \o <<")">>

(* At most one of something, after a mark of its own.                       *)
Optional(mark, written) == IF written = {} THEN <<>> ELSE <<mark>> \o CHOOSE w \in written : TRUE

WriteTyped(ts) == Commas([i \in DOMAIN ts |-> <<ts[i].name, ":">> \o WriteType(ts[i].type)])

RECURSIVE WriteStmt(_)
WriteAll(ss) == FlattenSeq([i \in DOMAIN ss |-> WriteStmt(ss[i])])
WriteStmt(s) ==
    CASE s.k = "block" -> <<"{">> \o WriteAll(s.stmts) \o <<"}">>
      [] s.k = "expr" -> Write(s.expr) \o <<";">>
      [] s.k = "return" ->
            <<"return">> \o FlattenSeq(SetToSeq({Write(e) : e \in s.value})) \o <<";">>
      [] s.k = "let" ->
            (IF s.mut THEN <<"let", "mut", s.name>> ELSE <<"let", s.name>>)
              \o Optional(":", {WriteType(t) : t \in s.ann})
              \o Optional("=", {Write(e) : e \in s.init}) \o <<";">>
      [] s.k = "if" ->
            <<"if">> \o Write(s.cond) \o WriteStmt(s.then)
              \o Optional("else", {WriteStmt(e) : e \in s.else})
      [] s.k = "while" -> <<"while">> \o Write(s.cond) \o WriteStmt(s.body)
      [] s.k = "for" -> <<"for", s.name, "in">> \o Write(s.iter) \o WriteStmt(s.body)
      [] s.k = "fn" ->
            <<"fn", s.name, "(">> \o WriteTyped(s.params) \o <<")">>
              \o Optional("->", {WriteType(t) : t \in {s.ret} \ {Void}})
              \o (IF s.extern THEN <<";">> ELSE FlattenSeq(SetToSeq({WriteStmt(b) : b \in s.body})))
      [] s.k = "struct" -> <<"struct", s.name, "{">> \o WriteTyped(s.fields) \o <<"}">>
      [] s.k = "mod" -> <<"mod", s.name, "{">> \o WriteAll(s.items) \o <<"}">>
      [] s.k = "use" -> <<"use">> \o WritePath(s.path) \o <<";">>
=============================================================================
