----------------------------- MODULE MCMachine -----------------------------
(***************************************************************************)
(* Programs for the machine.                                               *)
(*                                                                         *)
(* Control: every short main function of at most MainLength control        *)
(* instructions that may call one of a few helpers, whose code pops below  *)
(* its frame, recurses, falls off its end, returns with and without a      *)
(* value, or calls what does not exist.                                    *)
(*                                                                         *)
(* Data: straight-line programs; every operator on every pair of operand   *)
(* kinds, boundary integers included; locals and globals in and out of     *)
(* range; the heap at its edges.                                           *)
(***************************************************************************)
EXTENDS AstraVMProps

CONSTANT MainLength   \* bound: instructions in main

I(op) == [op |-> op, a |-> 0, b |-> 0]
I1(op, a) == [op |-> op, a |-> a, b |-> 0]
I2(op, a, b) == [op |-> op, a |-> a, b |-> b]
Func(p, n, c) == [params |-> p, locals |-> n, code |-> c]

Alphabet ==
    {I1("PUSH_I64", 1), I("POP"), I("DUP"), I1("JMP", 1), I1("JMP_IFNOT", 3),
     I2("CALL", 1, 1), I2("CALL", 1, 0), I2("TAIL_CALL", 1, 1), I("RETURN"),
     I("RETURN_VOID"), I2("CALL", 2, 0), I2("TAIL_CALL", 0, 0)}

Codes(n) == UNION {[1 .. k -> Alphabet] : k \in 0 .. n}

Helpers ==
    {<<>>,
     <<I("POP"), I("RETURN_VOID")>>,
     <<I1("LOAD_LOCAL", 0), I("RETURN")>>,
     <<I1("PUSH_I64", 0), I("DUP")>>,
     <<I("POP"), I("POP"), I1("PUSH_I64", 1), I("RETURN")>>,
     <<I1("LOAD_LOCAL", 0), I1("JMP_IF", 3), I("RETURN_VOID"),
       I1("PUSH_I64", 0), I2("CALL", 1, 1)>>,
     <<I1("LOAD_LOCAL", 0), I2("CALL", 1, -1)>>,
     <<I1("PUSH_BOOL", 1), I1("STORE_LOCAL", 1), I1("JMP", -1)>>}

Control ==
    {[functions |-> <<Func(0, 0, c), Func(1, 1, h)>>, strings |-> <<>>, entry |-> 0] :
        c \in Codes(MainLength), h \in Helpers}
      \cup {[functions |-> <<>>, strings |-> <<>>, entry |-> 0]}

-----------------------------------------------------------------------------
Literals ==
    {I1("PUSH_I64", n) : n \in {-HalfWord, -1, 0, 1, 3, HalfWord - 1}}
      \cup {I1("PUSH_F64", 0), I1("PUSH_F64", 1), I1("PUSH_BOOL", 1),
            I("PUSH_NULL"), I1("PUSH_STR", 0), I1("PUSH_STR", 7)}

Operators == BinaryOps \cup DivOps \cup {"STR_CONCAT", "LOAD_PTR"}

Arithmetic == {<<x, y, I(op)>> : x, y \in Literals, op \in Operators}
Casts ==
    {<<x, I(op), I(pr)>> : x \in Literals, op \in UnaryOps, pr \in {"PRINT", "EPRINT"}}
Slots ==
    {<<I1("PUSH_I64", 1), I1("STORE_LOCAL", s), I1("LOAD_LOCAL", t),
       I1("STORE_GLOBAL", u), I1("LOAD_GLOBAL", w), I1("JMP_IF", 0)>> :
        s, t \in {-1, 0, 2, 5}, u, w \in {-1, 1}}
Memory ==
    {<<I1("ALLOC", m), I1("STORE_GLOBAL", 0), I1("ALLOC", n), I("DUP"),
       I1("PUSH_I64", i), I1("PUSH_I64", v), I("STORE_PTR"),
       I1("PUSH_I64", j), I("LOAD_PTR"), I("PRINTLN")>> :
        m \in {0, 2}, n \in {-1, 0, 1, 2, 7}, i, j \in {-1, 0, 1}, v \in {-1, 1}}
Frees ==
    {<<I1("ALLOC", m), I1("ALLOC", 1), I(sw), I("FREE"), I1("PUSH_I64", 0), I("LOAD_PTR")>> :
        m \in {1, 2}, sw \in {"SWAP", "NOP"}}
Full == {<<x, I("DUP"), I("DUP"), I("DUP"), I(op)>> :
            x \in {I1("PUSH_I64", 3), I1("PUSH_STR", 0)},
            op \in {"IADD", "BNOT", "IDIV", "STR_CONCAT", "DUP"}}
Underflows ==
    {<<I1("PUSH_BOOL", 0), I(op)>> : op \in Operators \cup {"SWAP", "STORE_PTR"}}
      \cup {<<I(op)>> : op \in OpCode}
      \cup {<<x, y, I("SWAP"), z, I(op)>> :
              x, y, z \in {I("PUSH_NULL"), I1("PUSH_I64", 1), I1("ALLOC", 1)},
              op \in {"STORE_PTR", "LOAD_PTR", "STR_CONCAT", "DUP", "NOP", "FREE"}}

Data ==
    {[functions |-> <<Func(0, 1, c)>>, strings |-> <<2>>, entry |-> 0] :
        c \in Arithmetic \cup Casts \cup Slots \cup Memory \cup Frees \cup Full \cup Underflows}
      \cup {[functions |-> <<>>, strings |-> <<>>, entry |-> 1]}

MCPrograms == Control \cup Data
=============================================================================
