----------------------------- MODULE MCVerified -----------------------------
(***************************************************************************)
(* Certified programs for TLC: every main function of at most MainLength   *)
(* instructions and every pair of helpers, each under the one certificate  *)
(* its code admits, if it admits one.                                      *)
(***************************************************************************)
EXTENDS AstraVerified, AstraHeights

CONSTANT MainLength   \* bound: instructions in main

I(op) == [op |-> op, a |-> 0, b |-> 0]
I1(op, a) == [op |-> op, a |-> a, b |-> 0]
I2(op, a, b) == [op |-> op, a |-> a, b |-> b]

Alphabet ==
    {I1("PUSH_I64", 1), I("POP"), I("SWAP"), I("IADD"), I1("JMP", 0),
     I1("JMP_IFNOT", 3), I2("CALL", 1, 1), I2("CALL", 2, 0),
     I2("TAIL_CALL", 1, 1), I("RETURN"), I("RETURN_VOID")}

Codes == UNION {[1 .. k -> Alphabet] : k \in 0 .. MainLength}

(* Function 1 takes a parameter, function 2 none.                           *)
Helpers1 ==
    {<<I1("LOAD_LOCAL", 0), I("RETURN")>>,
     <<I1("LOAD_LOCAL", 0), I("DUP"), I("ISUB")>>,
     <<I1("LOAD_LOCAL", 0), I1("JMP_IFNOT", 4), I1("PUSH_BOOL", 0),
       I2("CALL", 1, 1), I("RETURN_VOID")>>,
     <<I1("PUSH_I64", 1), I1("PUSH_I64", 0), I2("TAIL_CALL", 2, 0)>>}
Helpers2 ==
    {<<>>,
     <<I1("PUSH_I64", 0), I1("PUSH_I64", 1), I("RETURN")>>,
     <<I1("PUSH_I64", 0), I2("CALL", 1, 1), I("RETURN")>>}

Program(c0, c1, c2) ==
    [functions |-> <<[params |-> 0, locals |-> 0, code |-> c0],
                     [params |-> 1, locals |-> 1, code |-> c1],
                     [params |-> 0, locals |-> 1, code |-> c2]>>,
     strings |-> <<>>, entry |-> 0]

Only(f, x) == [g \in 1 .. 3 |-> IF g = f + 1 THEN x ELSE <<>>]

(* The codes that add up as function f, each with its heights.              *)
Fitting(codes, f, ar) ==
    {p \in {[code |-> k, heights |-> Heights(k, ar)] : k \in codes} :
        LET cs == Only(f, p.code)
        IN  FunctionAddsUp([module |-> Program(cs[1], cs[2], cs[3]),
                            heights |-> Only(f, p.heights), arity |-> ar], f)}

MCCertified ==
    UNION {{[module |-> Program(p.code, q.code, r.code), arity |-> ar,
             heights |-> <<p.heights, q.heights, r.heights>>] :
              p \in Fitting(Codes, 0, ar), q \in Fitting(Helpers1, 1, ar),
              r \in Fitting(Helpers2, 2, ar)} : ar \in [1 .. 3 -> {0, 1}]}
MCPrograms == {c.module : c \in MCCertified}
=============================================================================
