----------------------------- MODULE MCDebugger -----------------------------
(***************************************************************************)
(* Debugging sessions for TLC: every main function of at most MainLength   *)
(* instructions, with a helper that returns, one that runs off its end and *)
(* one that stops in its middle; breakpoints in both functions.            *)
(***************************************************************************)
EXTENDS AstraDebugger

CONSTANT MainLength   \* bound: instructions in main

I(op, a) == [op |-> op, a |-> a, b |-> 0]

Alphabet ==
    {I("PUSH_I64", 1), I("POP", 0), I("BREAKPOINT", 0), I("JMP", 0), I("JMP", 2),
     I("JMP_IF", 2), I("CALL", 1), I("RETURN_VOID", 0)}
Helpers ==
    {<<I("NOP", 0), I("RETURN_VOID", 0)>>,
     <<I("NOP", 0)>>,
     <<>>,
     <<I("BREAKPOINT", 0), I("TAIL_CALL", 0)>>}

Fn(code) == [params |-> 0, locals |-> 0, code |-> code]

MCPrograms ==
    {[functions |-> <<Fn(main), Fn(helper)>>, strings |-> <<>>, entry |-> 0] :
        main \in UNION {[1 .. n -> Alphabet] : n \in 1 .. MainLength},
        helper \in Helpers}

MCBreakable == {<<0, 1>>, <<0, 2>>, <<1, 0>>}
=============================================================================
