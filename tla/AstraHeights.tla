---------------------------- MODULE AstraHeights ----------------------------
(***************************************************************************)
(* The one certificate that a function's code admits, if it admits one.    *)
(***************************************************************************)
EXTENDS AstraIR

(* The height a path through the code forces on each instruction: from 0 at *)
(* the start, propagated until nothing changes.                             *)
RECURSIVE Propagate(_, _, _, _)
Propagate(code, ar, hs, from) ==
    LET i == CHOOSE n \in from : TRUE
        next == {n \in DOMAIN hs :
                   \/ code[i].op \in BranchOps \cup {"JMP"} /\ n = code[i].a + 1
                   \/ n = i + 1 /\ code[i].op \notin
                          {"JMP", "RETURN", "RETURN_VOID", "TAIL_CALL", "HALT"}}
        after == IF code[i].op = "CALL" THEN hs[i] - code[i].b + ar[code[i].a + 1]
                 ELSE hs[i] + StackEffect(code[i].op)
        new == {n \in next : hs[n] < 0 /\ after >= 0}
    IN  IF from = {} THEN hs
        ELSE Propagate(code, ar, [n \in DOMAIN hs |-> IF n \in new THEN after ELSE hs[n]],
                       (from \ {i}) \cup new)

Heights(code, ar) ==
    Propagate(code, ar, [i \in 1 .. Len(code) |-> IF i = 1 THEN 0 ELSE -1], {1} \cap DOMAIN code)
=============================================================================
