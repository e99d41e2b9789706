-------------------------- MODULE AstraCertificate --------------------------
(***************************************************************************)
(* Bytecode whose use of the stack adds up.  A certificate assigns to      *)
(* every instruction the number of values its function has on the stack    *)
(* before it, and to every function the number of values it returns, so    *)
(* that the registry's declared effects agree along every edge of the      *)
(* control flow.                                                           *)
(***************************************************************************)
EXTENDS AstraIR

(* Values an instruction pops or looks at.                                  *)
Operands(ins) ==
    CASE ins.op \in UnaryOps \cup BranchOps \cup PrintOps
                \cup {"POP", "FREE", "DUP", "STORE_LOCAL", "STORE_GLOBAL", "RETURN"} -> 1
      [] ins.op \in BinaryOps \cup DivOps \cup {"SWAP", "STR_CONCAT", "LOAD_PTR"} -> 2
      [] ins.op = "STORE_PTR" -> 3
      [] ins.op \in {"CALL", "TAIL_CALL"} -> ins.b
      [] OTHER -> 0

CodeOf(c, f) == c.module.functions[f + 1].code
Arity(c, f) == c.arity[f + 1]

(* The height before instruction ip; running off the end is a return.       *)
Height(c, f, ip) ==
    IF ip < Len(CodeOf(c, f)) THEN c.heights[f + 1][ip + 1] ELSE Arity(c, f)

Functions(c) == 0 .. Len(c.module.functions) - 1

(* The instruction has its operands and every successor the right height.   *)
AddsUp(c, f, ip) ==
    LET ins == CodeOf(c, f)[ip + 1]
        h == Height(c, f, ip)
        Leads(to, n) == Height(c, f, to) = n
    IN  /\ Operands(ins) \in 0 .. h
        /\ CASE ins.op = "CALL" ->
                  ins.a \in Functions(c) /\ Leads(ip + 1, h - ins.b + Arity(c, ins.a))
             [] ins.op = "TAIL_CALL" ->
                  ins.a \in Functions(c) /\ Arity(c, ins.a) = Arity(c, f)
             [] ins.op = "RETURN" -> Arity(c, f) = 1
             [] ins.op = "RETURN_VOID" -> Arity(c, f) = 0
             [] ins.op = "JMP" -> ins.a >= 0 /\ Leads(ins.a, h)
             [] ins.op \in BranchOps ->
                  ins.a >= 0 /\ Leads(ins.a, h - 1) /\ Leads(ip + 1, h - 1)
             [] ins.op \in UnimplementedOps \cup {"HALT"} -> TRUE
             [] OTHER -> Leads(ip + 1, h + StackEffect(ins.op))

(* Height -1 marks an instruction no path reaches.                          *)
FunctionAddsUp(c, f) ==
    /\ Height(c, f, 0) = 0
    /\ \A ip \in 0 .. Len(CodeOf(c, f)) - 1 :
          Height(c, f, ip) >= 0 => AddsUp(c, f, ip)

Consistent(c) ==
    /\ c.module.entry \in Functions(c)
    /\ \A f \in Functions(c) : FunctionAddsUp(c, f)

Certificate ==
    [module : Module, heights : Seq(Seq(Int)), arity : Seq({0, 1})]

WellShaped(c) ==
    /\ Len(c.arity) = Len(c.module.functions)
    /\ Len(c.heights) = Len(c.module.functions)
    /\ \A f \in Functions(c) : Len(c.heights[f + 1]) = Len(CodeOf(c, f))
=============================================================================
