------------------------------ MODULE AstraIR ------------------------------
(***************************************************************************)
(* The bytecode shared by the compiler, the disassembler and the virtual   *)
(* machine: machine words, the opcodes, the registry's stack effects and   *)
(* the shape of a loaded module.                                           *)
(***************************************************************************)
EXTENDS Integers, Sequences

CONSTANTS
    WordBits,   \* bits of an integer operand (64 in the code)
    HalfWord,   \* 2^(WordBits-1): integers are -HalfWord .. HalfWord-1
    ByteSize    \* values of a heap byte (256 in the code)

ASSUME WordAssumption ==
    /\ WordBits \in Nat \ {0}
    /\ HalfWord \in Nat \ {0, 1}
    /\ ByteSize \in Nat \ {0}
    /\ HalfWord = 2^(WordBits - 1)
    /\ ByteSize <= HalfWord

Int64 == -HalfWord .. HalfWord - 1
Usize == 0 .. 2 * HalfWord - 1
Byte == 0 .. ByteSize - 1

(* Mutant: arithmetic that does not wrap.                                    *)
WrapUnwrapped(n) == n

(* `x as usize`, and the two's complement wrap of release arithmetic. *)
AsUsize(n) == n % (2 * HalfWord)
Wrap(n) == ((n + HalfWord) % (2 * HalfWord)) - HalfWord

-----------------------------------------------------------------------------
(* Opcodes, grouped by the VM handlers that serve them. *)

PushOps == {"PUSH_I64", "PUSH_F64", "PUSH_BOOL", "PUSH_NULL", "PUSH_STR"}
IntBinOps == {"IADD", "ISUB", "IMUL", "BAND", "BOR", "BXOR", "LSHIFT", "RSHIFT"}
FltBinOps == {"FADD", "FSUB", "FMUL", "FDIV"}
IntCmpOps == {"IEQ", "INEQ", "ILT", "IGT", "ILTE", "IGTE"}
LogicOps == {"AND", "OR"}
BinaryOps == IntBinOps \cup FltBinOps \cup IntCmpOps \cup LogicOps
DivOps == {"IDIV", "IMOD"}
UnaryOps == {"INEG", "FNEG", "NOT", "BNOT", "I2F", "F2I", "I2B", "B2I", "STR_LEN"}
BranchOps == {"JMP_IF", "JMP_IFNOT"}
PrintOps == {"PRINT", "PRINTLN", "EPRINT"}
QuietOps == {"NOP", "LINE_INFO", "BREAKPOINT"}

(* Registered as stable, but without a handler in the VM. *)
UnimplementedOps ==
    {"CALL_EXTERN", "FEQ", "FNEQ", "FLT", "FGT", "FLTE", "FGTE"}

(* Opcodes that leave the frame or enter another one. *)
TransferOps == {"CALL", "RETURN", "RETURN_VOID", "TAIL_CALL"}

OpCode ==
    PushOps \cup BinaryOps \cup DivOps \cup UnaryOps \cup BranchOps
      \cup PrintOps \cup QuietOps \cup UnimplementedOps \cup TransferOps
      \cup {"POP", "DUP", "SWAP", "LOAD_LOCAL", "STORE_LOCAL", "LOAD_GLOBAL",
            "STORE_GLOBAL", "JMP", "ALLOC", "FREE", "LOAD_PTR", "STORE_PTR",
            "STR_CONCAT", "HALT"}

(* The opcodes the registry declares to add one value, and to take one.     *)
Pushing == PushOps \cup {"DUP", "LOAD_LOCAL", "LOAD_GLOBAL", "ALLOC"}
Popping ==
    BinaryOps \cup DivOps \cup BranchOps \cup PrintOps
      \cup {"POP", "STORE_LOCAL", "STORE_GLOBAL", "FREE", "LOAD_PTR",
            "STR_CONCAT", "RETURN"}
      \cup {"FEQ", "FNEQ", "FLT", "FGT", "FLTE", "FGTE"}

(* The registry's declared effect of an opcode on the stack's depth.        *)
(* Mutant: STORE_PTR declared to leave the pointer on the stack.            *)
StackEffectKeepsPtr(op) ==
    IF op \in Pushing THEN 1
    ELSE IF op \in Popping THEN -1
    ELSE IF op = "STORE_PTR" THEN -2
    ELSE 0

StackEffect(op) ==
    IF op \in Pushing THEN 1
    ELSE IF op \in Popping THEN -1
    ELSE IF op = "STORE_PTR" THEN -3
    ELSE 0

-----------------------------------------------------------------------------
(* An instruction, a function and a module as the loader hands them over.   *)
(* A string is abstracted to its length in bytes, which is all that the     *)
(* machine's control depends on; a function's name is left out.             *)

Instr == [op : OpCode, a : Int64, b : Int64]

Function == [params : Nat, locals : Nat, code : Seq(Instr)]

Module == [functions : Seq(Function), strings : Seq(Nat), entry : Nat]
=============================================================================
