---------------------------- MODULE AstraValues ----------------------------
(***************************************************************************)
(* The runtime's tagged values and what the data instructions compute.     *)
(*                                                                         *)
(* A value is a tag and an integer payload: an integer or a heap address   *)
(* is itself, a boolean is 0 or 1, a string is its length in bytes, and a  *)
(* float is 0 or 1 for "equal to zero" and "anything else, NaN included",  *)
(* which is all that a branch can see of it.  An operation yields the SET  *)
(* of values it may produce: empty when the operands have the wrong type,  *)
(* and more than one where a float's magnitude would decide.               *)
(***************************************************************************)
EXTENDS AstraIR

IntV(i) == [t |-> "Int", v |-> i]
BoolV(b) == [t |-> "Bool", v |-> IF b THEN 1 ELSE 0]
FloatV(z) == [t |-> "Float", v |-> z]
StrV(n) == [t |-> "Str", v |-> n]
PtrV(a) == [t |-> "Ptr", v |-> a]
Null == [t |-> "Null", v |-> 0]

Value ==
    [t : {"Int"}, v : Int64] \cup [t : {"Bool", "Float"}, v : {0, 1}]
      \cup [t : {"Str", "Ptr"}, v : Nat] \cup {Null}

Are(tag, x, y) == x.t = tag /\ y.t = tag

Truthy(x) == IF x.t \in {"Bool", "Int", "Float"} THEN x.v # 0 ELSE x.t # "Null"

-----------------------------------------------------------------------------
(* Integers.  Division truncates towards zero; a shift counts modulo the    *)
(* word size, and >> keeps the sign.                                        *)

Abs(n) == IF n < 0 THEN -n ELSE n
Quot(x, y) ==
    IF (x < 0) = (y < 0) THEN Abs(x) \div Abs(y) ELSE -(Abs(x) \div Abs(y))
Remainder(x, y) == x - y * Quot(x, y)

Bit(n, k) == (n \div 2^k) % 2
BitOf(op, p, q) ==
    CASE op = "BAND" -> p * q
      [] op = "BOR" -> p + q - p * q
      [] op = "BXOR" -> (p + q) % 2

(* The one word z that the instruction yields for x and y.                  *)
IntBinop(op, x, y) ==
    {z \in Int64 :
        CASE op = "IADD" -> z = Wrap(x + y)
          [] op = "ISUB" -> z = Wrap(x - y)
          [] op = "IMUL" -> z = Wrap(x * y)
          [] op = "LSHIFT" -> z = Wrap(x * 2^(y % WordBits))
          [] op = "RSHIFT" -> z = x \div 2^(y % WordBits)
          [] OTHER -> \A k \in 0 .. WordBits - 1 :
                         Bit(z, k) = BitOf(op, Bit(x, k), Bit(y, k))}

IntCmp(op, x, y) ==
    CASE op = "IEQ" -> x = y
      [] op = "INEQ" -> x # y
      [] op = "ILT" -> x < y
      [] op = "IGT" -> x > y
      [] op = "ILTE" -> x <= y
      [] OTHER -> x >= y

(* IDIV and IMOD panic on MIN / -1; IMOD, which has no check of its own,    *)
(* also on a zero divisor.                                                  *)
DivPanics(x, y) == y = 0 \/ (x = -HalfWord /\ y = -1)
IntDivision(op, x, y) ==
    {z \in Int64 : z = IF op = "IDIV" THEN Quot(x, y) ELSE Remainder(x, y)}

-----------------------------------------------------------------------------
(* Floats, on the zero / not zero abstraction.                              *)

FltBinop(op, p, q) ==
    CASE op \in {"FADD", "FSUB"} -> IF p = 0 /\ q = 0 THEN {0}
                                    ELSE IF p = 0 \/ q = 0 THEN {1} ELSE {0, 1}
      [] op = "FMUL" -> IF p = 0 /\ q = 0 THEN {0} ELSE {0, 1}
      [] OTHER -> IF q = 0 THEN {1} ELSE {0, 1}

IsZero(i) == IF i = 0 THEN 0 ELSE 1

(* The float with these bits: +0.0 and -0.0 are the two zeros.              *)
FloatOfBits(i) == FloatV(IF i \in {0, -HalfWord} THEN 0 ELSE 1)

-----------------------------------------------------------------------------
(* What an instruction with one or two operands may push; {} = type error.  *)

UnaryResults(op, x) ==
    CASE op = "NOT" -> {BoolV(~Truthy(x))}
      [] op = "INEG" /\ x.t = "Int" -> {IntV(Wrap(-x.v))}
      [] op = "BNOT" /\ x.t = "Int" -> {IntV(-x.v - 1)}
      [] op = "FNEG" /\ x.t = "Float" -> {x}
      [] op = "I2F" /\ x.t = "Int" -> {FloatV(IsZero(x.v))}
      [] op = "F2I" /\ x.t = "Float" -> IF x.v = 0 THEN {IntV(0)} ELSE {IntV(i) : i \in Int64}
      [] op = "I2B" /\ x.t = "Int" -> {BoolV(x.v # 0)}
      [] op = "B2I" /\ x.t = "Bool" -> {IntV(x.v)}
      [] op = "STR_LEN" /\ x.t = "Str" -> {IntV(Wrap(x.v))}
      [] OTHER -> {}

BinaryResults(op, x, y) ==
    CASE op = "AND" -> {BoolV(Truthy(x) /\ Truthy(y))}
      [] op = "OR" -> {BoolV(Truthy(x) \/ Truthy(y))}
      [] op \in IntBinOps /\ Are("Int", x, y) -> {IntV(z) : z \in IntBinop(op, x.v, y.v)}
      [] op \in IntCmpOps /\ Are("Int", x, y) -> {BoolV(IntCmp(op, x.v, y.v))}
      [] op \in FltBinOps /\ Are("Float", x, y) -> {FloatV(z) : z \in FltBinop(op, x.v, y.v)}
      [] op \in FltBinOps /\ Are("Int", x, y) ->
            {FloatV(z) : z \in FltBinop(op, IsZero(x.v), IsZero(y.v))}
      [] OTHER -> {}
=============================================================================
