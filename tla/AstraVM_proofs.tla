--------------------------- MODULE AstraVM_proofs ---------------------------
(***************************************************************************)
(* Proofs about the machine on arbitrary bytecode: its invariant, and what *)
(* a single step may do: which frames it touches, how it changes the depth *)
(* of the stack, where it can overflow, and where a heap address can be    *)
(* found after it.                                                         *)
(***************************************************************************)
EXTENDS AstraVMProps, TLAPS, SequenceTheorems

-----------------------------------------------------------------------------
(* Words and values. *)

LEMMA WrapType == \A n \in Int : Wrap(n) \in Int64
  BY WordAssumption DEF Wrap, Int64

LEMMA AsUsizeType == \A n \in Int : AsUsize(n) \in Nat
  BY WordAssumption DEF AsUsize

LEMMA ValueIntro ==
  /\ \A i \in Int64 : IntV(i) \in Value
  /\ \A b : BoolV(b) \in Value
  /\ \A z \in {0, 1} : FloatV(z) \in Value
  /\ \A n \in Nat : StrV(n) \in Value /\ PtrV(n) \in Value
  /\ Null \in Value
  BY DEF Value, IntV, BoolV, FloatV, StrV, PtrV, Null

LEMMA ValueElim ==
  ASSUME NEW x \in Value
  PROVE  /\ x.v \in Int
         /\ x.t = "Int" => x.v \in Int64
         /\ x.t \in {"Bool", "Float"} => x.v \in {0, 1}
         /\ x.t \in {"Str", "Ptr"} => x.v \in Nat
  BY WordAssumption DEF Value, Int64, Null

LEMMA UnaryType ==
  ASSUME NEW x \in Value, NEW op \in UnaryOps
  PROVE  UnaryResults(op, x) \subseteq Value
  <1>1. CASE op = "NOT"
    BY <1>1, ValueIntro DEF UnaryResults
  <1>2. CASE op \in {"INEG", "BNOT"}
    <2>1. x.t = "Int" => Wrap(-x.v) \in Int64 /\ -x.v - 1 \in Int64
      BY ValueElim, WrapType, WordAssumption DEF Int64
    <2> QED BY <1>2, <2>1, ValueIntro DEF UnaryResults
  <1>3. CASE op \in {"FNEG", "I2F"}
    BY <1>3, ValueIntro DEF UnaryResults, IsZero
  <1>4. CASE op = "F2I"
    BY <1>4, ValueIntro, WordAssumption DEF UnaryResults, Int64
  <1>5. CASE op \in {"I2B", "B2I", "STR_LEN"}
    <2>1. /\ x.t = "Str" => Wrap(x.v) \in Int64
          /\ x.t = "Bool" => x.v \in Int64
      BY ValueElim, WrapType, WordAssumption DEF Int64
    <2>2. CASE op = "I2B"
      BY <2>2, ValueIntro DEF UnaryResults
    <2>3. CASE op = "B2I"
      BY <2>1, <2>3, ValueIntro DEF UnaryResults
    <2>4. CASE op = "STR_LEN"
      BY <2>1, <2>4, ValueIntro DEF UnaryResults
    <2> QED BY <1>5, <2>2, <2>3, <2>4
  <1> QED BY <1>1, <1>2, <1>3, <1>4, <1>5 DEF UnaryOps

LEMMA BinaryType ==
  ASSUME NEW x \in Value, NEW y \in Value, NEW op
  PROVE  BinaryResults(op, x, y) \subseteq Value
  BY WordAssumption
     DEF BinaryResults, Value, IntV, BoolV, FloatV, IntBinop, FltBinop, Are

-----------------------------------------------------------------------------
(* Vectors. *)

LEMMA FirstOf ==
  ASSUME NEW S, NEW s \in Seq(S), NEW n \in Int, n <= Len(s)
  PROVE  /\ SubSeq(s, 1, n) \in Seq(S)
         /\ n >= 0 => Len(SubSeq(s, 1, n)) = n
         /\ n < 0 => Len(SubSeq(s, 1, n)) = 0
         /\ \A i \in 1 .. n : SubSeq(s, 1, n)[i] = s[i]
  OBVIOUS

LEMMA PrefixOf ==
  ASSUME NEW S, NEW s \in Seq(S), NEW n \in Nat
  PROVE  Prefix(s, n) \in Seq(S) /\ Len(Prefix(s, n)) <= Len(s)
  BY DEF Prefix

LEMMA ResizeType ==
  ASSUME NEW S, NEW s \in Seq(S), NEW n \in Nat, NEW x \in S
  PROVE  Resize(s, n, x) \in Seq(S) /\ Len(Resize(s, n, x)) = n
  BY DEF Resize

LEMMA AtType ==
  ASSUME NEW S, NEW s \in Seq(S), NEW i \in Nat, NEW x \in S
  PROVE  At(s, i, x) \in S
  BY DEF At

-----------------------------------------------------------------------------
(* The inductive invariant: the type invariant alone is not inductive, since *)
(* the fetched instruction is typed only when the running frame's function   *)
(* index is within the function table.                                       *)

IInv == TypeOK /\ StackBounded /\ RunningHasFrame /\ TraceIndexesFunctions

(* Before the start there is no frame; only what a step does to the frames   *)
(* needs it, so it is not part of IInv.                                      *)
NothingEntered == status = "loaded" => frames = <<>>

LEMMA FetchType ==
  ASSUME IInv, NEW ops, Running(ops)
  PROVE  /\ Len(frames) \in Nat \ {0}
         /\ Top \in Frame
         /\ Top.fn < Len(module.functions)
         /\ Ins \in Instr
         /\ Ins.op \in ops
         /\ status = "running"
  <1>1. frames # <<>> /\ frames \in Seq(Frame)
    BY DEF IInv, TypeOK, Running
  <1>2. Len(frames) \in Nat \ {0} /\ Top \in Frame
    BY <1>1 DEF Top
  <1>3. Top.fn < Len(module.functions)
    BY <1>2 DEF IInv, TraceIndexesFunctions, Top
  <1>4. module.functions[Top.fn + 1] \in Function
    <2>1. module.functions \in Seq(Function)
      BY DEF IInv, TypeOK, Module
    <2>2. Top.fn + 1 \in 1 .. Len(module.functions)
      BY <1>2, <1>3, <2>1 DEF Frame
    <2> QED BY <2>1, <2>2
  <1>5. Top.ip + 1 \in 1 .. Len(Code(Top)) /\ Code(Top) \in Seq(Instr)
    BY <1>2, <1>4 DEF Running, Function, Frame, Code
  <1>6. Ins \in Instr
    BY <1>5 DEF Ins
  <1> QED BY <1>2, <1>3, <1>6 DEF Running

(* Replacing the running frame by one of the same function keeps the frames *)
(* well formed; so does dropping it.                                        *)
LEMMA FramesKept ==
  ASSUME IInv, frames # <<>>, NEW f \in Frame, f.fn < Len(module.functions)
  PROVE  /\ WithTop(f) \in Seq(Frame)
         /\ WithTop(f) # <<>>
         /\ Len(WithTop(f)) = Len(frames)
         /\ \A i \in DOMAIN WithTop(f) : WithTop(f)[i].fn < Len(module.functions)
  <1> DEFINE n == Len(frames)
  <1>1. frames \in Seq(Frame) /\ n \in Nat \ {0} /\ DOMAIN frames = 1 .. n
    BY DEF IInv, TypeOK
  <1>2. /\ WithTop(f) \in Seq(Frame)
        /\ Len(WithTop(f)) = n
        /\ \A i \in 1 .. n : WithTop(f)[i] = IF i = n THEN f ELSE frames[i]
    BY <1>1 DEF WithTop
  <1>3. \A i \in 1 .. n : frames[i].fn < Len(module.functions)
    BY <1>1 DEF IInv, TraceIndexesFunctions
  <1> HIDE DEF n
  <1>4. DOMAIN WithTop(f) = 1 .. n
    BY <1>1, <1>2
  <1> QED BY <1>1, <1>2, <1>3, <1>4 DEF n

LEMMA CallersKept ==
  ASSUME IInv, frames # <<>>
  PROVE  /\ Callers \in Seq(Frame)
         /\ Len(Callers) = Len(frames) - 1
         /\ \A i \in DOMAIN Callers : Callers[i].fn < Len(module.functions)
  <1>1. frames \in Seq(Frame) /\ Len(frames) - 1 \in Nat
    BY DEF IInv, TypeOK
  <1>2. /\ Callers \in Seq(Frame)
        /\ Len(Callers) = Len(frames) - 1
        /\ \A i \in 1 .. Len(frames) - 1 : Callers[i] = frames[i]
    <2> DEFINE n == Len(frames) - 1
    <2>1. n <= Len(frames) /\ n \in Nat
      BY <1>1
    <2> HIDE DEF n
    <2>2. /\ SubSeq(frames, 1, n) \in Seq(Frame)
          /\ Len(SubSeq(frames, 1, n)) = n
          /\ \A i \in 1 .. n : SubSeq(frames, 1, n)[i] = frames[i]
      BY <1>1, <2>1, FirstOf
    <2> QED BY <2>2 DEF Callers, n
  <1>3. \A i \in 1 .. Len(frames) : frames[i].fn < Len(module.functions)
    BY <1>1 DEF IInv, TraceIndexesFunctions
  <1> QED BY <1>1, <1>2, <1>3

LEMMA JumpKept ==
  ASSUME IInv, NEW ops, Running(ops), NEW ip \in Nat
  PROVE  /\ Jump(ip) \in Seq(Frame)
         /\ Jump(ip) # <<>>
         /\ \A i \in DOMAIN Jump(ip) : Jump(ip)[i].fn < Len(module.functions)
  <1>1. Top \in Frame /\ Top.fn < Len(module.functions) /\ frames # <<>>
    BY FetchType DEF Running
  <1>2. [Top EXCEPT !.ip = ip] \in Frame /\ [Top EXCEPT !.ip = ip].fn = Top.fn
    BY <1>1 DEF Frame
  <1> QED BY <1>1, <1>2, FramesKept DEF Jump

LEMMA SteppedKept ==
  ASSUME IInv, NEW ops, Running(ops)
  PROVE  /\ Stepped \in Seq(Frame)
         /\ Stepped # <<>>
         /\ \A i \in DOMAIN Stepped : Stepped[i].fn < Len(module.functions)
  <1>1. Top.ip + 1 \in Nat
    BY FetchType DEF Frame
  <1> QED BY <1>1, JumpKept DEF Stepped

LEMMA OperandTypes ==
  ASSUME IInv, NEW n \in Nat, n <= Len(stack)
  PROVE  /\ Below(n) \in Seq(Value)
         /\ Len(Below(n)) = Len(stack) - n
         /\ Len(Below(n)) <= StackLimit
         /\ n > 0 => Nth(n) \in Value
  BY LimitAssumption, SMTT(30) DEF IInv, TypeOK, StackBounded, Below, Nth

-----------------------------------------------------------------------------
(* Building blocks of the handlers. *)

LEMMA StepKept ==
  ASSUME IInv, module' = module,
         stack' \in Seq(Value), Len(stack') <= StackLimit,
         frames' \in Seq(Frame),
         \A i \in DOMAIN frames' : frames'[i].fn < Len(module.functions),
         heap' \in Seq(Byte),
         DOMAIN globals' \subseteq Usize, globals' \in [DOMAIN globals' -> Value],
         output' \in Seq([stream : {"out", "err"}, value : Value]),
         status' \in Status, status' = "running" => frames' # <<>>
  PROVE  IInv'
  BY DEF IInv, TypeOK, StackBounded, RunningHasFrame, TraceIndexesFunctions

LEMMA PlainStepKept ==
  ASSUME IInv, UNCHANGED Store,
         stack' \in Seq(Value), Len(stack') <= StackLimit,
         frames' \in Seq(Frame),
         \A i \in DOMAIN frames' : frames'[i].fn < Len(module.functions),
         status' \in Status, status' = "running" => frames' # <<>>
  PROVE  IInv'
  BY StepKept DEF Store, IInv, TypeOK

LEMMA StopKept ==
  ASSUME IInv, NEW ops, Running(ops), NEW why \in Status \ {"running"},
         NEW rest \in Seq(Value), Len(rest) <= StackLimit, Stop(why, rest)
  PROVE  IInv'
  BY SteppedKept, PlainStepKept DEF Stop

LEMMA NeedsKept ==
  ASSUME IInv, NEW ops, Running(ops), NEW n, NeedsValues(n)
  PROVE  IInv'
  <1>1. <<>> \in Seq(Value) /\ Len(<<>>) = 0 /\ 0 <= StackLimit
    BY LimitAssumption
  <1>2. "underflow" \in Status \ {"running"}
    BY DEF Status, Errors
  <1> QED BY <1>1, <1>2, StopKept DEF NeedsValues

LEMMA PushOnKept ==
  ASSUME IInv, status = "running",
         NEW rest \in Seq(Value), Len(rest) <= StackLimit, NEW v \in Value,
         PushOn(rest, v)
  PROVE  /\ stack' \in Seq(Value)
         /\ Len(stack') <= StackLimit
         /\ status' \in Status
  <1>1. CASE Len(rest) < StackLimit
    BY <1>1, LimitAssumption DEF PushOn, Status
  <1>2. CASE Len(rest) >= StackLimit
    BY <1>2, LimitAssumption DEF PushOn, Status, Errors
  <1> QED BY <1>1, <1>2, LimitAssumption

LEMMA PushStepKept ==
  ASSUME IInv, NEW ops, Running(ops),
         NEW rest \in Seq(Value), Len(rest) <= StackLimit, NEW v \in Value,
         PushOn(rest, v), frames' = Stepped, UNCHANGED Store
  PROVE  IInv'
  BY PushOnKept, SteppedKept, PlainStepKept, FetchType

LEMMA DepthType ==
  ASSUME IInv
  PROVE  /\ Len(stack) \in Nat
         /\ stack # <<>> => 1 <= Len(stack)
  BY DEF IInv, TypeOK

LEMMA OperandsOfIns ==
  ASSUME IInv, NEW ops, Running(ops)
  PROVE  /\ Ins.a \in Int /\ Ins.b \in Int
         /\ AsUsize(Ins.a) \in Nat /\ AsUsize(Ins.b) \in Nat
  <1>1. Ins \in Instr
    BY FetchType
  <1>2. Ins.a \in Int /\ Ins.b \in Int
    BY <1>1, WordAssumption DEF Instr, Int64
  <1> QED BY <1>2, AsUsizeType

(* An instruction that fails, or pushes its result, after popping n values. *)
LEMMA StopPopped ==
  ASSUME IInv, NEW ops, Running(ops), NEW n \in Nat, n <= Len(stack),
         NEW why \in {"type", "divzero", "panic", "ok", "unimplemented"},
         Stop(why, Below(n))
  PROVE  IInv'
  <1>1. why \in Status \ {"running"}
    BY DEF Status, Errors
  <1> QED BY <1>1, OperandTypes, StopKept

LEMMA PushPopped ==
  ASSUME IInv, NEW ops, Running(ops), NEW n \in Nat, n <= Len(stack),
         NEW v \in Value, PushOn(Below(n), v), frames' = Stepped, UNCHANGED Store
  PROVE  IInv'
  BY OperandTypes, PushStepKept

LEMMA FrameSizeType ==
  ASSUME IInv, NEW f \in Nat, f < Len(module.functions)
  PROVE  FrameSize(f) \in Nat
  <1>1. module.functions \in Seq(Function) /\ f + 1 \in 1 .. Len(module.functions)
    BY DEF IInv, TypeOK, Module
  <1>2. module.functions[f + 1] \in Function
    BY <1>1
  <1> QED BY <1>2 DEF FrameSize, Function

LEMMA CallFnKept ==
  ASSUME IInv, NEW f \in Nat, NEW args \in Seq(Value),
         NEW under \in Seq(Frame),
         \A i \in DOMAIN under : under[i].fn < Len(module.functions),
         NEW rest \in Seq(Value), Len(rest) <= StackLimit,
         CallFn(f, args, under, rest)
  PROVE  IInv'
  <1>1. stack' = rest /\ UNCHANGED Store
    BY DEF CallFn
  <1>2. CASE frames' = under /\ status' \in {"badfn", "panic"}
    BY <1>1, <1>2, PlainStepKept DEF Status, Errors
  <1>3. CASE /\ f < Len(module.functions)
             /\ status' = "running"
             /\ frames' = Append(under, NewFrame(f, args, Len(rest)))
    <2>1. FrameSize(f) \in Nat
      BY <1>3, FrameSizeType
    <2>2. NewFrame(f, args, Len(rest)) \in Frame
      BY <2>1, ResizeType, ValueIntro DEF NewFrame, Frame
    <2>3. NewFrame(f, args, Len(rest)).fn < Len(module.functions)
      BY <1>3 DEF NewFrame
    <2> DEFINE new == NewFrame(f, args, Len(rest))
    <2> HIDE DEF new
    <2>4. /\ frames' \in Seq(Frame) /\ frames' # <<>>
          /\ \A i \in DOMAIN frames' : frames'[i].fn < Len(module.functions)
      BY <1>3, <2>2, <2>3 DEF new
    <2> QED BY <1>1, <1>3, <2>4, PlainStepKept DEF Status
  <1>4. module.functions \in Seq(Function)
    BY DEF IInv, TypeOK, Module
  <1> QED BY <1>2, <1>3, <1>4 DEF CallFn

-----------------------------------------------------------------------------
(* Each handler keeps the invariant. *)

LEMMA InitKept == Init => IInv
  <1> SUFFICES ASSUME Init PROVE IInv
    OBVIOUS
  <1>1. module \in Module
    BY ProgramsAssumption DEF Init
  <1>2. Len(<<>>) <= StackLimit
    BY LimitAssumption
  <1> QED
    BY <1>1, <1>2 DEF Init, Fresh, IInv, TypeOK, StackBounded, RunningHasFrame,
                      TraceIndexesFunctions, Status

LEMMA StartKept == IInv /\ Start => IInv'
  <1> SUFFICES ASSUME IInv, Start PROVE IInv'
    OBVIOUS
  <1>1. module.entry \in Nat
    BY DEF IInv, TypeOK, Module
  <1>2. /\ <<>> \in Seq(Value) /\ <<>> \in Seq(Frame)
        /\ DOMAIN <<>> = {} /\ Len(<<>>) <= StackLimit
    BY LimitAssumption
  <1>3. CallFn(module.entry, <<>>, <<>>, <<>>)
    BY DEF Start
  <1> QED BY <1>1, <1>2, <1>3, CallFnKept

LEMMA PushKept == IInv /\ Push => IInv'
  <1> SUFFICES ASSUME IInv, Push PROVE IInv'
    OBVIOUS
  <1>1. Ins.op \in PushOps /\ Ins.a \in Int64
    BY FetchType DEF Push, Instr
  <1>2. module.strings \in Seq(Nat) /\ AsUsize(Ins.a) \in Nat
    BY <1>1, AsUsizeType, WordAssumption, SMTT(30) DEF IInv, TypeOK, Module, Int64
  <1>3. Literal \in Value
    BY <1>1, <1>2, ValueIntro, AtType DEF Literal, PushOps, FloatOfBits
  <1>4. stack \in Seq(Value) /\ Len(stack) <= StackLimit
    BY DEF IInv, TypeOK, StackBounded
  <1> QED BY <1>3, <1>4, PushStepKept DEF Push

LEMMA PopKept == IInv /\ Pop => IInv'
  <1> SUFFICES ASSUME IInv, Running({"POP", "FREE"}), Pop PROVE IInv'
    BY DEF Pop
  <1>1. CASE NeedsValues(1)
    BY <1>1, NeedsKept
  <1>2. CASE stack # <<>> /\ stack' = Below(1) /\ frames' = Stepped
               /\ UNCHANGED <<Store, status>>
    <2>1. 1 <= Len(stack)
      BY <1>2 DEF IInv, TypeOK
    <2> QED BY <1>2, <2>1, OperandTypes, SteppedKept, PlainStepKept DEF IInv, TypeOK
  <1> QED BY <1>1, <1>2 DEF Pop

LEMMA DupKept == IInv /\ Dup => IInv'
  <1> SUFFICES ASSUME IInv, Running({"DUP"}), Dup PROVE IInv'
    BY DEF Dup
  <1>1. CASE NeedsValues(1)
    BY <1>1, NeedsKept
  <1>2. CASE stack # <<>> /\ PushOn(stack, Nth(1)) /\ frames' = Stepped
               /\ UNCHANGED Store
    <2>1. stack \in Seq(Value) /\ Len(stack) <= StackLimit
      BY DEF IInv, TypeOK, StackBounded
    <2>2. 1 <= Len(stack)
      BY <1>2, <2>1
    <2>3. Nth(1) \in Value
      BY <2>2, OperandTypes
    <2> QED BY <1>2, <2>1, <2>3, PushStepKept
  <1> QED BY <1>1, <1>2 DEF Dup

LEMMA SwapKept == IInv /\ Swap => IInv'
  <1> SUFFICES ASSUME IInv, Running({"SWAP"}), Swap PROVE IInv'
    BY DEF Swap
  <1>1. CASE NeedsValues(2)
    BY <1>1, NeedsKept
  <1>2. CASE Len(stack) >= 2 /\ stack' = Below(2) \o <<Nth(1), Nth(2)>>
               /\ frames' = Stepped /\ UNCHANGED <<Store, status>>
    <2>1. /\ Below(2) \in Seq(Value) /\ Len(Below(2)) = Len(stack) - 2
          /\ Nth(1) \in Value /\ Nth(2) \in Value
      BY <1>2, OperandTypes
    <2>2. stack' \in Seq(Value) /\ Len(stack') = Len(stack)
      BY <1>2, <2>1 DEF IInv, TypeOK
    <2>3. Len(stack') <= StackLimit
      BY <2>2 DEF IInv, StackBounded
    <2>4. status' \in Status
      BY <1>2 DEF IInv, TypeOK
    <2> QED BY <1>2, <2>2, <2>3, <2>4, SteppedKept, PlainStepKept
  <1> QED BY <1>1, <1>2 DEF Swap

LEMMA LoadLocalKept == IInv /\ LoadLocal => IInv'
  <1> SUFFICES ASSUME IInv, LoadLocal PROVE IInv'
    OBVIOUS
  <1>1. Ins.a \in Int /\ Top.locals \in Seq(Value)
    BY FetchType, WordAssumption DEF LoadLocal, Instr, Int64, Frame
  <1>2. At(Top.locals, AsUsize(Ins.a), Null) \in Value
    BY <1>1, AsUsizeType, AtType, ValueIntro
  <1>3. stack \in Seq(Value) /\ Len(stack) <= StackLimit
    BY DEF IInv, TypeOK, StackBounded
  <1> QED BY <1>2, <1>3, PushStepKept DEF LoadLocal

LEMMA StoreLocalKept == IInv /\ StoreLocal => IInv'
  <1> DEFINE slot == AsUsize(Ins.a)
             size == IF slot >= Len(Top.locals) THEN slot + 1 ELSE Len(Top.locals)
             grown == [Resize(Top.locals, size, Null) EXCEPT ![slot + 1] = Nth(1)]
             new == [Top EXCEPT !.ip = Top.ip + 1, !.locals = grown]
  <1> SUFFICES ASSUME IInv, Running({"STORE_LOCAL"}), StoreLocal PROVE IInv'
    BY DEF StoreLocal
  <1>1. CASE NeedsValues(1)
    BY <1>1, NeedsKept
  <1>2. CASE stack # <<>> /\ Stop("panic", Below(1))
    BY <1>2, DepthType, StopPopped
  <1>3. CASE stack # <<>> /\ stack' = Below(1) /\ frames' = WithTop(new)
               /\ UNCHANGED <<Store, status>>
    <2>1. 1 <= Len(stack) /\ frames # <<>>
      BY <1>3 DEF IInv, TypeOK, Running
    <2>2. slot \in Nat /\ Top \in Frame /\ Top.fn < Len(module.functions)
      BY FetchType, OperandsOfIns
    <2>3. size \in Nat /\ slot + 1 \in 1 .. size
      BY <2>2 DEF Frame
    <2> HIDE DEF size, slot
    <2>4. grown \in Seq(Value)
      <3>1. Resize(Top.locals, size, Null) \in Seq(Value)
            /\ Len(Resize(Top.locals, size, Null)) = size
        <4>1. Top.locals \in Seq(Value) /\ Null \in Value
          BY <2>2, ValueIntro DEF Frame
        <4>2. size \in Nat
          BY <2>3
        <4> QED BY <4>1, <4>2, ResizeType
      <3>2. Nth(1) \in Value
        BY <2>1, OperandTypes
      <3> QED BY <2>3, <3>1, <3>2
    <2> HIDE DEF grown
    <2>5. new \in Frame /\ new.fn < Len(module.functions)
      <3>1. Top.ip + 1 \in Nat
        BY <2>2 DEF Frame
      <3> QED BY <2>2, <2>4, <3>1 DEF Frame
    <2> HIDE DEF new
    <2> QED
      BY <1>3, <2>1, <2>5, FramesKept, OperandTypes, PlainStepKept DEF IInv, TypeOK
  <1> QED BY <1>1, <1>2, <1>3 DEF StoreLocal

LEMMA LoadGlobalKept == IInv /\ LoadGlobal => IInv'
  <1> SUFFICES ASSUME IInv, LoadGlobal PROVE IInv'
    OBVIOUS
  <1> DEFINE g == AsUsize(Ins.a)
             v == IF g \in DOMAIN globals THEN globals[g] ELSE Null
  <1>1. v \in Value
    BY ValueIntro DEF IInv, TypeOK
  <1>2. stack \in Seq(Value) /\ Len(stack) <= StackLimit
    BY DEF IInv, TypeOK, StackBounded
  <1>3. Running({"LOAD_GLOBAL"}) /\ PushOn(stack, v) /\ frames' = Stepped /\ UNCHANGED Store
    BY DEF LoadGlobal
  <1> HIDE DEF v
  <1> QED BY <1>1, <1>2, <1>3, PushStepKept

LEMMA StoreGlobalKept == IInv /\ StoreGlobal => IInv'
  <1> DEFINE g == AsUsize(Ins.a)
  <1> SUFFICES ASSUME IInv, Running({"STORE_GLOBAL"}), StoreGlobal PROVE IInv'
    BY DEF StoreGlobal
  <1>1. CASE NeedsValues(1)
    BY <1>1, NeedsKept
  <1>2. CASE /\ stack # <<>> /\ stack' = Below(1)
             /\ globals' = [k \in DOMAIN globals \cup {g} |->
                              IF k = g THEN Nth(1) ELSE globals[k]]
             /\ frames' = Stepped /\ UNCHANGED <<module, heap, output, status>>
    <2>1. 1 <= Len(stack)
      BY <1>2 DEF IInv, TypeOK
    <2>2. g \in Usize
      BY FetchType, WordAssumption DEF Instr, Int64, AsUsize, Usize
    <2>3. DOMAIN globals' \subseteq Usize /\ globals' \in [DOMAIN globals' -> Value]
      BY <1>2, <2>1, <2>2, OperandTypes DEF IInv, TypeOK
    <2> QED BY <1>2, <2>1, <2>3, OperandTypes, SteppedKept, StepKept DEF IInv, TypeOK
  <1> QED BY <1>1, <1>2 DEF StoreGlobal

LEMMA UnaryKept == IInv /\ Unary => IInv'
  <1> SUFFICES ASSUME IInv, Running(UnaryOps), Unary PROVE IInv'
    BY DEF Unary
  <1>1. CASE NeedsValues(1)
    BY <1>1, NeedsKept
  <1>2. CASE stack # <<>> /\ Stop("type", Below(1))
    BY <1>2, DepthType, StopPopped
  <1>3. CASE /\ stack # <<>> /\ frames' = Stepped /\ UNCHANGED Store
             /\ \E v \in UnaryResults(Ins.op, Nth(1)) : PushOn(Below(1), v)
    <2>1. 1 <= Len(stack)
      BY <1>3 DEF IInv, TypeOK
    <2>2. UnaryResults(Ins.op, Nth(1)) \subseteq Value
      BY <2>1, OperandTypes, FetchType, UnaryType
    <2>3. PICK v \in UnaryResults(Ins.op, Nth(1)) : PushOn(Below(1), v)
      BY <1>3
    <2> QED BY <1>3, <2>1, <2>2, <2>3, PushPopped
  <1> QED BY <1>1, <1>2, <1>3 DEF Unary

LEMMA BinaryKept == IInv /\ Binary => IInv'
  <1> SUFFICES ASSUME IInv, Running(BinaryOps), Binary PROVE IInv'
    BY DEF Binary
  <1>1. CASE NeedsValues(2)
    BY <1>1, NeedsKept
  <1>2. CASE Len(stack) >= 2 /\ Stop("type", Below(2))
    BY <1>2, DepthType, StopPopped
  <1>3. CASE /\ Len(stack) >= 2 /\ frames' = Stepped /\ UNCHANGED Store
             /\ \E v \in BinaryResults(Ins.op, Nth(2), Nth(1)) : PushOn(Below(2), v)
    <2>1. BinaryResults(Ins.op, Nth(2), Nth(1)) \subseteq Value
      <3>1. Nth(1) \in Value /\ Nth(2) \in Value
        BY <1>3, DepthType, OperandTypes
      <3> QED BY <3>1, BinaryType
    <2>2. PICK v \in BinaryResults(Ins.op, Nth(2), Nth(1)) : PushOn(Below(2), v)
      BY <1>3
    <2> QED BY <1>3, <2>1, <2>2, DepthType, PushPopped
  <1> QED BY <1>1, <1>2, <1>3 DEF Binary

LEMMA DivideKept == IInv /\ Divide => IInv'
  <1> SUFFICES ASSUME IInv, Running(DivOps), Divide PROVE IInv'
    BY DEF Divide
  <1>1. CASE NeedsValues(2)
    BY <1>1, NeedsKept
  <1>2. CASE Len(stack) >= 2 /\ \E why \in {"divzero", "type", "panic"} : Stop(why, Below(2))
    BY <1>2, DepthType, StopPopped
  <1>3. CASE /\ Len(stack) >= 2 /\ frames' = Stepped /\ UNCHANGED Store
             /\ \E z \in Int64 : PushOn(Below(2), IntV(z))
    BY <1>3, DepthType, ValueIntro, PushPopped
  <1> QED BY <1>1, <1>2, <1>3 DEF Divide, IntDivision

LEMMA StrConcatKept == IInv /\ StrConcat => IInv'
  <1> SUFFICES ASSUME IInv, Running({"STR_CONCAT"}), StrConcat PROVE IInv'
    BY DEF StrConcat
  <1>1. CASE NeedsValues(2)
    BY <1>1, NeedsKept
  <1>2. CASE Len(stack) >= 2 /\ \E why \in {"type", "panic"} : Stop(why, Below(2))
    BY <1>2, DepthType, StopPopped
  <1>3. CASE /\ Len(stack) >= 2 /\ frames' = Stepped /\ UNCHANGED Store
             /\ Are("Str", Nth(2), Nth(1))
             /\ PushOn(Below(2), StrV(Nth(2).v + Nth(1).v))
    <2>1. Nth(1) \in Value /\ Nth(2) \in Value
      BY <1>3, DepthType, OperandTypes
    <2>2. Nth(1).v \in Nat /\ Nth(2).v \in Nat
      BY <1>3, <2>1, ValueElim DEF Are
    <2>3. StrV(Nth(2).v + Nth(1).v) \in Value
      BY <2>2, ValueIntro
    <2> QED BY <1>3, <2>3, DepthType, PushPopped
  <1> QED BY <1>1, <1>2, <1>3 DEF StrConcat

LEMMA AllocKept == IInv /\ Alloc => IInv'
  <1> DEFINE size == AsUsize(Len(heap) + AsUsize(Ins.a))
  <1> SUFFICES ASSUME IInv, Running({"ALLOC"}), Alloc PROVE IInv'
    BY DEF Alloc
  <1>1. stack \in Seq(Value) /\ Len(stack) <= StackLimit /\ heap \in Seq(Byte)
    BY DEF IInv, TypeOK, StackBounded
  <1>2. CASE Stop("panic", stack)
    BY <1>1, <1>2, StopKept DEF Status
  <1>3. CASE /\ heap' = Resize(heap, size, 0)
             /\ PushOn(stack, PtrV(Len(heap))) /\ frames' = Stepped
             /\ UNCHANGED <<module, globals, output>>
    <2>1. size \in Nat /\ 0 \in Byte
      <3>1. Len(heap) + AsUsize(Ins.a) \in Int
        BY <1>1, OperandsOfIns
      <3> QED BY <3>1, AsUsizeType, WordAssumption DEF Byte
    <2> HIDE DEF size
    <2>2. heap' \in Seq(Byte)
      BY <1>1, <1>3, <2>1, ResizeType
    <2>3. PtrV(Len(heap)) \in Value
      BY <1>1, ValueIntro
    <2>4. /\ stack' \in Seq(Value) /\ Len(stack') <= StackLimit
          /\ status' \in Status
      BY <1>1, <1>3, <2>3, FetchType, PushOnKept
    <2> QED BY <1>3, <2>2, <2>4, SteppedKept, StepKept DEF IInv, TypeOK
  <1> QED BY <1>2, <1>3 DEF Alloc

LEMMA LoadPtrKept == IInv /\ LoadPtr => IInv'
  <1> SUFFICES ASSUME IInv, Running({"LOAD_PTR"}), LoadPtr PROVE IInv'
    BY DEF LoadPtr
  <1>1. CASE NeedsValues(2)
    BY <1>1, NeedsKept
  <1>2. CASE Len(stack) >= 2 /\ Stop("type", Below(2))
    BY <1>2, DepthType, StopPopped
  <1>3. CASE /\ Len(stack) >= 2 /\ frames' = Stepped /\ UNCHANGED Store
             /\ PushOn(Below(2), IntV(At(heap, Address(Nth(2).v, Nth(1).v), 0)))
    <2>1. Nth(1) \in Value /\ Nth(2) \in Value
      BY <1>3, DepthType, OperandTypes
    <2>2. Address(Nth(2).v, Nth(1).v) \in Nat
      BY <2>1, ValueElim, AsUsizeType DEF Address
    <2>3. heap \in Seq(Byte) /\ 0 \in Byte /\ Byte \subseteq Int64
      BY WordAssumption DEF IInv, TypeOK, Byte, Int64
    <2>4. At(heap, Address(Nth(2).v, Nth(1).v), 0) \in Int64
      BY <2>2, <2>3, AtType
    <2>5. IntV(At(heap, Address(Nth(2).v, Nth(1).v), 0)) \in Value
      BY <2>4, ValueIntro
    <2> QED BY <1>3, <2>5, DepthType, PushPopped
  <1> QED BY <1>1, <1>2, <1>3 DEF LoadPtr

LEMMA StorePtrKept == IInv /\ StorePtr => IInv'
  <1> DEFINE addr == Address(Nth(3).v, Nth(2).v)
             hits == /\ Nth(3).t = "Ptr" /\ Are("Int", Nth(2), Nth(1))
                     /\ addr < Len(heap)
  <1> SUFFICES ASSUME IInv, Running({"STORE_PTR"}), StorePtr PROVE IInv'
    BY DEF StorePtr
  <1>1. CASE NeedsValues(3)
    BY <1>1, NeedsKept
  <1>2. CASE /\ Len(stack) >= 3 /\ stack' = Below(3) /\ frames' = Stepped
             /\ heap' = IF hits THEN [heap EXCEPT ![addr + 1] = Nth(1).v % ByteSize]
                                ELSE heap
             /\ UNCHANGED <<module, globals, output, status>>
    <2>1. Nth(1) \in Value
      BY <1>2, DepthType, OperandTypes
    <2>2. Nth(1).v % ByteSize \in Byte
      BY <2>1, ValueElim, WordAssumption DEF Byte
    <2> DEFINE b == Nth(1).v % ByteSize
    <2> HIDE DEF b, hits, addr
    <2>3. heap' \in Seq(Byte)
      <3>1. heap \in Seq(Byte) /\ b \in Byte
        BY <2>2 DEF b, IInv, TypeOK
      <3>2. heap' = heap \/ heap' = [heap EXCEPT ![addr + 1] = b]
        BY <1>2 DEF b, hits, addr
      <3> QED BY <3>1, <3>2
    <2>4. /\ stack' \in Seq(Value) /\ Len(stack') <= StackLimit
      BY <1>2, DepthType, OperandTypes
    <2> QED BY <1>2, <2>3, <2>4, SteppedKept, StepKept DEF IInv, TypeOK
  <1> QED BY <1>1, <1>2 DEF StorePtr

LEMMA PrintKept == IInv /\ PrintValue => IInv'
  <1> DEFINE Line == [stream : {"out", "err"}, value : Value]
             line == [stream |-> IF Ins.op = "EPRINT" THEN "err" ELSE "out",
                      value |-> Nth(1)]
  <1> SUFFICES ASSUME IInv, Running(PrintOps), PrintValue PROVE IInv'
    BY DEF PrintValue
  <1>1. CASE NeedsValues(1)
    BY <1>1, NeedsKept
  <1>2. CASE /\ stack # <<>> /\ stack' = Below(1) /\ output' = Append(output, line)
             /\ frames' = Stepped /\ UNCHANGED <<module, heap, globals, status>>
    <2>1. line \in Line
      BY <1>2, DepthType, OperandTypes
    <2>2. output \in Seq(Line)
      BY DEF IInv, TypeOK
    <2> HIDE DEF line
    <2>3. output' \in Seq(Line)
      BY <1>2, <2>1, <2>2
    <2>4. stack' \in Seq(Value) /\ Len(stack') <= StackLimit
      BY <1>2, DepthType, OperandTypes
    <2> QED BY <1>2, <2>3, <2>4, SteppedKept, StepKept DEF IInv, TypeOK
  <1> QED BY <1>1, <1>2 DEF PrintValue

LEMMA QuietKept == IInv /\ Quiet => IInv'
  BY SteppedKept, PlainStepKept DEF Quiet, IInv, TypeOK, StackBounded

LEMMA HaltKept == IInv /\ Halt => IInv'
  BY StopKept DEF Halt, IInv, TypeOK, StackBounded, Status

LEMMA UnimplementedKept == IInv /\ Unimplemented => IInv'
  BY StopKept DEF Unimplemented, IInv, TypeOK, StackBounded, Status, Errors

LEMMA GotoKept == IInv /\ Goto => IInv'
  BY JumpKept, OperandsOfIns, PlainStepKept DEF Goto, IInv, TypeOK, StackBounded

LEMMA BranchKept == IInv /\ Branch => IInv'
  <1> SUFFICES ASSUME IInv, Running(BranchOps), Branch PROVE IInv'
    BY DEF Branch
  <1>1. CASE NeedsValues(1)
    BY <1>1, NeedsKept
  <1>2. CASE /\ stack # <<>> /\ stack' = Below(1) /\ UNCHANGED <<Store, status>>
             /\ frames' \in {Jump(AsUsize(Ins.a)), Stepped}
    BY <1>2, DepthType, OperandTypes, OperandsOfIns, JumpKept, SteppedKept,
       PlainStepKept DEF IInv, TypeOK
  <1> QED BY <1>1, <1>2 DEF Branch

(* What CALL and TAIL_CALL share: the arguments are values of the stack.    *)
LEMMA ArgsType ==
  ASSUME IInv, NEW n \in Nat, n <= Len(stack)
  PROVE  Args(n) \in Seq(Value)
  BY DEF IInv, TypeOK, Args

LEMMA CallKept == IInv /\ Call => IInv'
  <1> DEFINE argc == AsUsize(Ins.b)
  <1> SUFFICES ASSUME IInv, Running({"CALL"}), Call PROVE IInv'
    BY DEF Call
  <1>1. CASE NeedsValues(argc)
    BY <1>1, NeedsKept
  <1>2. CASE Stop("panic", stack)
    BY <1>2, StopKept DEF IInv, TypeOK, StackBounded, Status
  <1>3. CASE /\ argc <= Len(stack)
             /\ CallFn(AsUsize(Ins.a), Args(argc), Stepped, Below(argc))
    BY <1>3, OperandsOfIns, ArgsType, OperandTypes, SteppedKept, CallFnKept
  <1> QED BY <1>1, <1>2, <1>3 DEF Call

LEMMA TailCallKept == IInv /\ TailCall => IInv'
  <1> DEFINE argc == AsUsize(Ins.b)
             rest == Prefix(Below(argc), Top.base)
  <1> SUFFICES ASSUME IInv, Running({"TAIL_CALL"}), TailCall PROVE IInv'
    BY DEF TailCall
  <1>1. CASE NeedsValues(argc)
    BY <1>1, NeedsKept
  <1>2. CASE Stop("panic", stack)
    BY <1>2, StopKept DEF IInv, TypeOK, StackBounded, Status
  <1>3. CASE /\ argc <= Len(stack)
             /\ CallFn(AsUsize(Ins.a), Args(argc), Callers, rest)
    <2>1. Below(argc) \in Seq(Value) /\ Len(Below(argc)) <= StackLimit
      BY <1>3, OperandsOfIns, OperandTypes
    <2>2. Top.base \in Nat /\ frames # <<>>
      BY FetchType DEF Frame, Running
    <2>3. rest \in Seq(Value) /\ Len(rest) <= StackLimit
      BY <2>1, <2>2, PrefixOf, LimitAssumption
    <2> HIDE DEF rest
    <2> QED BY <1>3, <2>2, <2>3, OperandsOfIns, ArgsType, CallersKept, CallFnKept
  <1> QED BY <1>1, <1>2, <1>3 DEF TailCall

LEMMA ReturnKept == IInv /\ Return => IInv'
  <1> DEFINE rest == Prefix(Below(1), Top.base)
  <1> SUFFICES ASSUME IInv, Running({"RETURN"}), Return PROVE IInv'
    BY DEF Return
  <1>1. CASE NeedsValues(1)
    BY <1>1, NeedsKept
  <1>2. CASE /\ stack # <<>> /\ frames' = Callers /\ UNCHANGED Store
             /\ \/ /\ Len(rest) < StackLimit
                   /\ stack' = Append(rest, Nth(1)) /\ status' = Ended
                \/ stack' = rest /\ status' = "overflow"
    <2>1. Below(1) \in Seq(Value) /\ Len(Below(1)) <= StackLimit /\ Nth(1) \in Value
      BY <1>2, DepthType, OperandTypes
    <2>2. Top.base \in Nat /\ frames # <<>>
      BY FetchType DEF Frame, Running
    <2>3. rest \in Seq(Value) /\ Len(rest) <= StackLimit
      BY <2>1, <2>2, PrefixOf, LimitAssumption
    <2> HIDE DEF rest
    <2>4. stack' \in Seq(Value) /\ Len(stack') <= StackLimit
      BY <1>2, <2>1, <2>3, LimitAssumption
    <2>5. status' \in Status /\ (status' = "running" => frames' # <<>>)
      BY <1>2 DEF Ended, Status, Errors
    <2> QED BY <1>2, <2>2, <2>4, <2>5, CallersKept, PlainStepKept
  <1> QED BY <1>1, <1>2 DEF Return

LEMMA ReturnVoidKept == IInv /\ ReturnVoid => IInv'
  <1> SUFFICES ASSUME IInv, Running({"RETURN_VOID"}), ReturnVoid PROVE IInv'
    BY DEF ReturnVoid
  <1>1. Top.base \in Nat /\ frames # <<>>
    BY FetchType DEF Frame, Running
  <1>2. stack \in Seq(Value) /\ Len(stack) <= StackLimit
    BY DEF IInv, TypeOK, StackBounded
  <1>3. stack' \in Seq(Value) /\ Len(stack') <= StackLimit
    BY <1>1, <1>2, PrefixOf, LimitAssumption DEF ReturnVoid
  <1>4. status' \in Status /\ (status' = "running" => frames' # <<>>)
    BY DEF ReturnVoid, Ended, Status
  <1> QED BY <1>1, <1>3, <1>4, CallersKept, PlainStepKept DEF ReturnVoid

LEMMA FallOffKept == IInv /\ FallOff => IInv'
  <1> SUFFICES ASSUME IInv, FallOff PROVE IInv'
    OBVIOUS
  <1>1. frames # <<>> /\ stack' \in Seq(Value) /\ Len(stack') <= StackLimit
    BY DEF FallOff, IInv, TypeOK, StackBounded
  <1>2. status' \in Status /\ (status' = "running" => frames' # <<>>)
    BY DEF FallOff, Ended, Status
  <1> QED BY <1>1, <1>2, CallersKept, PlainStepKept DEF FallOff

LEMMA NextKept == IInv /\ [Next]_vars => IInv'
  <1> SUFFICES ASSUME IInv, [Next]_vars PROVE IInv'
    OBVIOUS
  <1>1. CASE UNCHANGED vars
    BY <1>1 DEF vars, IInv, TypeOK, StackBounded, RunningHasFrame, TraceIndexesFunctions
  <1>2. CASE Next
    BY <1>2, StartKept, PushKept, PopKept, DupKept, SwapKept, LoadLocalKept,
       StoreLocalKept, LoadGlobalKept, StoreGlobalKept, UnaryKept, BinaryKept,
       DivideKept, StrConcatKept, AllocKept, LoadPtrKept, StorePtrKept, PrintKept,
       QuietKept, HaltKept, UnimplementedKept, GotoKept, BranchKept, CallKept,
       TailCallKept, ReturnKept, ReturnVoidKept, FallOffKept DEF Next
  <1> QED BY <1>1, <1>2

LEMMA Invariance == Spec => []IInv
  BY InitKept, NextKept, PTL DEF Spec

-----------------------------------------------------------------------------
(* The machine stays well typed on every bytecode, whatever the word size   *)
(* and the limits (execute(), call_fn()).                                   *)
THEOREM TypeCorrect == Spec => []TypeOK
  BY Invariance, PTL DEF IInv

(* The value stack never exceeds --stack-limit (push()).                    *)
THEOREM StackNeverExceedsLimit == Spec => []StackBounded
  BY Invariance, PTL DEF IInv

(* execute() never meets a running machine without a frame.                 *)
THEOREM NoFrameUnreachable == Spec => []RunningHasFrame
  BY Invariance, PTL DEF IInv

(* print_stack_trace() never indexes outside the function table.            *)
THEOREM TraceSafe == Spec => []TraceIndexesFunctions
  BY Invariance, PTL DEF IInv

-----------------------------------------------------------------------------
(* The frames, the depth and the overflow of one step.                      *)

FramesBelowStay ==
    frames # <<>> =>
        /\ Len(frames') >= Len(frames) - 1
        /\ \A i \in 1 .. Len(frames) - 1 : frames'[i] = frames[i]

DepthByRegistry ==
    (Running(OpCode \ TransferOps) /\ status' = "running")
        => Len(stack') = Len(stack) + StackEffect(Ins.op)

OverflowsOnPush ==
    status' = "overflow" => Running(Pushing) /\ stack' = stack

StepOK ==
    /\ status' # "loaded"
    /\ FramesBelowStay /\ DepthByRegistry /\ OverflowsOnPush

LEMMA TopWritten ==
  ASSUME IInv, NEW ops, Running(ops), NEW f \in Frame, f.fn = Top.fn, frames' = WithTop(f)
  PROVE  FramesBelowStay
  <1>1. frames \in Seq(Frame) /\ Len(frames) \in Nat \ {0}
    BY FetchType DEF IInv, TypeOK
  <1>2. frames' = [frames EXCEPT ![Len(frames)] = f]
    BY DEF WithTop
  <1>3. /\ Len(frames') = Len(frames)
        /\ \A i \in 1 .. Len(frames) - 1 : frames'[i] = frames[i]
    BY <1>1, <1>2
  <1> QED BY <1>1, <1>3 DEF FramesBelowStay

LEMMA Jumped ==
  ASSUME IInv, NEW ops, Running(ops), NEW ip \in Nat, frames' = Jump(ip)
  PROVE  FramesBelowStay
  <1>1. Top \in Frame
    BY FetchType
  <1> DEFINE f == [Top EXCEPT !.ip = ip]
  <1>2. f \in Frame /\ f.fn = Top.fn /\ frames' = WithTop(f)
    BY <1>1 DEF Frame, Jump
  <1> HIDE DEF f
  <1> QED BY <1>2, TopWritten

LEMMA SteppedOn ==
  ASSUME IInv, NEW ops, Running(ops), frames' = Stepped
  PROVE  FramesBelowStay
  <1>1. Top.ip + 1 \in Nat
    BY FetchType DEF Frame
  <1> QED BY <1>1, Jumped DEF Stepped

LEMMA Stopped ==
  ASSUME IInv, NEW ops, Running(ops), NEW rest,
         NEW why \in Status \ {"loaded", "running", "overflow"}, Stop(why, rest)
  PROVE  StepOK
  BY SteppedOn DEF Stop, StepOK, DepthByRegistry, OverflowsOnPush

LEMMA Short ==
  ASSUME IInv, NEW ops, Running(ops), NEW n, NeedsValues(n)
  PROVE  StepOK
  <1>1. "underflow" \in Status \ {"loaded", "running", "overflow"}
    BY DEF Status, Errors
  <1> QED BY <1>1, Stopped DEF NeedsValues

(* A handler that goes on with n values less than before.                   *)
LEMMA Went ==
  ASSUME IInv, NEW ops, Running(ops), status' = status, FramesBelowStay,
         Len(stack') = Len(stack) + StackEffect(Ins.op)
  PROVE  StepOK
  BY DEF Running, StepOK, DepthByRegistry, OverflowsOnPush

(* A handler that pops before it pushes has room for its result.            *)
LEMMA PushedBack ==
  ASSUME IInv, NEW ops, Running(ops), NEW n \in Nat \ {0}, n <= Len(stack), NEW v,
         PushOn(Below(n), v), frames' = Stepped, StackEffect(Ins.op) = 1 - n
  PROVE  StepOK
  <1>1. /\ Below(n) \in Seq(Value) /\ Len(Below(n)) = Len(stack) - n
        /\ Len(stack) \in Nat /\ Len(stack) <= StackLimit
    BY OperandTypes DEF IInv, TypeOK, StackBounded
  <1>2. Len(Below(n)) < StackLimit
    BY <1>1, LimitAssumption
  <1>3. stack' = Append(Below(n), v) /\ status' = status
    BY <1>2 DEF PushOn
  <1>4. Len(stack') = Len(stack) - n + 1
    BY <1>1, <1>3
  <1>5. Len(stack') = Len(stack) + StackEffect(Ins.op)
    BY <1>1, <1>4
  <1> QED BY <1>3, <1>5, SteppedOn, Went

(* One that only pushes may find the stack full, and then leaves it alone.  *)
LEMMA PushedOn ==
  ASSUME IInv, NEW ops, Running(ops), ops \subseteq Pushing, NEW v,
         PushOn(stack, v), frames' = Stepped
  PROVE  StepOK
  <1>1. stack \in Seq(Value) /\ Len(stack) \in Nat /\ Ins.op \in Pushing
    BY DEF IInv, TypeOK, Running
  <1>2. StackEffect(Ins.op) = 1
    BY <1>1 DEF StackEffect
  <1>3. CASE stack' = Append(stack, v) /\ status' = status
    <2>1. Len(stack') = Len(stack) + StackEffect(Ins.op)
      BY <1>1, <1>2, <1>3
    <2> QED BY <1>3, <2>1, SteppedOn, Went
  <1>4. CASE stack' = stack /\ status' = "overflow"
    <2>1. Running(Pushing)
      BY <1>1 DEF Running
    <2> QED BY <1>4, <2>1, SteppedOn DEF StepOK, DepthByRegistry, OverflowsOnPush
  <1> QED BY <1>3, <1>4 DEF PushOn

-----------------------------------------------------------------------------
(* What opcode_table.c declares, group by group.                            *)
LEMMA Declared ==
  /\ \A op \in {"POP", "FREE", "STORE_LOCAL", "STORE_GLOBAL"} : StackEffect(op) = -1
  /\ \A op \in BinaryOps \cup DivOps \cup {"STR_CONCAT", "LOAD_PTR"} : StackEffect(op) = -1
  /\ \A op \in PrintOps \cup BranchOps : StackEffect(op) = -1
  /\ \A op \in UnaryOps \cup QuietOps \cup {"SWAP", "JMP"} : StackEffect(op) = 0
  /\ StackEffect("STORE_PTR") = -3
  BY DEF StackEffect, Pushing, Popping, PushOps, BinaryOps, IntBinOps, FltBinOps, IntCmpOps,
         LogicOps, DivOps, UnaryOps, QuietOps, PrintOps, BranchOps

(* A handler that takes n values and goes on.                               *)
LEMMA Popped ==
  ASSUME IInv, NEW ops, Running(ops), NEW n \in Nat, n <= Len(stack),
         stack' = Below(n), status' = status, FramesBelowStay,
         StackEffect(Ins.op) = -n
  PROVE  StepOK
  <1>1. Len(stack') = Len(stack) - n /\ Len(stack) \in Nat
    BY OperandTypes DEF IInv, TypeOK
  <1>2. Len(stack') = Len(stack) + StackEffect(Ins.op)
    BY <1>1
  <1> QED BY <1>2, Went

LEMMA PushOK == IInv /\ Push => StepOK
  BY PushedOn DEF Push, Pushing

LEMMA PopOK == IInv /\ Pop => StepOK
  <1> SUFFICES ASSUME IInv, Running({"POP", "FREE"}), Pop PROVE StepOK
    BY DEF Pop
  <1>1. StackEffect(Ins.op) = -1
    BY Declared DEF Running
  <1>2. stack # <<>> => 1 <= Len(stack)
    BY DepthType
  <1> QED BY <1>1, <1>2, Short, Popped, SteppedOn DEF Pop

LEMMA DupOK == IInv /\ Dup => StepOK
  BY Short, PushedOn DEF Dup, Pushing

LEMMA SwapOK == IInv /\ Swap => StepOK
  <1> SUFFICES ASSUME IInv, Running({"SWAP"}), Swap PROVE StepOK
    BY DEF Swap
  <1>1. CASE NeedsValues(2)
    BY <1>1, Short
  <1>2. CASE /\ Len(stack) >= 2 /\ stack' = Below(2) \o <<Nth(1), Nth(2)>>
             /\ frames' = Stepped /\ UNCHANGED status
    <2>1. /\ Below(2) \in Seq(Value) /\ Len(Below(2)) = Len(stack) - 2
          /\ Nth(1) \in Value /\ Nth(2) \in Value
      BY <1>2, OperandTypes
    <2>2. Len(stack') = Len(stack) /\ Len(stack) \in Nat
      BY <1>2, <2>1 DEF IInv, TypeOK
    <2>3. Len(stack') = Len(stack) + StackEffect(Ins.op)
      BY <2>2, Declared DEF Running
    <2> QED BY <1>2, <2>3, Went, SteppedOn
  <1> QED BY <1>1, <1>2 DEF Swap

LEMMA LoadLocalOK == IInv /\ LoadLocal => StepOK
  BY PushedOn DEF LoadLocal, Pushing

LEMMA StoreLocalOK == IInv /\ StoreLocal => StepOK
  <1> DEFINE slot == AsUsize(Ins.a)
             size == IF slot >= Len(Top.locals) THEN slot + 1 ELSE Len(Top.locals)
             grown == [Resize(Top.locals, size, Null) EXCEPT ![slot + 1] = Nth(1)]
             new == [Top EXCEPT !.ip = Top.ip + 1, !.locals = grown]
  <1> SUFFICES ASSUME IInv, Running({"STORE_LOCAL"}), StoreLocal PROVE StepOK
    BY DEF StoreLocal
  <1>1. CASE NeedsValues(1)
    BY <1>1, Short
  <1>2. CASE Stop("panic", Below(1))
    BY <1>2, Stopped DEF Status
  <1>3. CASE stack # <<>> /\ stack' = Below(1) /\ frames' = WithTop(new)
               /\ UNCHANGED <<Store, status>>
    <2>1. 1 <= Len(stack) /\ frames # <<>>
      BY <1>3 DEF IInv, TypeOK, Running
    <2>2. slot \in Nat /\ Top \in Frame
      BY FetchType, OperandsOfIns
    <2>3. size \in Nat /\ slot + 1 \in 1 .. size
      BY <2>2 DEF Frame
    <2> HIDE DEF size, slot
    <2>4. grown \in Seq(Value)
      <3>1. Resize(Top.locals, size, Null) \in Seq(Value)
            /\ Len(Resize(Top.locals, size, Null)) = size
        <4>1. Top.locals \in Seq(Value) /\ Null \in Value
          BY <2>2, ValueIntro DEF Frame
        <4>2. size \in Nat
          BY <2>3
        <4> QED BY <4>1, <4>2, ResizeType
      <3>2. Nth(1) \in Value
        BY <2>1, OperandTypes
      <3> QED BY <2>3, <3>1, <3>2
    <2> HIDE DEF grown
    <2>5. new \in Frame /\ new.fn = Top.fn
      <3>1. Top.ip + 1 \in Nat
        BY <2>2 DEF Frame
      <3> QED BY <2>2, <2>4, <3>1 DEF Frame
    <2> HIDE DEF new
    <2>6. StackEffect(Ins.op) = -1
      BY Declared DEF Running
    <2> QED BY <1>3, <2>1, <2>5, <2>6, TopWritten, Popped
  <1> QED BY <1>1, <1>2, <1>3 DEF StoreLocal

LEMMA LoadGlobalOK == IInv /\ LoadGlobal => StepOK
  BY PushedOn DEF LoadGlobal, Pushing

LEMMA StoreGlobalOK == IInv /\ StoreGlobal => StepOK
  <1> SUFFICES ASSUME IInv, Running({"STORE_GLOBAL"}), StoreGlobal PROVE StepOK
    BY DEF StoreGlobal
  <1>1. StackEffect(Ins.op) = -1
    BY Declared DEF Running
  <1>2. stack # <<>> => 1 <= Len(stack)
    BY DepthType
  <1> QED BY <1>1, <1>2, Short, Popped, SteppedOn DEF StoreGlobal

LEMMA UnaryOK == IInv /\ Unary => StepOK
  <1> SUFFICES ASSUME IInv, Running(UnaryOps), Unary PROVE StepOK
    BY DEF Unary
  <1>1. CASE NeedsValues(1)
    BY <1>1, Short
  <1>2. CASE Stop("type", Below(1))
    BY <1>2, Stopped DEF Status, Errors
  <1>3. CASE stack # <<>> /\ frames' = Stepped
             /\ \E v \in UnaryResults(Ins.op, Nth(1)) : PushOn(Below(1), v)
    <2>1. 1 <= Len(stack) /\ StackEffect(Ins.op) = 1 - 1
      BY <1>3, DepthType, Declared DEF Running
    <2> QED BY <1>3, <2>1, PushedBack
  <1> QED BY <1>1, <1>2, <1>3 DEF Unary

(* What the handlers of two operands share.                                 *)
LEMMA TwoTaken ==
  ASSUME IInv, NEW ops, Running(ops),
         ops \subseteq BinaryOps \cup DivOps \cup {"STR_CONCAT", "LOAD_PTR"},
         \/ NeedsValues(2)
         \/ \E why \in {"type", "divzero", "panic"} : Stop(why, Below(2))
         \/ Len(stack) >= 2 /\ frames' = Stepped /\ \E v : PushOn(Below(2), v)
  PROVE  StepOK
  <1>1. CASE NeedsValues(2)
    BY <1>1, Short
  <1>2. CASE \E why \in {"type", "divzero", "panic"} : Stop(why, Below(2))
    BY <1>2, Stopped DEF Status, Errors
  <1>3. CASE Len(stack) >= 2 /\ frames' = Stepped /\ \E v : PushOn(Below(2), v)
    <2>1. 2 <= Len(stack) /\ StackEffect(Ins.op) = 1 - 2
      BY <1>3, DepthType, Declared DEF Running
    <2> QED BY <1>3, <2>1, PushedBack
  <1> QED BY <1>1, <1>2, <1>3

LEMMA BinaryOK == IInv /\ Binary => StepOK
  BY TwoTaken DEF Binary

LEMMA DivideOK == IInv /\ Divide => StepOK
  BY TwoTaken DEF Divide

LEMMA StrConcatOK == IInv /\ StrConcat => StepOK
  BY TwoTaken DEF StrConcat

LEMMA LoadPtrOK == IInv /\ LoadPtr => StepOK
  BY TwoTaken DEF LoadPtr

LEMMA AllocOK == IInv /\ Alloc => StepOK
  <1> SUFFICES ASSUME IInv, Running({"ALLOC"}), Alloc PROVE StepOK
    BY DEF Alloc
  <1>1. \/ Stop("panic", stack)
        \/ PushOn(stack, PtrV(Len(heap))) /\ frames' = Stepped
    BY DEF Alloc
  <1> QED BY <1>1, Stopped, PushedOn DEF Pushing, Status

LEMMA StorePtrOK == IInv /\ StorePtr => StepOK
  <1> SUFFICES ASSUME IInv, Running({"STORE_PTR"}), StorePtr PROVE StepOK
    BY DEF StorePtr
  <1>1. \/ NeedsValues(3)
        \/ Len(stack) >= 3 /\ stack' = Below(3) /\ frames' = Stepped /\ status' = status
    BY DEF StorePtr
  <1>2. StackEffect(Ins.op) = -3
    BY Declared DEF Running
  <1>3. Len(stack) >= 3 => 3 <= Len(stack)
    BY DepthType
  <1> QED BY <1>1, <1>2, <1>3, Short, Popped, SteppedOn

LEMMA PrintOK == IInv /\ PrintValue => StepOK
  <1> SUFFICES ASSUME IInv, Running(PrintOps), PrintValue PROVE StepOK
    BY DEF PrintValue
  <1>1. StackEffect(Ins.op) = -1 /\ (stack # <<>> => 1 <= Len(stack))
    BY Declared, DepthType DEF Running
  <1> QED BY <1>1, Short, Popped, SteppedOn DEF PrintValue

LEMMA QuietOK == IInv /\ Quiet => StepOK
  <1> SUFFICES ASSUME IInv, Running(QuietOps), Quiet PROVE StepOK
    BY DEF Quiet
  <1>1. Len(stack) \in Nat /\ StackEffect(Ins.op) = 0
    BY DepthType, Declared DEF Running
  <1>2. Len(stack') = Len(stack) + StackEffect(Ins.op)
    BY <1>1 DEF Quiet
  <1> QED BY <1>2, Went, SteppedOn DEF Quiet

LEMMA HaltOK == IInv /\ Halt => StepOK
  BY Stopped DEF Halt, Status

LEMMA UnimplementedStep == IInv /\ Unimplemented => StepOK
  BY Stopped DEF Unimplemented, Status, Errors

LEMMA GotoOK == IInv /\ Goto => StepOK
  <1> SUFFICES ASSUME IInv, Running({"JMP"}), Goto PROVE StepOK
    BY DEF Goto
  <1>1. Len(stack) \in Nat /\ StackEffect(Ins.op) = 0 /\ AsUsize(Ins.a) \in Nat
    BY DepthType, Declared, OperandsOfIns DEF Running
  <1>2. Len(stack') = Len(stack) + StackEffect(Ins.op)
    BY <1>1 DEF Goto
  <1> QED BY <1>1, <1>2, Went, Jumped DEF Goto

LEMMA BranchOK == IInv /\ Branch => StepOK
  <1> SUFFICES ASSUME IInv, Running(BranchOps), Branch PROVE StepOK
    BY DEF Branch
  <1>1. /\ StackEffect(Ins.op) = -1 /\ (stack # <<>> => 1 <= Len(stack))
        /\ AsUsize(Ins.a) \in Nat
    BY Declared, DepthType, OperandsOfIns DEF Running
  <1>2. CASE NeedsValues(1)
    BY <1>2, Short
  <1>3. CASE /\ stack # <<>> /\ stack' = Below(1) /\ UNCHANGED status
             /\ (frames' = Jump(AsUsize(Ins.a)) \/ frames' = Stepped)
    <2>1. FramesBelowStay
      BY <1>1, <1>3, Jumped, SteppedOn
    <2> QED BY <1>1, <1>3, <2>1, Popped
  <1> QED BY <1>2, <1>3 DEF Branch

-----------------------------------------------------------------------------
(* Calls and returns: the registry's effect does not bind them.             *)

LEMMA Transfer ==
  ASSUME IInv, Running(TransferOps), status' \notin {"loaded", "overflow"}, FramesBelowStay
  PROVE  StepOK
  BY DEF Running, StepOK, DepthByRegistry, OverflowsOnPush

LEMMA CallersStay ==
  ASSUME IInv, frames # <<>>, frames' = Callers
  PROVE  FramesBelowStay
  <1>1. frames \in Seq(Frame) /\ Len(frames) - 1 \in Nat
    BY DEF IInv, TypeOK
  <1> DEFINE n == Len(frames) - 1
  <1>2. n \in Int /\ n >= 0 /\ n <= Len(frames) /\ Callers = SubSeq(frames, 1, n)
    BY <1>1 DEF Callers
  <1> HIDE DEF n
  <1>3. /\ Len(SubSeq(frames, 1, n)) = n
        /\ \A i \in 1 .. n : SubSeq(frames, 1, n)[i] = frames[i]
    BY <1>1, <1>2, FirstOf
  <1> QED BY <1>1, <1>2, <1>3 DEF FramesBelowStay, n

(* One frame more on frames that left the callers alone.                    *)
LEMMA OneMore ==
  ASSUME IInv, frames # <<>>, NEW under \in Seq(Frame), Len(under) >= Len(frames) - 1,
         \A i \in 1 .. Len(frames) - 1 : under[i] = frames[i],
         NEW f, frames' = under \/ frames' = Append(under, f)
  PROVE  FramesBelowStay
  <1>1. frames \in Seq(Frame) /\ Len(frames) - 1 \in Nat /\ Len(under) \in Nat
    BY DEF IInv, TypeOK
  <1>2. /\ Len(frames') >= Len(under)
        /\ \A i \in 1 .. Len(under) : frames'[i] = under[i]
    BY <1>1
  <1> QED BY <1>1, <1>2 DEF FramesBelowStay

LEMMA CallOK == IInv /\ Call => StepOK
  <1> DEFINE argc == AsUsize(Ins.b)
  <1> SUFFICES ASSUME IInv, Running({"CALL"}), Call PROVE StepOK
    BY DEF Call
  <1>1. CASE NeedsValues(argc)
    BY <1>1, Short
  <1>2. CASE Stop("panic", stack)
    BY <1>2, Stopped DEF Status
  <1>3. CASE CallFn(AsUsize(Ins.a), Args(argc), Stepped, Below(argc))
    <2>1. frames # <<>> /\ frames \in Seq(Frame) /\ Len(frames) \in Nat \ {0}
      BY FetchType DEF Running, IInv, TypeOK
    <2>2. /\ Stepped \in Seq(Frame) /\ Len(Stepped) = Len(frames)
          /\ \A i \in 1 .. Len(frames) - 1 : Stepped[i] = frames[i]
      <3>1. Stepped = [frames EXCEPT ![Len(frames)] = [Top EXCEPT !.ip = Top.ip + 1]]
        BY DEF Stepped, Jump, WithTop
      <3>2. Stepped \in Seq(Frame)
        BY SteppedKept
      <3> QED BY <2>1, <3>1, <3>2
    <2>3. FramesBelowStay
      BY <1>3, <2>1, <2>2, OneMore DEF CallFn
    <2>4. Running(TransferOps)
      BY DEF Running, TransferOps
    <2> QED BY <1>3, <2>3, <2>4, Transfer DEF CallFn
  <1> QED BY <1>1, <1>2, <1>3 DEF Call

LEMMA TailCallOK == IInv /\ TailCall => StepOK
  <1> DEFINE argc == AsUsize(Ins.b)
             rest == Prefix(Below(argc), Top.base)
  <1> SUFFICES ASSUME IInv, Running({"TAIL_CALL"}), TailCall PROVE StepOK
    BY DEF TailCall
  <1>1. CASE NeedsValues(argc)
    BY <1>1, Short
  <1>2. CASE Stop("panic", stack)
    BY <1>2, Stopped DEF Status
  <1>3. CASE CallFn(AsUsize(Ins.a), Args(argc), Callers, rest)
    <2>1. frames # <<>> /\ frames \in Seq(Frame) /\ Len(frames) \in Nat \ {0}
      BY FetchType DEF Running, IInv, TypeOK
    <2>2. /\ Callers \in Seq(Frame) /\ Len(Callers) = Len(frames) - 1
          /\ \A i \in 1 .. Len(frames) - 1 : Callers[i] = frames[i]
      <3> DEFINE n == Len(frames) - 1
      <3>1. n \in Int /\ n >= 0 /\ n <= Len(frames) /\ Callers = SubSeq(frames, 1, n)
        BY <2>1 DEF Callers
      <3> HIDE DEF n
      <3>2. /\ Callers \in Seq(Frame) /\ Len(Callers) = n
            /\ \A i \in 1 .. n : Callers[i] = frames[i]
        BY <2>1, <3>1, FirstOf
      <3> QED BY <3>2 DEF n
    <2>3. FramesBelowStay
      BY <1>3, <2>1, <2>2, OneMore DEF CallFn
    <2>4. Running(TransferOps)
      BY DEF Running, TransferOps
    <2> QED BY <1>3, <2>3, <2>4, Transfer DEF CallFn
  <1> QED BY <1>1, <1>2, <1>3 DEF TailCall

(* RETURN pops its value before it pushes it for the caller.                *)
LEMMA ReturnOK == IInv /\ Return => StepOK
  <1> DEFINE rest == Prefix(Below(1), Top.base)
  <1> SUFFICES ASSUME IInv, Running({"RETURN"}), Return PROVE StepOK
    BY DEF Return
  <1>1. CASE NeedsValues(1)
    BY <1>1, Short
  <1>2. CASE /\ stack # <<>> /\ frames' = Callers
             /\ \/ Len(rest) < StackLimit /\ status' = Ended
                \/ ~(Len(rest) < StackLimit)
    <2>1. Len(stack) \in Nat /\ 1 <= Len(stack) /\ Len(stack) <= StackLimit
      BY <1>2, DepthType DEF IInv, StackBounded
    <2>2. Below(1) \in Seq(Value) /\ Len(Below(1)) = Len(stack) - 1
      BY <2>1, OperandTypes
    <2>3. Top.base \in Nat /\ frames # <<>>
      BY FetchType DEF Frame, Running
    <2>4. rest \in Seq(Value) /\ Len(rest) <= Len(Below(1))
      BY <2>2, <2>3, PrefixOf
    <2> HIDE DEF rest
    <2>5. Len(rest) < StackLimit
      BY <2>1, <2>2, <2>4, LimitAssumption
    <2>6. status' \in {"ok", "running"}
      BY <1>2, <2>5 DEF Ended
    <2>7. Running(TransferOps)
      BY DEF Running, TransferOps
    <2> QED BY <1>2, <2>3, <2>6, <2>7, CallersStay, Transfer
  <1> QED BY <1>1, <1>2 DEF Return

LEMMA ReturnVoidOK == IInv /\ ReturnVoid => StepOK
  <1> SUFFICES ASSUME IInv, Running({"RETURN_VOID"}), ReturnVoid PROVE StepOK
    BY DEF ReturnVoid
  <1>1. Running(TransferOps) /\ frames # <<>>
    BY DEF Running, TransferOps
  <1> QED BY <1>1, CallersStay, Transfer DEF ReturnVoid, Ended

LEMMA FallOffOK == IInv /\ FallOff => StepOK
  <1> SUFFICES ASSUME IInv, FallOff PROVE StepOK
    OBVIOUS
  <1>1. Len(Code(Top)) \in Nat /\ Top.ip \in Nat
    <2>1. frames \in Seq(Frame) /\ Len(frames) \in Nat \ {0} /\ module.functions \in Seq(Function)
      BY DEF FallOff, IInv, TypeOK, Module
    <2>2. Top \in Frame /\ Top.fn < Len(module.functions)
      BY <2>1 DEF Top, IInv, TraceIndexesFunctions
    <2>3. module.functions[Top.fn + 1] \in Function
      <3>1. Top.fn + 1 \in 1 .. Len(module.functions)
        BY <2>1, <2>2 DEF Frame
      <3> QED BY <2>1, <3>1
    <2> QED BY <2>2, <2>3 DEF Code, Function, Frame
  <1>2. ~Running(OpCode \ TransferOps)
    BY <1>1 DEF FallOff, Running
  <1> QED BY <1>2, CallersStay DEF FallOff, Ended, StepOK, DepthByRegistry, OverflowsOnPush

LEMMA StartStep == IInv /\ NothingEntered /\ Start => StepOK
  BY DEF Start, CallFn, NothingEntered, Running, StepOK, FramesBelowStay, DepthByRegistry,
         OverflowsOnPush

LEMMA NextStep == IInv /\ NothingEntered /\ Next => StepOK
  BY StartStep, PushOK, PopOK, DupOK, SwapOK, LoadLocalOK, StoreLocalOK,
     LoadGlobalOK, StoreGlobalOK, UnaryOK, BinaryOK, DivideOK, StrConcatOK,
     AllocOK, LoadPtrOK, StorePtrOK, PrintOK, QuietOK, HaltOK,
     UnimplementedStep, GotoOK, BranchOK, CallOK, TailCallOK, ReturnOK,
     ReturnVoidOK, FallOffOK DEF Next

LEMMA NothingEnteredKept == IInv /\ NothingEntered /\ [Next]_vars => NothingEntered'
  BY NextStep DEF StepOK, NothingEntered, vars

LEMMA StepInvariance == Spec => [](IInv /\ NothingEntered)
  <1>1. Init => NothingEntered
    BY DEF Init, Fresh, NothingEntered
  <1> QED BY <1>1, InitKept, NextKept, NothingEnteredKept, PTL DEF Spec

(* Whatever the bytecode, no instruction of vm.rs writes a frame under the  *)
(* running one, and none drops more than the running one.                   *)
THEOREM CallersStayUntouched == Spec => CallersUntouched
  <1>1. IInv /\ NothingEntered /\ [Next]_vars =>
          [frames # <<>> =>
             /\ Len(frames') >= Len(frames) - 1
             /\ \A i \in 1 .. Len(frames) - 1 : frames'[i] = frames[i]]_vars
    BY NextStep DEF StepOK, FramesBelowStay
  <1> QED BY <1>1, StepInvariance, PTL DEF Spec, CallersUntouched

(* Whatever the bytecode, every handler of vm.rs that goes on changes the   *)
(* depth of the value stack by what opcode_table.c declares for its opcode. *)
THEOREM HandlersFollowRegistry == Spec => FollowsRegistry
  <1>1. IInv /\ NothingEntered /\ [Next]_vars =>
          [(/\ Running(OpCode \ TransferOps)
            /\ status' = "running")
             => Len(stack') = Len(stack) + StackEffect(Ins.op)]_vars
    BY NextStep DEF StepOK, DepthByRegistry
  <1> QED BY <1>1, StepInvariance, PTL DEF Spec, FollowsRegistry

(* Whatever the bytecode and the limit, "stack overflow" strikes only       *)
(* opcodes declared as pushing, and finds their operands still in place:    *)
(* what pops first has made its own room.                                   *)
THEOREM OverflowLosesNothing == Spec => OverflowOnlyWhenPushing
  <1>1. IInv /\ NothingEntered /\ [Next]_vars =>
          [status' = "overflow" => Running(Pushing) /\ stack' = stack]_vars
    BY NextStep DEF StepOK, OverflowsOnPush
  <1> QED BY <1>1, StepInvariance, PTL DEF Spec, OverflowOnlyWhenPushing

-----------------------------------------------------------------------------
(* Heap addresses.  The invariant is about every place that a value can be  *)
(* kept in, and about the heap's length: an ALLOC can shrink the heap only  *)
(* when the sum of lengths wraps, which it cannot while the heap fits into  *)
(* memory and sizes are not negative.                                       *)

Safe == {x \in Value : InHeap(x)}

Sound ==
    /\ Len(heap) <= MemLimit
    /\ stack \in Seq(Safe)
    /\ \A i \in DOMAIN frames : frames[i].locals \in Seq(Safe)
    /\ \A g \in DOMAIN globals : globals[g] \in Safe

HeapInv == SaneAllocs => Sound

LEMMA SafeIntro ==
  /\ \A x \in Value : x.t # "Ptr" => x \in Safe
  /\ Null \in Safe
  BY ValueIntro DEF Safe, InHeap, Null

LEMMA UnarySafe ==
  ASSUME NEW x \in Value, NEW op \in UnaryOps
  PROVE  UnaryResults(op, x) \subseteq Safe
  <1>1. UnaryResults(op, x) \subseteq Value
    BY UnaryType
  <1>2. \A v \in UnaryResults(op, x) : v.t # "Ptr"
    <2>1. CASE op = "NOT"
      BY <2>1 DEF UnaryResults, BoolV
    <2>2. CASE op \in {"INEG", "BNOT"}
      BY <2>2 DEF UnaryResults, IntV
    <2>3. CASE op \in {"FNEG", "I2F"}
      BY <2>3 DEF UnaryResults, FloatV
    <2>4. CASE op = "F2I"
      BY <2>4 DEF UnaryResults, IntV
    <2>5. CASE op \in {"I2B", "B2I", "STR_LEN"}
      BY <2>5 DEF UnaryResults, IntV, BoolV
    <2> QED BY <2>1, <2>2, <2>3, <2>4, <2>5 DEF UnaryOps
  <1> QED BY <1>1, <1>2, SafeIntro

LEMMA BinarySafe ==
  ASSUME NEW x \in Value, NEW y \in Value, NEW op
  PROVE  BinaryResults(op, x, y) \subseteq Safe
  <1>1. BinaryResults(op, x, y) \subseteq Value
    BY BinaryType
  <1>2. \A v \in BinaryResults(op, x, y) : v.t # "Ptr"
    BY DEF BinaryResults, IntV, BoolV, FloatV
  <1> QED BY <1>1, <1>2, SafeIntro

(* While the heap keeps its length, what was safe is.                       *)
LEMMA SoundKept ==
  ASSUME Sound, Len(heap') = Len(heap), stack' \in Seq(Safe),
         \A i \in DOMAIN frames' : frames'[i].locals \in Seq(Safe),
         \A g \in DOMAIN globals' : globals'[g] \in Safe
  PROVE  Sound'
  <1>1. Safe' = Safe
    BY DEF Safe, InHeap
  <1> QED BY <1>1 DEF Sound

LEMMA OperandsSafe ==
  ASSUME IInv, Sound, NEW n \in Nat, n <= Len(stack)
  PROVE  /\ Below(n) \in Seq(Safe)
         /\ n > 0 => Nth(n) \in Safe
  <1> DEFINE k == Len(stack) - n
  <1>1. stack \in Seq(Safe) /\ Len(stack) \in Nat
    BY DEF Sound
  <1>2. k \in Int /\ k <= Len(stack) /\ Below(n) = SubSeq(stack, 1, k)
    BY <1>1 DEF Below
  <1> HIDE DEF k
  <1>3. Below(n) \in Seq(Safe)
    BY <1>1, <1>2, FirstOf
  <1>4. n > 0 => Nth(n) \in Safe
    BY <1>1 DEF Nth
  <1> QED BY <1>3, <1>4

(* Locals of the frames after a step.                                       *)
LEMMA TopSafe ==
  ASSUME IInv, Sound, frames # <<>>, NEW f \in Frame, f.locals \in Seq(Safe)
  PROVE  \A i \in DOMAIN WithTop(f) : WithTop(f)[i].locals \in Seq(Safe)
  <1>1. frames \in Seq(Frame)
    BY DEF IInv, TypeOK
  <1>2. \A i \in DOMAIN frames : frames[i].locals \in Seq(Safe)
    BY DEF Sound
  <1>3. DOMAIN WithTop(f) = DOMAIN frames
        /\ \A i \in DOMAIN frames : WithTop(f)[i] = IF i = Len(frames) THEN f ELSE frames[i]
    BY <1>1 DEF WithTop
  <1> QED BY <1>2, <1>3

LEMMA JumpSafe ==
  ASSUME IInv, Sound, NEW ops, Running(ops), NEW ip \in Nat
  PROVE  \A i \in DOMAIN Jump(ip) : Jump(ip)[i].locals \in Seq(Safe)
  <1>1. Top \in Frame /\ frames # <<>> /\ Len(frames) \in DOMAIN frames
    BY FetchType DEF Running, IInv, TypeOK
  <1>2. Top.locals \in Seq(Safe)
    BY <1>1 DEF Sound, Top
  <1> DEFINE f == [Top EXCEPT !.ip = ip]
  <1>3. f \in Frame /\ f.locals = Top.locals /\ Jump(ip) = WithTop(f)
    BY <1>1 DEF Frame, Jump
  <1> HIDE DEF f
  <1> QED BY <1>1, <1>2, <1>3, TopSafe

LEMMA SteppedSafe ==
  ASSUME IInv, Sound, NEW ops, Running(ops)
  PROVE  \A i \in DOMAIN Stepped : Stepped[i].locals \in Seq(Safe)
  <1>1. Top.ip + 1 \in Nat
    BY FetchType DEF Frame
  <1> QED BY <1>1, JumpSafe DEF Stepped

LEMMA CallersSafe ==
  ASSUME IInv, Sound, frames # <<>>
  PROVE  \A i \in DOMAIN Callers : Callers[i].locals \in Seq(Safe)
  <1> DEFINE n == Len(frames) - 1
  <1>1. frames \in Seq(Frame) /\ n \in Nat /\ n <= Len(frames) /\ Callers = SubSeq(frames, 1, n)
    BY DEF IInv, TypeOK, Callers
  <1> HIDE DEF n
  <1>2. /\ Callers \in Seq(Frame) /\ Len(Callers) = n
        /\ \A i \in 1 .. n : Callers[i] = frames[i]
    BY <1>1, FirstOf
  <1> QED BY <1>1, <1>2 DEF Sound

LEMMA StopSafe ==
  ASSUME IInv, Sound, NEW ops, Running(ops), NEW why, NEW rest \in Seq(Safe), Stop(why, rest)
  PROVE  Sound'
  BY SteppedSafe, SoundKept DEF Stop, Store, Sound

LEMMA ShortSafe ==
  ASSUME IInv, Sound, NEW ops, Running(ops), NEW n, NeedsValues(n)
  PROVE  Sound'
  <1>1. <<>> \in Seq(Safe)
    OBVIOUS
  <1> QED BY <1>1, StopSafe DEF NeedsValues

LEMMA PushSafe ==
  ASSUME IInv, Sound, NEW ops, Running(ops), NEW rest \in Seq(Safe), NEW v \in Safe,
         PushOn(rest, v), frames' = Stepped, UNCHANGED Store
  PROVE  Sound'
  <1>1. stack' \in Seq(Safe)
    BY DEF PushOn
  <1> QED BY <1>1, SteppedSafe, SoundKept DEF Store, Sound

LEMMA StopPoppedSafe ==
  ASSUME IInv, Sound, NEW ops, Running(ops), NEW n \in Nat, n <= Len(stack), NEW why,
         Stop(why, Below(n))
  PROVE  Sound'
  BY OperandsSafe, StopSafe

-----------------------------------------------------------------------------
(* Each handler keeps every value safe. *)

LEMMA PoppedSafe ==
  ASSUME IInv, Sound, NEW ops, Running(ops), NEW n \in Nat, n <= Len(stack), NEW ip \in Nat,
         stack' = Below(n), frames' = Jump(ip), UNCHANGED <<heap, globals>>
  PROVE  Sound'
  BY OperandsSafe, JumpSafe, SoundKept DEF Sound

LEMMA StepIsJump ==
  ASSUME IInv, NEW ops, Running(ops)
  PROVE  Stepped = Jump(Top.ip + 1) /\ Top.ip + 1 \in Nat
  BY FetchType DEF Frame, Stepped

LEMMA PushSound == IInv /\ Sound /\ Push => Sound'
  <1> SUFFICES ASSUME IInv, Sound, Push PROVE Sound'
    OBVIOUS
  <1>1. Ins.op \in PushOps /\ Ins.a \in Int64
    BY FetchType DEF Push, Instr
  <1>2. module.strings \in Seq(Nat) /\ AsUsize(Ins.a) \in Nat
    BY <1>1, AsUsizeType, WordAssumption, SMTT(30) DEF IInv, TypeOK, Module, Int64
  <1>3. Literal \in Value /\ Literal.t # "Ptr"
    <2>1. Literal \in Value
      BY <1>1, <1>2, ValueIntro, AtType DEF Literal, PushOps, FloatOfBits
    <2>2. Literal.t # "Ptr"
      BY <1>1 DEF Literal, PushOps, FloatOfBits, IntV, FloatV, BoolV, StrV, Null
    <2> QED BY <2>1, <2>2
  <1> QED BY <1>3, SafeIntro, PushSafe DEF Push, Sound

LEMMA PopSound == IInv /\ Sound /\ Pop => Sound'
  <1> SUFFICES ASSUME IInv, Sound, Running({"POP", "FREE"}), Pop PROVE Sound'
    BY DEF Pop
  <1>1. stack # <<>> => 1 <= Len(stack)
    BY DepthType
  <1> QED BY <1>1, ShortSafe, PoppedSafe, StepIsJump DEF Pop, Store

LEMMA DupSound == IInv /\ Sound /\ Dup => Sound'
  <1> SUFFICES ASSUME IInv, Sound, Running({"DUP"}), Dup PROVE Sound'
    BY DEF Dup
  <1>1. CASE NeedsValues(1)
    BY <1>1, ShortSafe
  <1>2. CASE stack # <<>> /\ PushOn(stack, Nth(1)) /\ frames' = Stepped /\ UNCHANGED Store
    <2>1. Nth(1) \in Safe /\ stack \in Seq(Safe)
      BY <1>2, DepthType, OperandsSafe DEF Sound
    <2> QED BY <1>2, <2>1, PushSafe
  <1> QED BY <1>1, <1>2 DEF Dup

LEMMA SwapSound == IInv /\ Sound /\ Swap => Sound'
  <1> SUFFICES ASSUME IInv, Sound, Running({"SWAP"}), Swap PROVE Sound'
    BY DEF Swap
  <1>1. CASE NeedsValues(2)
    BY <1>1, ShortSafe
  <1>2. CASE /\ Len(stack) >= 2 /\ stack' = Below(2) \o <<Nth(1), Nth(2)>>
             /\ frames' = Stepped /\ UNCHANGED <<Store, status>>
    <2>1. Below(2) \in Seq(Safe) /\ Nth(1) \in Safe /\ Nth(2) \in Safe
      BY <1>2, OperandsSafe
    <2>2. stack' \in Seq(Safe)
      BY <1>2, <2>1
    <2> QED BY <1>2, <2>2, SteppedSafe, SoundKept DEF Sound, Store
  <1> QED BY <1>1, <1>2 DEF Swap

LEMMA LoadLocalSound == IInv /\ Sound /\ LoadLocal => Sound'
  <1> SUFFICES ASSUME IInv, Sound, Running({"LOAD_LOCAL"}), LoadLocal PROVE Sound'
    BY DEF LoadLocal
  <1>1. frames \in Seq(Frame) /\ frames # <<>>
    BY DEF Running, IInv, TypeOK
  <1>2. Len(frames) \in DOMAIN frames
    BY <1>1
  <1>3. Top.locals \in Seq(Safe) /\ AsUsize(Ins.a) \in Nat
    BY <1>2, OperandsOfIns DEF Sound, Top
  <1>4. At(Top.locals, AsUsize(Ins.a), Null) \in Safe
    BY <1>3, AtType, SafeIntro
  <1> QED BY <1>4, PushSafe DEF LoadLocal, Sound

LEMMA StoreLocalSound == IInv /\ Sound /\ StoreLocal => Sound'
  <1> DEFINE slot == AsUsize(Ins.a)
             size == IF slot >= Len(Top.locals) THEN slot + 1 ELSE Len(Top.locals)
             grown == [Resize(Top.locals, size, Null) EXCEPT ![slot + 1] = Nth(1)]
             new == [Top EXCEPT !.ip = Top.ip + 1, !.locals = grown]
  <1> SUFFICES ASSUME IInv, Sound, Running({"STORE_LOCAL"}), StoreLocal PROVE Sound'
    BY DEF StoreLocal
  <1>1. CASE NeedsValues(1)
    BY <1>1, ShortSafe
  <1>2. CASE stack # <<>> /\ Stop("panic", Below(1))
    BY <1>2, DepthType, StopPoppedSafe
  <1>3. CASE stack # <<>> /\ stack' = Below(1) /\ frames' = WithTop(new)
               /\ UNCHANGED <<Store, status>>
    <2>1. 1 <= Len(stack) /\ frames # <<>> /\ Len(frames) \in DOMAIN frames
      BY <1>3 DEF IInv, TypeOK, Running
    <2>2. slot \in Nat /\ Top \in Frame
      BY FetchType, OperandsOfIns
    <2>3. size \in Nat /\ slot + 1 \in 1 .. size
      BY <2>2 DEF Frame
    <2> HIDE DEF size, slot
    <2>4. grown \in Seq(Safe)
      <3>1. Resize(Top.locals, size, Null) \in Seq(Safe)
            /\ Len(Resize(Top.locals, size, Null)) = size
        <4>1. Top.locals \in Seq(Safe) /\ Null \in Safe
          BY <2>1, SafeIntro DEF Sound, Top
        <4>2. size \in Nat
          BY <2>3
        <4> QED BY <4>1, <4>2, ResizeType
      <3>2. Nth(1) \in Safe
        BY <2>1, OperandsSafe
      <3> QED BY <2>3, <3>1, <3>2
    <2> HIDE DEF grown
    <2>5. new \in Frame /\ new.locals = grown
      <3>1. Top.ip + 1 \in Nat
        BY <2>2 DEF Frame
      <3>2. grown \in Seq(Value)
        <4>1. Safe \subseteq Value
          BY DEF Safe
        <4> QED BY <2>4, <4>1
      <3> QED BY <2>2, <3>1, <3>2 DEF Frame
    <2> HIDE DEF new
    <2>6. Below(1) \in Seq(Safe)
      BY <2>1, OperandsSafe
    <2>7. \A i \in DOMAIN frames' : frames'[i].locals \in Seq(Safe)
      BY <1>3, <2>1, <2>4, <2>5, TopSafe
    <2> QED BY <1>3, <2>6, <2>7, SoundKept DEF Sound, Store
  <1> QED BY <1>1, <1>2, <1>3 DEF StoreLocal

LEMMA LoadGlobalSound == IInv /\ Sound /\ LoadGlobal => Sound'
  <1> SUFFICES ASSUME IInv, Sound, LoadGlobal PROVE Sound'
    OBVIOUS
  <1> DEFINE g == AsUsize(Ins.a)
             v == IF g \in DOMAIN globals THEN globals[g] ELSE Null
  <1>1. v \in Safe
    BY SafeIntro DEF Sound
  <1>2. /\ Running({"LOAD_GLOBAL"}) /\ PushOn(stack, v) /\ frames' = Stepped
        /\ UNCHANGED Store /\ stack \in Seq(Safe)
    BY DEF LoadGlobal, Sound
  <1> HIDE DEF v
  <1> QED BY <1>1, <1>2, PushSafe

LEMMA StoreGlobalSound == IInv /\ Sound /\ StoreGlobal => Sound'
  <1> DEFINE g == AsUsize(Ins.a)
  <1> SUFFICES ASSUME IInv, Sound, Running({"STORE_GLOBAL"}), StoreGlobal PROVE Sound'
    BY DEF StoreGlobal
  <1>1. CASE NeedsValues(1)
    BY <1>1, ShortSafe
  <1>2. CASE /\ stack # <<>> /\ stack' = Below(1)
             /\ globals' = [k \in DOMAIN globals \cup {g} |->
                              IF k = g THEN Nth(1) ELSE globals[k]]
             /\ frames' = Stepped /\ UNCHANGED <<module, heap, output, status>>
    <2>1. Below(1) \in Seq(Safe) /\ Nth(1) \in Safe
      BY <1>2, DepthType, OperandsSafe
    <2> HIDE DEF g
    <2>2. \A k \in DOMAIN globals' : globals'[k] \in Safe
      BY <1>2, <2>1 DEF Sound
    <2>3. stack' \in Seq(Safe) /\ Len(heap') = Len(heap)
      BY <1>2, <2>1
    <2> QED BY <1>2, <2>2, <2>3, SteppedSafe, SoundKept
  <1> QED BY <1>1, <1>2 DEF StoreGlobal

LEMMA UnarySound == IInv /\ Sound /\ Unary => Sound'
  <1> SUFFICES ASSUME IInv, Sound, Running(UnaryOps), Unary PROVE Sound'
    BY DEF Unary
  <1>1. CASE NeedsValues(1)
    BY <1>1, ShortSafe
  <1>2. CASE stack # <<>> /\ Stop("type", Below(1))
    BY <1>2, DepthType, StopPoppedSafe
  <1>3. CASE /\ stack # <<>> /\ frames' = Stepped /\ UNCHANGED Store
             /\ \E v \in UnaryResults(Ins.op, Nth(1)) : PushOn(Below(1), v)
    <2>1. Nth(1) \in Value /\ Below(1) \in Seq(Safe)
      BY <1>3, DepthType, OperandTypes, OperandsSafe
    <2>2. UnaryResults(Ins.op, Nth(1)) \subseteq Safe
      BY <2>1, FetchType, UnarySafe
    <2> QED BY <1>3, <2>1, <2>2, PushSafe
  <1> QED BY <1>1, <1>2, <1>3 DEF Unary

(* What the handlers of two operands share.                                 *)
LEMMA TwoTakenSafe ==
  ASSUME IInv, Sound, NEW ops, Running(ops),
         \/ NeedsValues(2)
         \/ Len(stack) >= 2 /\ \E why : Stop(why, Below(2))
         \/ /\ Len(stack) >= 2 /\ frames' = Stepped /\ UNCHANGED Store
            /\ \E v \in Safe : PushOn(Below(2), v)
  PROVE  Sound'
  <1>1. Len(stack) >= 2 => Below(2) \in Seq(Safe) /\ 2 <= Len(stack)
    BY DepthType, OperandsSafe
  <1> QED BY <1>1, ShortSafe, StopSafe, PushSafe

LEMMA BinarySound == IInv /\ Sound /\ Binary => Sound'
  <1> SUFFICES ASSUME IInv, Sound, Running(BinaryOps), Binary PROVE Sound'
    BY DEF Binary
  <1>1. Len(stack) >= 2 => Nth(1) \in Value /\ Nth(2) \in Value
    BY DepthType, OperandTypes
  <1>2. Len(stack) >= 2 => BinaryResults(Ins.op, Nth(2), Nth(1)) \subseteq Safe
    BY <1>1, BinarySafe
  <1> QED BY <1>2, TwoTakenSafe DEF Binary

LEMMA DivideSound == IInv /\ Sound /\ Divide => Sound'
  <1>1. \A z \in Int64 : IntV(z) \in Safe
    BY SafeIntro, ValueIntro DEF IntV
  <1> QED BY <1>1, TwoTakenSafe DEF Divide, IntDivision

LEMMA StrConcatSound == IInv /\ Sound /\ StrConcat => Sound'
  <1> SUFFICES ASSUME IInv, Sound, Running({"STR_CONCAT"}), StrConcat PROVE Sound'
    BY DEF StrConcat
  <1>1. Len(stack) >= 2 => Nth(1) \in Value /\ Nth(2) \in Value
    BY DepthType, OperandTypes
  <1>2. Len(stack) >= 2 /\ Are("Str", Nth(2), Nth(1)) => StrV(Nth(2).v + Nth(1).v) \in Safe
    <2> SUFFICES ASSUME Len(stack) >= 2, Are("Str", Nth(2), Nth(1))
                 PROVE  StrV(Nth(2).v + Nth(1).v) \in Safe
      OBVIOUS
    <2>1. Nth(1).v \in Nat /\ Nth(2).v \in Nat
      BY <1>1, ValueElim DEF Are
    <2>2. StrV(Nth(2).v + Nth(1).v) \in Value
      BY <2>1, ValueIntro
    <2> QED BY <2>2, SafeIntro DEF StrV
  <1> QED BY <1>2, TwoTakenSafe DEF StrConcat

LEMMA LoadPtrSound == IInv /\ Sound /\ LoadPtr => Sound'
  <1> SUFFICES ASSUME IInv, Sound, Running({"LOAD_PTR"}), LoadPtr PROVE Sound'
    BY DEF LoadPtr
  <1> DEFINE w == At(heap, Address(Nth(2).v, Nth(1).v), 0)
  <1>1. Len(stack) >= 2 => IntV(w) \in Safe
    <2> SUFFICES ASSUME Len(stack) >= 2 PROVE IntV(w) \in Safe
      OBVIOUS
    <2>1. Nth(1) \in Value /\ Nth(2) \in Value
      BY DepthType, OperandTypes
    <2>2. Address(Nth(2).v, Nth(1).v) \in Nat
      <3>1. Nth(1).v \in Int /\ Nth(2).v \in Int
        BY <2>1, ValueElim
      <3>2. AsUsize(Nth(1).v) \in Nat
        BY <3>1, AsUsizeType
      <3>3. Nth(2).v + AsUsize(Nth(1).v) \in Int
        BY <3>1, <3>2
      <3> QED BY <3>3, AsUsizeType DEF Address
    <2>3. heap \in Seq(Byte) /\ 0 \in Byte /\ Byte \subseteq Int64
      BY WordAssumption DEF IInv, TypeOK, Byte, Int64
    <2>4. w \in Int64
      BY <2>2, <2>3, AtType
    <2>5. IntV(w) \in Value
      BY <2>4, ValueIntro
    <2> QED BY <2>5, SafeIntro DEF IntV
  <1>2. LoadPtr => \/ NeedsValues(2)
                   \/ Len(stack) >= 2 /\ \E why : Stop(why, Below(2))
                   \/ /\ Len(stack) >= 2 /\ frames' = Stepped /\ UNCHANGED Store
                      /\ PushOn(Below(2), IntV(w))
    BY DEF LoadPtr
  <1> HIDE DEF w
  <1> QED BY <1>1, <1>2, TwoTakenSafe

LEMMA AsUsizeSmall == \A n \in Nat : n < 2 * HalfWord => AsUsize(n) = n
  <1> SUFFICES ASSUME NEW n \in Nat, n < 2 * HalfWord PROVE AsUsize(n) = n
    OBVIOUS
  <1> DEFINE m == 2 * HalfWord
  <1>1. m \in Nat /\ n < m
    BY WordAssumption
  <1> HIDE DEF m
  <1>2. n % m = n
    BY <1>1
  <1> QED BY <1>2 DEF AsUsize, m

(* ALLOC hands out the old end of the heap.  In a program whose sizes are   *)
(* not negative the new length is the sum, without a wrap.                  *)
LEMMA AllocSound == IInv /\ SaneAllocs /\ Sound /\ Alloc => Sound'
  <1> DEFINE size == AsUsize(Len(heap) + AsUsize(Ins.a))
  <1> SUFFICES ASSUME IInv, SaneAllocs, Sound, Running({"ALLOC"}), Alloc PROVE Sound'
    BY DEF Alloc
  <1>1. CASE Stop("panic", stack)
    BY <1>1, StopSafe DEF Sound
  <1>2. CASE /\ size <= MemLimit /\ heap' = Resize(heap, size, 0)
             /\ PushOn(stack, PtrV(Len(heap))) /\ frames' = Stepped
             /\ UNCHANGED <<module, globals, output>>
    <2>1. Ins.a >= 0 /\ Ins.a \in Int64
      <3>1. Top \in Frame /\ Top.fn < Len(module.functions) /\ Ins \in Instr /\ Ins.op = "ALLOC"
        BY FetchType
      <3>2. module.functions \in Seq(Function) /\ Top.fn + 1 \in DOMAIN module.functions
        BY <3>1 DEF IInv, TypeOK, Module, Frame
      <3>3. module.functions[Top.fn + 1].code \in Seq(Instr)
        <4>1. module.functions[Top.fn + 1] \in Function
          BY <3>2
        <4> QED BY <4>1 DEF Function
      <3>4. Top.ip + 1 \in DOMAIN module.functions[Top.fn + 1].code
        BY <3>1, <3>3 DEF Running, Code, Frame
      <3> QED BY <3>1, <3>2, <3>4 DEF SaneAllocs, Ins, Code, Instr
    <2>2. heap \in Seq(Byte) /\ Len(heap) \in Nat /\ Len(heap) <= MemLimit /\ 0 \in Byte
      BY WordAssumption DEF IInv, TypeOK, Sound, Byte
    <2>3. size = Len(heap) + Ins.a
      <3>1. Ins.a \in Nat /\ Ins.a < HalfWord /\ HalfWord \in Nat
        BY <2>1, WordAssumption DEF Int64
      <3>2. AsUsize(Ins.a) = Ins.a
        BY <3>1, AsUsizeSmall
      <3>3. Len(heap) + Ins.a < 2 * HalfWord /\ Len(heap) + Ins.a \in Nat
        BY <2>2, <3>1, LimitAssumption
      <3>4. AsUsize(Len(heap) + Ins.a) = Len(heap) + Ins.a
        BY <3>3, AsUsizeSmall
      <3> QED BY <3>2, <3>4
    <2>4. size \in Nat /\ size >= Len(heap)
      BY <2>1, <2>2, <2>3 DEF Int64
    <2> HIDE DEF size
    <2>5. Len(heap') = size
      BY <1>2, <2>2, <2>4, ResizeType
    <2>6. Safe \subseteq Safe' /\ PtrV(Len(heap)) \in Safe'
      <3>1. PtrV(Len(heap)) \in Value
        BY <2>2, ValueIntro
      <3>2. \A x \in Value : InHeap(x) => InHeap(x)'
        BY <2>2, <2>4, <2>5, ValueElim DEF InHeap
      <3> QED BY <2>2, <2>4, <2>5, <3>1, <3>2 DEF Safe, InHeap, PtrV
    <2>7. stack' \in Seq(Safe')
      <3>1. stack \in Seq(Safe')
        BY <2>6 DEF Sound
      <3> QED BY <1>2, <2>6, <3>1 DEF PushOn
    <2>8. \A i \in DOMAIN frames' : frames'[i].locals \in Seq(Safe')
      <3>1. \A i \in DOMAIN frames' : frames'[i].locals \in Seq(Safe)
        BY <1>2, SteppedSafe
      <3> QED BY <2>6, <3>1
    <2>9. \A g \in DOMAIN globals' : globals'[g] \in Safe'
      BY <1>2, <2>6 DEF Sound
    <2> QED BY <1>2, <2>5, <2>7, <2>8, <2>9 DEF Sound
  <1> QED BY <1>1, <1>2 DEF Alloc

LEMMA StorePtrSound == IInv /\ Sound /\ StorePtr => Sound'
  <1> DEFINE addr == Address(Nth(3).v, Nth(2).v)
             hits == /\ Nth(3).t = "Ptr" /\ Are("Int", Nth(2), Nth(1))
                     /\ addr < Len(heap)
             b    == Nth(1).v % ByteSize
  <1> SUFFICES ASSUME IInv, Sound, Running({"STORE_PTR"}), StorePtr PROVE Sound'
    BY DEF StorePtr
  <1>1. CASE NeedsValues(3)
    BY <1>1, ShortSafe
  <1>2. CASE /\ Len(stack) >= 3 /\ stack' = Below(3) /\ frames' = Stepped
             /\ heap' = IF hits THEN [heap EXCEPT ![addr + 1] = b] ELSE heap
             /\ UNCHANGED <<module, globals, output, status>>
    <2> HIDE DEF b, hits, addr
    <2>1. heap' = heap \/ heap' = [heap EXCEPT ![addr + 1] = b]
      BY <1>2
    <2>2. Len(heap') = Len(heap)
      BY <2>1 DEF IInv, TypeOK
    <2>3. stack' \in Seq(Safe)
      BY <1>2, OperandsSafe
    <2> QED BY <1>2, <2>2, <2>3, SteppedSafe, SoundKept DEF Sound
  <1> QED BY <1>1, <1>2 DEF StorePtr

LEMMA PrintSound == IInv /\ Sound /\ PrintValue => Sound'
  <1> SUFFICES ASSUME IInv, Sound, Running(PrintOps), PrintValue PROVE Sound'
    BY DEF PrintValue
  <1>1. stack # <<>> => 1 <= Len(stack)
    BY DepthType
  <1> QED BY <1>1, ShortSafe, PoppedSafe, StepIsJump DEF PrintValue

LEMMA QuietSound == IInv /\ Sound /\ Quiet => Sound'
  BY SteppedSafe, SoundKept DEF Quiet, Store, Sound

LEMMA HaltSound == IInv /\ Sound /\ Halt => Sound'
  BY StopSafe DEF Halt, Sound

LEMMA UnimplementedSound == IInv /\ Sound /\ Unimplemented => Sound'
  BY StopSafe DEF Unimplemented, Sound

LEMMA GotoSound == IInv /\ Sound /\ Goto => Sound'
  BY JumpSafe, OperandsOfIns, SoundKept DEF Goto, Store, Sound

LEMMA BranchSound == IInv /\ Sound /\ Branch => Sound'
  <1> SUFFICES ASSUME IInv, Sound, Running(BranchOps), Branch PROVE Sound'
    BY DEF Branch
  <1>1. (stack # <<>> => 1 <= Len(stack)) /\ AsUsize(Ins.a) \in Nat
    BY DepthType, OperandsOfIns
  <1> QED BY <1>1, ShortSafe, PoppedSafe, StepIsJump DEF Branch, Store

-----------------------------------------------------------------------------
(* Calls: a callee's locals are its arguments and Null.                     *)

LEMMA ArgsSafe ==
  ASSUME IInv, Sound, NEW n \in Nat, n <= Len(stack)
  PROVE  Args(n) \in Seq(Safe)
  BY DEF Sound, Args

LEMMA PrefixSafe ==
  ASSUME NEW S, NEW s \in Seq(S), NEW n \in Nat
  PROVE  Prefix(s, n) \in Seq(S)
  BY PrefixOf

LEMMA CallFnSafe ==
  ASSUME IInv, Sound, NEW f \in Nat, NEW args \in Seq(Safe), NEW under \in Seq(Frame),
         \A i \in DOMAIN under : under[i].locals \in Seq(Safe),
         NEW rest \in Seq(Safe), CallFn(f, args, under, rest)
  PROVE  Sound'
  <1>1. stack' = rest /\ UNCHANGED Store
    BY DEF CallFn
  <1>2. CASE frames' = under
    BY <1>1, <1>2, SoundKept DEF Store, Sound
  <1>3. CASE f < Len(module.functions) /\ frames' = Append(under, NewFrame(f, args, Len(rest)))
    <2>1. FrameSize(f) \in Nat
      BY <1>3, FrameSizeType
    <2> DEFINE new == NewFrame(f, args, Len(rest))
    <2>2. new.locals \in Seq(Safe)
      <3>1. new.locals = Resize(args, FrameSize(f), Null)
        BY DEF NewFrame
      <3> QED BY <2>1, <3>1, ResizeType, SafeIntro
    <2> HIDE DEF new
    <2>3. frames' = Append(under, new)
      BY <1>3 DEF new
    <2>4. \A i \in DOMAIN frames' : frames'[i].locals \in Seq(Safe)
      BY <2>2, <2>3
    <2> QED BY <1>1, <2>4, SoundKept DEF Store, Sound
  <1>4. module.functions \in Seq(Function)
    BY DEF IInv, TypeOK, Module
  <1> QED BY <1>2, <1>3, <1>4 DEF CallFn

LEMMA CallSound == IInv /\ Sound /\ Call => Sound'
  <1> DEFINE argc == AsUsize(Ins.b)
  <1> SUFFICES ASSUME IInv, Sound, Running({"CALL"}), Call PROVE Sound'
    BY DEF Call
  <1>1. CASE NeedsValues(argc)
    BY <1>1, ShortSafe
  <1>2. CASE Stop("panic", stack)
    BY <1>2, StopSafe DEF Sound
  <1>3. CASE /\ argc <= Len(stack)
             /\ CallFn(AsUsize(Ins.a), Args(argc), Stepped, Below(argc))
    BY <1>3, OperandsOfIns, ArgsSafe, OperandsSafe, SteppedKept, SteppedSafe, CallFnSafe
  <1> QED BY <1>1, <1>2, <1>3 DEF Call

LEMMA TailCallSound == IInv /\ Sound /\ TailCall => Sound'
  <1> DEFINE argc == AsUsize(Ins.b)
             rest == Prefix(Below(argc), Top.base)
  <1> SUFFICES ASSUME IInv, Sound, Running({"TAIL_CALL"}), TailCall PROVE Sound'
    BY DEF TailCall
  <1>1. CASE NeedsValues(argc)
    BY <1>1, ShortSafe
  <1>2. CASE Stop("panic", stack)
    BY <1>2, StopSafe DEF Sound
  <1>3. CASE /\ argc <= Len(stack)
             /\ CallFn(AsUsize(Ins.a), Args(argc), Callers, rest)
    <2>1. Top.base \in Nat /\ frames # <<>>
      BY FetchType DEF Frame, Running
    <2>2. rest \in Seq(Safe) /\ Args(argc) \in Seq(Safe)
      BY <1>3, <2>1, OperandsOfIns, OperandsSafe, ArgsSafe, PrefixSafe
    <2> HIDE DEF rest
    <2> QED BY <1>3, <2>1, <2>2, OperandsOfIns, CallersKept, CallersSafe, CallFnSafe
  <1> QED BY <1>1, <1>2, <1>3 DEF TailCall

LEMMA ReturnSound == IInv /\ Sound /\ Return => Sound'
  <1> DEFINE rest == Prefix(Below(1), Top.base)
  <1> SUFFICES ASSUME IInv, Sound, Running({"RETURN"}), Return PROVE Sound'
    BY DEF Return
  <1>1. CASE NeedsValues(1)
    BY <1>1, ShortSafe
  <1>2. CASE /\ stack # <<>> /\ frames' = Callers /\ UNCHANGED Store
             /\ (stack' = Append(rest, Nth(1)) \/ stack' = rest)
    <2>1. Below(1) \in Seq(Safe) /\ Nth(1) \in Safe
      BY <1>2, DepthType, OperandsSafe
    <2>2. Top.base \in Nat /\ frames # <<>>
      BY FetchType DEF Frame, Running
    <2>3. rest \in Seq(Safe)
      BY <2>1, <2>2, PrefixSafe
    <2> HIDE DEF rest
    <2>4. stack' \in Seq(Safe)
      BY <1>2, <2>1, <2>3
    <2> QED BY <1>2, <2>2, <2>4, CallersSafe, SoundKept DEF Store, Sound
  <1> QED BY <1>1, <1>2 DEF Return

LEMMA ReturnVoidSound == IInv /\ Sound /\ ReturnVoid => Sound'
  <1> SUFFICES ASSUME IInv, Sound, Running({"RETURN_VOID"}), ReturnVoid PROVE Sound'
    BY DEF ReturnVoid
  <1>1. Top.base \in Nat /\ frames # <<>>
    BY FetchType DEF Frame, Running
  <1>2. stack' \in Seq(Safe)
    BY <1>1, PrefixSafe DEF ReturnVoid, Sound
  <1> QED BY <1>1, <1>2, CallersSafe, SoundKept DEF ReturnVoid, Store, Sound

LEMMA FallOffSound == IInv /\ Sound /\ FallOff => Sound'
  BY CallersSafe, SoundKept DEF FallOff, Store, Sound

LEMMA StartSound == IInv /\ Sound /\ Start => Sound'
  <1> SUFFICES ASSUME IInv, Sound, Start PROVE Sound'
    OBVIOUS
  <1>1. module.entry \in Nat /\ CallFn(module.entry, <<>>, <<>>, <<>>)
    BY DEF IInv, TypeOK, Module, Start
  <1>2. <<>> \in Seq(Safe) /\ <<>> \in Seq(Frame) /\ DOMAIN <<>> = {}
    OBVIOUS
  <1> QED BY <1>1, <1>2, CallFnSafe

LEMMA HeapInvKept == IInv /\ HeapInv /\ [Next]_vars => HeapInv'
  <1> SUFFICES ASSUME IInv, HeapInv, [Next]_vars, SaneAllocs' PROVE Sound'
    BY DEF HeapInv
  <1>1. module' = module
    BY DEF vars, Next, Start, Push, Pop, Dup, Swap, LoadLocal, StoreLocal, LoadGlobal,
           StoreGlobal, Unary, Binary, Divide, StrConcat, Alloc, LoadPtr, StorePtr,
           PrintValue, Quiet, Halt, Unimplemented, Goto, Branch, Call, TailCall, Return,
           ReturnVoid, FallOff, Stop, NeedsValues, CallFn, Store
  <1>2. SaneAllocs /\ Sound
    BY <1>1 DEF SaneAllocs, HeapInv
  <1>3. CASE UNCHANGED vars
    BY <1>2, <1>3 DEF vars, Sound, Safe, InHeap
  <1>4. CASE Next
    BY <1>2, <1>4, StartSound, PushSound, PopSound, DupSound, SwapSound, LoadLocalSound,
       StoreLocalSound, LoadGlobalSound, StoreGlobalSound, UnarySound, BinarySound,
       DivideSound, StrConcatSound, AllocSound, LoadPtrSound, StorePtrSound, PrintSound,
       QuietSound, HaltSound, UnimplementedSound, GotoSound, BranchSound, CallSound,
       TailCallSound, ReturnSound, ReturnVoidSound, FallOffSound DEF Next
  <1> QED BY <1>3, <1>4

(* Wherever a program without negative ALLOC sizes keeps an address -- on   *)
(* the stack, in a local of any frame, in a global -- it stays inside the   *)
(* heap: the bump allocator of vm.rs only moves forward.                    *)
THEOREM AddressesStayInHeap == Spec => []PointersInHeap
  <1>1. Init => HeapInv
    <2> SUFFICES ASSUME Init PROVE Sound
      BY DEF HeapInv
    <2>1. Len(<<>>) <= MemLimit /\ <<>> \in Seq(Safe) /\ DOMAIN <<>> = {}
      BY LimitAssumption
    <2> QED BY <2>1 DEF Init, Fresh, Sound
  <1>2. IInv /\ HeapInv => PointersInHeap
    <2> SUFFICES ASSUME IInv, Sound
                 PROVE  /\ \A i \in DOMAIN stack : InHeap(stack[i])
                        /\ \A i \in DOMAIN frames :
                              \A j \in DOMAIN frames[i].locals : InHeap(frames[i].locals[j])
                        /\ \A g \in DOMAIN globals : InHeap(globals[g])
      BY DEF HeapInv, PointersInHeap
    <2>1. \A x \in Safe : InHeap(x)
      BY DEF Safe
    <2>2. \A s \in Seq(Safe) : \A j \in DOMAIN s : s[j] \in Safe
      OBVIOUS
    <2> QED BY <2>1, <2>2 DEF Sound
  <1> QED BY <1>1, <1>2, InitKept, NextKept, HeapInvKept, PTL DEF Spec
=============================================================================
