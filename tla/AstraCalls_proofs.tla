-------------------------- MODULE AstraCalls_proofs --------------------------
(***************************************************************************)
(* On certified bytecode the shared value stack with its base pointers     *)
(* behaves like private operand stacks: no step touches a value under the  *)
(* running frame's base, and the machine implements AstraCalls.            *)
(***************************************************************************)
EXTENDS AstraVerified_proofs

-----------------------------------------------------------------------------
(* What the books alone do not say: bases are sorted along the whole call   *)
(* chain, not only between neighbours.  The refinement also needs that      *)
(* nothing is entered before the start.                                     *)
BasesSorted ==
    status = "running" =>
        \A i, j \in DOMAIN frames : i <= j => frames[i].base <= frames[j].base

CInv == VInv /\ BasesSorted /\ NothingEntered

(* The values under the running frame's base are those of the stack s.      *)
Keeps(s) ==
    /\ s \in Seq(Value)
    /\ Len(s) >= Top.base
    /\ \A i \in 1 .. Top.base : s[i] = stack[i]

-----------------------------------------------------------------------------
(* What a step of a running machine may do to frames and stack.             *)

StaysIn ==
    /\ Keeps(stack')
    /\ status' # "loaded"
    /\ \E f \in Frame : f.fn = Top.fn /\ f.base = Top.base /\ frames' = WithTop(f)

CallsOut ==
    /\ status' = "running"
    /\ \E n \in 0 .. Len(stack) - Top.base, g \in Nat :
          /\ stack' = Below(n)
          /\ frames' = Append(Stepped, NewFrame(g, Args(n), Len(stack')))

Leaves ==
    /\ frames' = Callers
    /\ Keeps(stack')
    /\ \/ Len(stack') = Top.base
       \/ /\ Len(stack) > Top.base
          /\ Len(stack') = Top.base + 1
          /\ stack'[Top.base + 1] = stack[Len(stack)]
    /\ status' # "loaded"
    /\ Callers = <<>> => status' # "running"

Replaces ==
    /\ status' = "running"
    /\ \E n \in 0 .. Len(stack) - Top.base, g \in Nat :
          /\ Keeps(stack') /\ Len(stack') = Top.base
          /\ frames' = Append(Callers, NewFrame(g, Args(n), Len(stack')))

RunningStep ==
    status = "running" /\ frames # <<>> /\ (StaysIn \/ CallsOut \/ Leaves \/ Replaces)

LEMMA BelowKeeps ==
  ASSUME VInv, NEW ops, Running(ops), NEW n \in 0 .. H
  PROVE  /\ Keeps(Below(n)) /\ Len(Below(n)) = Len(stack) - n
         /\ Keeps(stack) /\ n \in 0 .. Len(stack) - Top.base
  <1>1. /\ Len(stack) = Top.base + H /\ H \in Nat /\ Top.base \in Nat
        /\ stack \in Seq(Value)
    BY Granted DEF Frame, VInv, IInv, TypeOK
  <1>2. Len(stack) - n <= Len(stack) /\ Len(stack) - n \in Nat /\ Len(stack) - n >= Top.base
    BY <1>1
  <1> DEFINE k == Len(stack) - n
  <1>3. /\ Below(n) \in Seq(Value) /\ Len(Below(n)) = k
        /\ \A i \in 1 .. k : Below(n)[i] = stack[i]
    <2>1. k \in Int /\ k <= Len(stack) /\ k >= 0
      BY <1>2
    <2>2. Below(n) = SubSeq(stack, 1, k)
      BY DEF Below
    <2> HIDE DEF k
    <2> QED BY <1>1, <2>1, <2>2, FirstOf
  <1> QED BY <1>1, <1>2, <1>3 DEF Keeps

LEMMA JumpStays ==
  ASSUME VInv, NEW ops, Running(ops), NEW ip \in Nat, frames' = Jump(ip),
         Keeps(stack'), status' # "loaded"
  PROVE  RunningStep
  <1> DEFINE f == [Top EXCEPT !.ip = ip]
  <1>1. Top \in Frame
    BY Granted
  <1>2. f \in Frame /\ f.fn = Top.fn /\ f.base = Top.base
    BY <1>1 DEF Frame
  <1>3. frames' = WithTop(f)
    BY DEF Jump
  <1> HIDE DEF f
  <1> QED BY <1>2, <1>3 DEF RunningStep, StaysIn, Running

LEMMA StepStays ==
  ASSUME VInv, NEW ops, Running(ops), frames' = Stepped,
         Keeps(stack'), status' # "loaded"
  PROVE  RunningStep
  <1>1. Top.ip + 1 \in Nat
    BY Granted DEF Frame
  <1> QED BY <1>1, JumpStays DEF Stepped

LEMMA StopStays ==
  ASSUME VInv, NEW ops, Running(ops), NEW rest, Keeps(rest),
         NEW why, why # "loaded", Stop(why, rest)
  PROVE  RunningStep
  BY StepStays DEF Stop

LEMMA PushStays ==
  ASSUME VInv, IInv', NEW ops, Running(ops), NEW rest, Keeps(rest), NEW v,
         PushOn(rest, v), frames' = Stepped
  PROVE  RunningStep
  <1>1. stack' \in Seq(Value) /\ Top.base \in Nat
    BY Granted DEF IInv, TypeOK, Frame
  <1>2. rest \in Seq(Value) /\ Len(rest) >= Top.base
        /\ \A i \in 1 .. Top.base : rest[i] = stack[i]
    BY DEF Keeps
  <1>3. stack' = Append(rest, v) \/ stack' = rest
    BY DEF PushOn
  <1>4. /\ Len(stack') >= Top.base
        /\ \A i \in 1 .. Top.base : stack'[i] = rest[i]
    BY <1>1, <1>2, <1>3
  <1>5. Keeps(stack')
    BY <1>1, <1>2, <1>4 DEF Keeps
  <1>6. status' # "loaded"
    BY DEF PushOn, Running
  <1> QED BY <1>5, <1>6, StepStays

(* An instruction that takes n values and falls through.                    *)
LEMMA TakenKeeps ==
  ASSUME VInv, NEW ops, Running(ops), NEW n \in Nat, NEW e \in Int, Takes(n, e, ops)
  PROVE  /\ ~NeedsValues(n)
         /\ Keeps(Below(n)) /\ Keeps(stack)
         /\ n <= Len(stack)
         /\ status = "running"
  <1>1. ~NeedsValues(n) /\ n <= H /\ H \in Nat
    BY FallsThrough, Granted
  <1>2. n \in 0 .. H
    BY <1>1
  <1>3. Top.base \in Nat
    BY Granted DEF Frame
  <1> QED BY <1>1, <1>2, <1>3, BelowKeeps, DepthType DEF Running, VInv

-----------------------------------------------------------------------------
(* One lemma per handler: which of the four shapes its step has. *)

LEMMA PushStep == ASSUME VInv, IInv', Push PROVE RunningStep
  <1>1. Running(PushOps) /\ PushOn(stack, Literal) /\ frames' = Stepped
    BY DEF Push
  <1> QED BY <1>1, EffectTable, TakenKeeps, PushStays

LEMMA PopStep == ASSUME VInv, Pop PROVE RunningStep
  <1>1. Running({"POP", "FREE"})
    BY DEF Pop
  <1> QED BY <1>1, EffectTable, TakenKeeps, StepStays DEF Pop

LEMMA DupStep == ASSUME VInv, IInv', Dup PROVE RunningStep
  <1>1. Running({"DUP"})
    BY DEF Dup
  <1> QED BY <1>1, EffectTable, TakenKeeps, PushStays DEF Dup

LEMMA SwapStep == ASSUME VInv, IInv', Swap PROVE RunningStep
  <1>1. Running({"SWAP"})
    BY DEF Swap
  <1>2. ~NeedsValues(2) /\ Keeps(Below(2)) /\ status = "running"
    BY <1>1, EffectTable, TakenKeeps
  <1>3. /\ stack' = Below(2) \o <<Nth(1), Nth(2)>> /\ frames' = Stepped /\ status' = status
        /\ stack' \in Seq(Value)
    BY <1>2 DEF Swap, IInv, TypeOK
  <1>4. Top.base \in Nat
    BY <1>1, Granted DEF Frame
  <1>5. Keeps(stack')
    <2> DEFINE s == Below(2)
    <2>1. s \in Seq(Value) /\ Len(s) >= Top.base /\ \A i \in 1 .. Top.base : s[i] = stack[i]
      BY <1>2 DEF Keeps
    <2>2. stack' = s \o <<Nth(1), Nth(2)>>
      BY <1>3
    <2> HIDE DEF s
    <2>3. Len(stack') >= Len(s) /\ \A i \in 1 .. Top.base : stack'[i] = s[i]
      BY <1>4, <2>1, <2>2
    <2> QED BY <1>3, <1>4, <2>1, <2>3 DEF Keeps
  <1> QED BY <1>1, <1>2, <1>3, <1>5, StepStays

LEMMA LoadLocalStep == ASSUME VInv, IInv', LoadLocal PROVE RunningStep
  <1>1. Running({"LOAD_LOCAL"})
    BY DEF LoadLocal
  <1> QED BY <1>1, EffectTable, TakenKeeps, PushStays DEF LoadLocal

LEMMA StoreLocalStep == ASSUME VInv, IInv', StoreLocal PROVE RunningStep
  <1>1. Running({"STORE_LOCAL"})
    BY DEF StoreLocal
  <1>2. ~NeedsValues(1) /\ Keeps(Below(1)) /\ status = "running"
    BY <1>1, EffectTable, TakenKeeps
  <1>3. CASE Stop("panic", Below(1))
    BY <1>1, <1>2, <1>3, StopStays
  <1>4. CASE ~Stop("panic", Below(1))
    <2>1. PICK slots :
             /\ stack' = Below(1) /\ status' = status
             /\ frames' = WithTop([Top EXCEPT !.ip = @ + 1, !.locals = slots])
      BY <1>2, <1>4 DEF StoreLocal
    <2> DEFINE f == [Top EXCEPT !.ip = @ + 1, !.locals = slots]
    <2>2. f.fn = Top.fn /\ f.base = Top.base
      BY <1>1, Granted DEF Frame
    <2>3. frames' = WithTop(f)
      BY <2>1
    <2> HIDE DEF f
    <2>4. f \in Frame
      BY <1>1, <2>3 DEF VInv, IInv, TypeOK, WithTop, Running
    <2> QED BY <1>1, <1>2, <2>1, <2>2, <2>3, <2>4 DEF RunningStep, StaysIn, Running
  <1> QED BY <1>3, <1>4

LEMMA LoadGlobalStep == ASSUME VInv, IInv', LoadGlobal PROVE RunningStep
  <1>1. Running({"LOAD_GLOBAL"})
    BY DEF LoadGlobal
  <1> QED BY <1>1, EffectTable, TakenKeeps, PushStays DEF LoadGlobal

LEMMA StoreGlobalStep == ASSUME VInv, StoreGlobal PROVE RunningStep
  <1>1. Running({"STORE_GLOBAL"})
    BY DEF StoreGlobal
  <1> QED BY <1>1, EffectTable, TakenKeeps, StepStays DEF StoreGlobal

LEMMA UnaryStep == ASSUME VInv, IInv', Unary PROVE RunningStep
  <1>1. Running(UnaryOps)
    BY DEF Unary
  <1> QED BY <1>1, EffectTable, TakenKeeps, PushStays, StopStays DEF Unary

LEMMA BinaryStep == ASSUME VInv, IInv', Binary PROVE RunningStep
  <1>1. Running(BinaryOps)
    BY DEF Binary
  <1> QED BY <1>1, EffectTable, TakenKeeps, PushStays, StopStays DEF Binary

LEMMA DivideStep == ASSUME VInv, IInv', Divide PROVE RunningStep
  <1>1. Running(DivOps)
    BY DEF Divide
  <1> QED BY <1>1, EffectTable, TakenKeeps, PushStays, StopStays DEF Divide

LEMMA StrConcatStep == ASSUME VInv, IInv', StrConcat PROVE RunningStep
  <1>1. Running({"STR_CONCAT"})
    BY DEF StrConcat
  <1> QED BY <1>1, EffectTable, TakenKeeps, PushStays, StopStays DEF StrConcat

LEMMA AllocStep == ASSUME VInv, IInv', Alloc PROVE RunningStep
  <1>1. Running({"ALLOC"})
    BY DEF Alloc
  <1> QED BY <1>1, EffectTable, TakenKeeps, PushStays, StopStays DEF Alloc

LEMMA LoadPtrStep == ASSUME VInv, IInv', LoadPtr PROVE RunningStep
  <1>1. Running({"LOAD_PTR"})
    BY DEF LoadPtr
  <1> QED BY <1>1, EffectTable, TakenKeeps, PushStays, StopStays DEF LoadPtr

LEMMA StorePtrStep == ASSUME VInv, StorePtr PROVE RunningStep
  <1>1. Running({"STORE_PTR"})
    BY DEF StorePtr
  <1> QED BY <1>1, EffectTable, TakenKeeps, StepStays DEF StorePtr

LEMMA PrintStep == ASSUME VInv, PrintValue PROVE RunningStep
  <1>1. Running(PrintOps)
    BY DEF PrintValue
  <1> QED BY <1>1, EffectTable, TakenKeeps, StepStays DEF PrintValue

(* The instructions that look at no value.                                  *)
LEMMA StackKeeps ==
  ASSUME VInv, NEW ops, Running(ops)
  PROVE  Keeps(stack) /\ status = "running"
  <1>1. 0 \in 0 .. H
    BY Granted
  <1> QED BY <1>1, BelowKeeps DEF Running

LEMMA QuietStep == ASSUME VInv, Quiet PROVE RunningStep
  BY StackKeeps, StepStays DEF Quiet

LEMMA HaltStep == ASSUME VInv, Halt \/ Unimplemented PROVE RunningStep
  BY StackKeeps, StopStays DEF Halt, Unimplemented

LEMMA GotoStep == ASSUME VInv, Goto PROVE RunningStep
  BY StackKeeps, OperandsOfIns, JumpStays DEF Goto, VInv

LEMMA BranchStep == ASSUME VInv, Branch PROVE RunningStep
  <1>1. Running(BranchOps)
    BY DEF Branch
  <1>2. Ins.op \in BranchOps /\ Top.ip + 1 \in Nat
    BY <1>1, Granted DEF Running, Frame
  <1>3. Operands(Ins) = 1
    BY <1>2 DEF Operands, BranchOps, UnaryOps, PrintOps, BinaryOps, IntBinOps,
           FltBinOps, IntCmpOps, LogicOps, DivOps
  <1>4. ~NeedsValues(1) /\ 1 \in 0 .. H /\ status = "running"
    BY <1>1, <1>3, NoShortage, OperandsGranted DEF Running
  <1>5. Keeps(Below(1))
    BY <1>1, <1>4, BelowKeeps
  <1>6. AsUsize(Ins.a) \in Nat
    BY <1>1, OperandsOfIns DEF VInv
  <1>7. /\ stack' = Below(1) /\ status' = status
        /\ frames' \in {Jump(AsUsize(Ins.a)), Jump(Top.ip + 1)}
    BY <1>4 DEF Branch, Stepped
  <1> QED BY <1>1, <1>2, <1>4, <1>5, <1>6, <1>7, JumpStays

LEMMA CallStep == ASSUME VInv, Call PROVE RunningStep
  <1>1. Running({"CALL"})
    BY DEF Call
  <1>2. /\ AsUsize(Ins.a) = Ins.a /\ AsUsize(Ins.b) = Ins.b
        /\ Ins.a \in Functions(cert) /\ Ins.b \in 0 .. H /\ ~NeedsValues(Ins.b)
    BY <1>1, CallGranted
  <1>3. Keeps(Below(Ins.b)) /\ Keeps(stack) /\ Ins.b \in 0 .. Len(stack) - Top.base
    BY <1>1, <1>2, BelowKeeps
  <1>4. CASE Stop("panic", stack)
    BY <1>1, <1>3, <1>4, StopStays
  <1>5. CASE CallFn(Ins.a, Args(Ins.b), Stepped, Below(Ins.b))
    <2>1. cert.module = module /\ ~(Ins.a >= Len(module.functions)) /\ Ins.a \in Nat
      BY <1>1, <1>2 DEF Functions, VInv, StackAddsUp, Running, IInv, TypeOK, Module
    <2>2. stack' = Below(Ins.b)
      BY <1>5 DEF CallFn
    <2>3. CASE frames' = Stepped /\ status' = "panic"
      BY <1>1, <1>3, <2>2, <2>3, StepStays
    <2>4. CASE /\ status' = "running"
               /\ frames' = Append(Stepped, NewFrame(Ins.a, Args(Ins.b), Len(stack')))
      BY <1>1, <1>3, <2>1, <2>2, <2>4 DEF RunningStep, CallsOut, Running
    <2> QED BY <1>5, <2>1, <2>2, <2>3, <2>4 DEF CallFn
  <1> QED BY <1>2, <1>4, <1>5 DEF Call

(* Cutting down to the base keeps exactly what lies under it.               *)
LEMMA CutKeeps ==
  ASSUME VInv, NEW ops, Running(ops), NEW n \in 0 .. H
  PROVE  LET rest == Prefix(Below(n), Top.base)
         IN  Keeps(rest) /\ Len(rest) = Top.base
  <1> DEFINE s == Below(n)
             rest == Prefix(s, Top.base)
  <1>1. Keeps(s) /\ rest \in Seq(Value) /\ Len(rest) = Top.base /\ Top.base \in Nat
    BY BelowKeeps, CutToBase, Granted DEF Frame
  <1>2. /\ s \in Seq(Value) /\ Len(s) >= Top.base
        /\ \A i \in 1 .. Top.base : s[i] = stack[i]
    BY <1>1 DEF Keeps
  <1> HIDE DEF s
  <1>3. \A i \in 1 .. Top.base : rest[i] = s[i]
    BY <1>1, <1>2 DEF Prefix
  <1>4. Keeps(rest)
    BY <1>1, <1>2, <1>3 DEF Keeps
  <1> QED BY <1>1, <1>4 DEF s

LEMMA TailCallStep == ASSUME VInv, TailCall PROVE RunningStep
  <1>1. Running({"TAIL_CALL"}) /\ status = "running" /\ frames # <<>>
    BY DEF TailCall, Running
  <1>2. /\ AsUsize(Ins.a) = Ins.a /\ AsUsize(Ins.b) = Ins.b
        /\ Ins.a \in Functions(cert) /\ Ins.b \in 0 .. H /\ ~NeedsValues(Ins.b)
    BY <1>1, CallGranted
  <1> DEFINE rest == Prefix(Below(Ins.b), Top.base)
  <1>3. Keeps(stack) /\ Ins.b \in 0 .. Len(stack) - Top.base
    BY <1>1, <1>2, BelowKeeps
  <1>4. Keeps(rest) /\ Len(rest) = Top.base
    BY <1>1, <1>2, CutKeeps
  <1> HIDE DEF rest
  <1>5. CASE Stop("panic", stack)
    BY <1>1, <1>3, <1>5, StopStays
  <1>6. CASE CallFn(Ins.a, Args(Ins.b), Callers, rest)
    <2>1. cert.module = module /\ ~(Ins.a >= Len(module.functions)) /\ Ins.a \in Nat
      BY <1>1, <1>2 DEF Functions, VInv, StackAddsUp, Running, IInv, TypeOK, Module
    <2>2. stack' = rest
      BY <1>6 DEF CallFn
    <2>3. CASE frames' = Callers /\ status' = "panic"
      BY <1>1, <1>4, <2>2, <2>3 DEF RunningStep, Leaves
    <2>4. CASE /\ status' = "running"
               /\ frames' = Append(Callers, NewFrame(Ins.a, Args(Ins.b), Len(stack')))
      BY <1>1, <1>3, <1>4, <2>1, <2>2, <2>4 DEF RunningStep, Replaces
    <2> QED BY <1>6, <2>1, <2>2, <2>3, <2>4 DEF CallFn
  <1> QED BY <1>2, <1>5, <1>6 DEF TailCall, rest

LEMMA ReturnStep == ASSUME VInv, IInv', Return PROVE RunningStep
  <1>1. Running({"RETURN"}) /\ status = "running" /\ frames # <<>>
    BY DEF Return, Running
  <1>2. 1 \in 0 .. H /\ ~NeedsValues(1) /\ Len(stack) = Top.base + H /\ H >= 1
    BY <1>1, ReturnGranted, Granted
  <1> DEFINE rest == Prefix(Below(1), Top.base)
  <1>3. Keeps(rest) /\ Len(rest) = Top.base /\ Top.base \in Nat
    BY <1>1, <1>2, CutKeeps, Granted DEF Frame
  <1> HIDE DEF rest
  <1>4. frames' = Callers /\ stack' \in Seq(Value)
    BY <1>2 DEF Return, IInv, TypeOK
  <1>5. CASE stack' = rest /\ status' = "overflow"
    BY <1>1, <1>3, <1>4, <1>5 DEF RunningStep, Leaves
  <1>6. CASE stack' = Append(rest, Nth(1)) /\ status' = Ended
    <2>1. rest \in Seq(Value) /\ \A i \in 1 .. Top.base : rest[i] = stack[i]
      BY <1>3 DEF Keeps
    <2>2. /\ Len(stack') = Top.base + 1 /\ stack'[Top.base + 1] = Nth(1)
          /\ \A i \in 1 .. Top.base : stack'[i] = rest[i]
      BY <1>3, <1>6, <2>1
    <2>3. Keeps(stack')
      BY <1>3, <1>4, <2>1, <2>2 DEF Keeps
    <2>4. Nth(1) = stack[Len(stack)]
      BY <1>2, DepthType DEF Nth, VInv
    <2> QED BY <1>1, <1>2, <1>3, <1>4, <1>6, <2>2, <2>3, <2>4, Granted
            DEF RunningStep, Leaves, Ended
  <1> QED BY <1>2, <1>5, <1>6 DEF Return, rest

LEMMA ReturnVoidStep == ASSUME VInv, ReturnVoid PROVE RunningStep
  <1>1. Running({"RETURN_VOID"}) /\ status = "running" /\ frames # <<>>
    BY DEF ReturnVoid, Running
  <1>2. 0 \in 0 .. H
    BY <1>1, Granted
  <1>3. Below(0) = stack
    BY <1>1, <1>2, CutToBase
  <1>4. Keeps(Prefix(stack, Top.base)) /\ Len(Prefix(stack, Top.base)) = Top.base
    BY <1>1, <1>2, <1>3, CutKeeps
  <1> QED BY <1>1, <1>4 DEF ReturnVoid, RunningStep, Leaves, Ended

(* Running off the end leaves on the stack what the function's arity says.  *)
LEMMA FallOffStep == ASSUME VInv, FallOff PROVE RunningStep
  <1>1. /\ status = "running" /\ frames # <<>> /\ frames \in Seq(Frame)
        /\ stack \in Seq(Value) /\ Len(stack) \in Nat
        /\ Top \in Frame /\ Top.base \in Nat /\ Top.ip \in Nat
    <2>1. frames # <<>> /\ frames \in Seq(Frame) /\ stack \in Seq(Value)
      BY DEF FallOff, VInv, IInv, TypeOK
    <2>2. Top \in Frame
      BY <2>1 DEF Top
    <2> QED BY <2>1, <2>2 DEF FallOff, Frame
  <1>2. Len(stack) = Top.base + FrameHeight(Top) /\ Top.fn \in Functions(cert)
        /\ cert.module = module /\ cert \in Certified
    <2>1. Len(frames) \in DOMAIN frames /\ Top = frames[Len(frames)]
      BY <1>1 DEF Top
    <2> QED BY <1>1, <2>1 DEF VInv, StackAddsUp, GrantedTop, GrantedFrames
  <1>3. FrameHeight(Top) = Arity(cert, Top.fn) /\ Arity(cert, Top.fn) \in {0, 1}
    <2>1. ~(Top.ip < Len(CodeOf(cert, Top.fn)))
      <3>1. /\ module.functions \in Seq(Function)
            /\ Top.fn + 1 \in 1 .. Len(module.functions)
        BY <1>1, <1>2 DEF Functions, VInv, IInv, TypeOK, Module
      <3>2. module.functions[Top.fn + 1] \in Function
        BY <3>1
      <3>3. Code(Top) \in Seq(Instr) /\ CodeOf(cert, Top.fn) = Code(Top)
        BY <1>2, <3>2 DEF Code, CodeOf, Function
      <3> QED BY <1>1, <3>3 DEF FallOff
    <2> QED BY <1>1, <1>2, <2>1, HeightType DEF FrameHeight, Height
  <1>4. Keeps(stack)
    BY <1>1, <1>2, <1>3 DEF Keeps
  <1> QED BY <1>1, <1>2, <1>3, <1>4 DEF FallOff, RunningStep, Leaves, Ended

(* Every step but the start is one of the four.                             *)
LEMMA EveryStep ==
  ASSUME VInv, VInv', VNext
  PROVE  Start \/ RunningStep
  BY PushStep, PopStep, DupStep, SwapStep, LoadLocalStep, StoreLocalStep,
     LoadGlobalStep, StoreGlobalStep, UnaryStep, BinaryStep, DivideStep,
     StrConcatStep, AllocStep, LoadPtrStep, StorePtrStep, PrintStep, QuietStep,
     HaltStep, GotoStep, BranchStep, CallStep, TailCallStep, ReturnStep,
     ReturnVoidStep, FallOffStep DEF VNext, Next, VInv

-----------------------------------------------------------------------------
(* Bases stay sorted. *)

LEMMA FramesType ==
  ASSUME VInv, status = "running"
  PROVE  /\ frames \in Seq(Frame) /\ Len(frames) \in Nat \ {0}
         /\ DOMAIN frames = 1 .. Len(frames)
         /\ Top = frames[Len(frames)] /\ Top \in Frame
         /\ Top.base \in Nat /\ Top.ip + 1 \in Nat
  <1>1. frames \in Seq(Frame) /\ frames # <<>>
    BY DEF VInv, IInv, TypeOK, RunningHasFrame
  <1>2. Len(frames) \in Nat \ {0} /\ DOMAIN frames = 1 .. Len(frames)
    BY <1>1
  <1>3. Top = frames[Len(frames)] /\ Top \in Frame
    BY <1>1, <1>2 DEF Top
  <1>4. Top.base \in Nat /\ Top.ip + 1 \in Nat
    BY <1>3 DEF Frame
  <1> QED BY <1>1, <1>2, <1>3, <1>4

LEMMA CallersType ==
  ASSUME VInv, status = "running"
  PROVE  /\ Callers \in Seq(Frame) /\ Len(Callers) = Len(frames) - 1
         /\ \A i \in 1 .. Len(frames) - 1 : Callers[i] = frames[i]
  <1> DEFINE n == Len(frames) - 1
  <1>1. frames \in Seq(Frame) /\ n \in Nat /\ n <= Len(frames)
    BY FramesType
  <1>2. Callers = SubSeq(frames, 1, n)
    BY DEF Callers
  <1> HIDE DEF n
  <1>3. /\ Callers \in Seq(Frame) /\ Len(Callers) = n
        /\ \A i \in 1 .. n : Callers[i] = frames[i]
    BY <1>1, <1>2, FirstOf
  <1> QED BY <1>3 DEF n

LEMMA WithTopType ==
  ASSUME VInv, status = "running", NEW f \in Frame, frames' = WithTop(f)
  PROVE  /\ frames' \in Seq(Frame) /\ Len(frames') = Len(frames)
         /\ frames'[Len(frames)] = f
         /\ \A i \in 1 .. Len(frames) - 1 : frames'[i] = frames[i]
  <1>1. frames \in Seq(Frame) /\ Len(frames) \in Nat \ {0}
    BY FramesType
  <1>2. frames' = [frames EXCEPT ![Len(frames)] = f]
    BY DEF WithTop
  <1> QED BY <1>1, <1>2

(* CALL: the waiting caller has moved on by one instruction.                *)
LEMMA CalledType ==
  ASSUME VInv, status = "running", NEW f, f \in Frame, frames' = Append(Stepped, f)
  PROVE  /\ frames' \in Seq(Frame) /\ Len(frames') = Len(frames) + 1
         /\ frames'[Len(frames) + 1] = f
         /\ frames'[Len(frames)] = [Top EXCEPT !.ip = Top.ip + 1]
         /\ \A i \in 1 .. Len(frames) - 1 : frames'[i] = frames[i]
  <1> DEFINE n == Len(frames)
             top == [Top EXCEPT !.ip = Top.ip + 1]
  <1>1. frames \in Seq(Frame) /\ n \in Nat \ {0} /\ top \in Frame
    BY FramesType DEF Frame
  <1> HIDE DEF top
  <1>2. /\ Stepped \in Seq(Frame) /\ Len(Stepped) = n /\ Stepped[n] = top
        /\ \A i \in 1 .. n - 1 : Stepped[i] = frames[i]
    BY <1>1 DEF Stepped, Jump, WithTop, top
  <1> HIDE DEF n
  <1>3. /\ frames' \in Seq(Frame) /\ Len(frames') = n + 1 /\ frames'[n + 1] = f
        /\ \A i \in 1 .. n : frames'[i] = Stepped[i]
    BY <1>1, <1>2
  <1> QED BY <1>1, <1>2, <1>3 DEF n, top

LEMMA ReplacedType ==
  ASSUME VInv, status = "running", NEW f, f \in Frame, frames' = Append(Callers, f)
  PROVE  /\ frames' \in Seq(Frame) /\ Len(frames') = Len(frames)
         /\ frames'[Len(frames)] = f
         /\ \A i \in 1 .. Len(frames) - 1 : frames'[i] = frames[i]
  <1> DEFINE n == Len(frames)
  <1>1. /\ Callers \in Seq(Frame) /\ Len(Callers) = n - 1 /\ n \in Nat \ {0}
        /\ \A i \in 1 .. n - 1 : Callers[i] = frames[i]
    BY CallersType, FramesType
  <1> HIDE DEF n
  <1>2. /\ frames' \in Seq(Frame) /\ Len(frames') = n /\ frames'[n] = f
        /\ \A i \in 1 .. n - 1 : frames'[i] = Callers[i]
    BY <1>1
  <1> QED BY <1>1, <1>2 DEF n

(* The frame a call enters is well typed, because the next state is.        *)
LEMMA EnteredType ==
  ASSUME VInv, status = "running", IInv', NEW f,
         frames' = Append(Stepped, f) \/ frames' = Append(Callers, f)
  PROVE  f \in Frame
  <1>1. PICK s \in Seq(Frame) : frames' = Append(s, f)
    <2>1. Callers \in Seq(Frame)
      BY CallersType
    <2>2. Stepped \in Seq(Frame)
      <3>1. [Top EXCEPT !.ip = Top.ip + 1] \in Frame
        BY FramesType DEF Frame
      <3> QED BY <3>1, FramesType DEF Stepped, Jump, WithTop
    <2> QED BY <2>1, <2>2
  <1>2. frames' \in Seq(Frame)
    BY DEF IInv, TypeOK
  <1>3. Len(s) + 1 \in 1 .. Len(frames') /\ frames'[Len(s) + 1] = f
    BY <1>1
  <1> QED BY <1>2, <1>3

LEMMA SortedKept ==
  ASSUME CInv, IInv', RunningStep
  PROVE  BasesSorted'
  <1> DEFINE n == Len(frames)
  <1> USE DEF CInv
  <1>1. /\ status = "running" /\ n \in Nat \ {0} /\ Top = frames[n] /\ Top.base \in Nat
        /\ \A i, j \in 1 .. n : i <= j => frames[i].base <= frames[j].base
        /\ \A i \in 1 .. n : frames[i].base \in Nat
    <2>1. status = "running"
      BY DEF RunningStep
    <2>2. /\ frames \in Seq(Frame) /\ n \in Nat \ {0} /\ DOMAIN frames = 1 .. n
          /\ Top = frames[n] /\ Top.base \in Nat
      BY <2>1, FramesType
    <2> HIDE DEF n
    <2>3. \A i \in 1 .. n : frames[i] \in Frame
      BY <2>2
    <2> QED BY <2>1, <2>2, <2>3 DEF BasesSorted, Frame
  <1>2. CASE StaysIn
    <2>1. PICK f \in Frame : f.base = Top.base /\ frames' = WithTop(f)
      BY <1>2 DEF StaysIn
    <2>2. /\ frames' \in Seq(Frame) /\ Len(frames') = n /\ frames'[n] = f
          /\ \A i \in 1 .. n - 1 : frames'[i] = frames[i]
      BY <1>1, <2>1, WithTopType
    <2> HIDE DEF n
    <2> QED BY <1>1, <2>1, <2>2 DEF BasesSorted
  <1>3. CASE CallsOut
    <2>1. PICK k \in 0 .. Len(stack) - Top.base, g \in Nat :
             /\ stack' = Below(k)
             /\ frames' = Append(Stepped, NewFrame(g, Args(k), Len(stack')))
      BY <1>3 DEF CallsOut
    <2> DEFINE f == NewFrame(g, Args(k), Len(stack'))
               top == [Top EXCEPT !.ip = Top.ip + 1]
    <2>2. f \in Frame /\ f.base = Len(stack')
      <3>1. frames' = Append(Stepped, f)
        BY <2>1
      <3> QED BY <1>1, <3>1, EnteredType DEF NewFrame
    <2>3. Len(stack') >= Top.base
      BY <1>1, <2>1, OperandTypes, DepthType DEF VInv
    <2>4. top.base = Top.base
      BY <1>1, FramesType DEF Frame
    <2>5. frames' = Append(Stepped, f)
      BY <2>1
    <2> HIDE DEF f
    <2>6. /\ frames' \in Seq(Frame) /\ Len(frames') = n + 1 /\ frames'[n + 1] = f
          /\ frames'[n] = top
          /\ \A i \in 1 .. n - 1 : frames'[i] = frames[i]
      BY <1>1, <2>2, <2>5, CalledType
    <2>7. f.base \in Nat /\ f.base >= Top.base
      BY <2>2, <2>3 DEF Frame
    <2> HIDE DEF n, top
    <2>8. \A i \in 1 .. n : frames'[i].base = frames[i].base
      <3> TAKE i \in 1 .. n
      <3>1. i = n \/ i \in 1 .. n - 1
        BY <1>1
      <3> QED BY <1>1, <2>4, <2>6, <3>1
    <2>9. \A i \in 1 .. n : frames[i].base <= Top.base
      BY <1>1
    <2>10. \A i, j \in 1 .. n + 1 : i <= j => frames'[i].base <= frames'[j].base
      <3> TAKE i, j \in 1 .. n + 1
      <3>1. (j = n + 1 \/ j \in 1 .. n) /\ (i = n + 1 \/ i \in 1 .. n)
        BY <1>1
      <3> QED BY <1>1, <2>6, <2>7, <2>8, <2>9, <3>1
    <2>11. DOMAIN frames' = 1 .. n + 1
      BY <1>1, <2>6
    <2> QED BY <2>10, <2>11 DEF BasesSorted
  <1>4. CASE Leaves
    <2>1. /\ frames' \in Seq(Frame) /\ Len(frames') = n - 1
          /\ \A i \in 1 .. n - 1 : frames'[i] = frames[i]
      BY <1>1, <1>4, CallersType DEF Leaves
    <2> HIDE DEF n
    <2> QED BY <1>1, <2>1 DEF BasesSorted
  <1>5. CASE Replaces
    <2>1. PICK k \in 0 .. Len(stack) - Top.base, g \in Nat :
             /\ Len(stack') = Top.base
             /\ frames' = Append(Callers, NewFrame(g, Args(k), Len(stack')))
      BY <1>5 DEF Replaces
    <2> DEFINE f == NewFrame(g, Args(k), Len(stack'))
    <2>2. f.base = Top.base /\ frames' = Append(Callers, f)
      BY <2>1 DEF NewFrame
    <2> HIDE DEF f
    <2>3. f \in Frame
      BY <1>1, <2>2, EnteredType
    <2>4. /\ frames' \in Seq(Frame) /\ Len(frames') = n /\ frames'[n] = f
          /\ \A i \in 1 .. n - 1 : frames'[i] = frames[i]
      BY <1>1, <2>2, <2>3, ReplacedType
    <2> HIDE DEF n
    <2> QED BY <1>1, <2>2, <2>4 DEF BasesSorted
  <1> QED BY <1>2, <1>3, <1>4, <1>5 DEF RunningStep

(* The start enters at most one frame, on the empty stack.                  *)
LEMMA StartShape ==
  ASSUME Start
  PROVE  /\ status = "loaded" /\ stack' = <<>>
         /\ \/ frames' = <<>> /\ status' \in {"badfn", "panic"}
            \/ frames' = Append(<<>>, NewFrame(module.entry, <<>>, 0)) /\ status' = "running"
  BY DEF Start, CallFn

LEMMA CInvKept == CInv /\ [VNext]_<<vars, cert>> => CInv'
  <1> SUFFICES ASSUME CInv, [VNext]_<<vars, cert>> PROVE CInv'
    OBVIOUS
  <1> USE DEF CInv
  <1>1. VInv'
    BY VNextKept
  <1>2. CASE UNCHANGED <<vars, cert>>
    BY <1>1, <1>2 DEF vars, BasesSorted, NothingEntered
  <1>3. CASE VNext /\ Start
    <2>1. /\ frames' = <<>> \/ frames' = <<NewFrame(module.entry, <<>>, 0)>>
          /\ status' # "loaded"
      BY <1>3, StartShape
    <2>2. status' = "running" => frames' = <<NewFrame(module.entry, <<>>, 0)>>
      BY <1>3, StartShape
    <2>3. BasesSorted'
      <3> SUFFICES ASSUME status' = "running", NEW i \in DOMAIN frames', NEW j \in DOMAIN frames'
                   PROVE  frames'[i].base <= frames'[j].base
        BY DEF BasesSorted
      <3>1. i = 1 /\ j = 1 /\ frames'[1].base = 0
        BY <2>2 DEF NewFrame
      <3> QED BY <3>1
    <2> QED BY <1>1, <2>1, <2>3 DEF NothingEntered
  <1>4. CASE VNext /\ RunningStep
    <2>1. BasesSorted'
      BY <1>1, <1>4, SortedKept DEF VInv
    <2>2. status' # "loaded"
      BY <1>4 DEF RunningStep, StaysIn, CallsOut, Leaves, Replaces
    <2> QED BY <1>1, <2>1, <2>2 DEF NothingEntered
  <1> QED BY <1>1, <1>2, <1>3, <1>4, EveryStep

LEMMA CInvariance == VSpec => []CInv
  <1>1. VInit => CInv
    BY VInitKept DEF VInit, Fresh, CInv, BasesSorted, NothingEntered
  <1> QED BY <1>1, CInvKept, PTL DEF VSpec

-----------------------------------------------------------------------------
(* Activations, seen as a function of any frames and any stack.             *)

OpsOf(fr, st, i) ==
    SubSeq(st, fr[i].base + 1, IF i = Len(fr) THEN Len(st) ELSE fr[i + 1].base)
ActOf(fr, st, i) ==
    [fn |-> fr[i].fn, ip |-> fr[i].ip, locals |-> fr[i].locals, ops |-> OpsOf(fr, st, i)]
Acts(fr, st) == [i \in 1 .. Len(fr) |-> ActOf(fr, st, i)]

LEMMA ActsAreActivations ==
  /\ Activations = Acts(frames, stack)
  /\ Activations' = Acts(frames', stack')
  BY DEF Activations, Ops, Acts, ActOf, OpsOf

LEMMA ActsType ==
  ASSUME NEW fr \in Seq(Frame), NEW st
  PROVE  /\ Acts(fr, st) \in Seq({ActOf(fr, st, i) : i \in 1 .. Len(fr)})
         /\ Len(Acts(fr, st)) = Len(fr)
         /\ \A i \in 1 .. Len(fr) : Acts(fr, st)[i] = ActOf(fr, st, i)
         /\ Acts(fr, st) = <<>> <=> fr = <<>>
  <1> DEFINE n == Len(fr)
             S == {ActOf(fr, st, i) : i \in 1 .. n}
  <1>1. n \in Nat /\ (fr = <<>> <=> n = 0)
    BY DEF n
  <1>2. Acts(fr, st) \in [1 .. n -> S] /\ DOMAIN Acts(fr, st) = 1 .. n
    BY DEF Acts
  <1> HIDE DEF n, S
  <1>3. Acts(fr, st) \in Seq(S)
    BY <1>1, <1>2, SeqDef
  <1>4. Len(Acts(fr, st)) = n
    BY <1>1, <1>2, <1>3, LenProperties
  <1>5. Acts(fr, st) = <<>> <=> n = 0
    BY <1>3, <1>4
  <1> QED BY <1>1, <1>3, <1>4, <1>5 DEF Acts, n, S

(* Sequences that agree up to some place have the same parts before it.     *)
LEMMA SamePart ==
  ASSUME NEW S, NEW T, NEW s \in Seq(S), NEW t \in Seq(T), NEW a \in Nat, NEW b \in Nat,
         b <= Len(s), b <= Len(t), \A i \in 1 .. b : s[i] = t[i]
  PROVE  SubSeq(s, a + 1, b) = SubSeq(t, a + 1, b)
  <1>1. \A i \in a + 1 .. b : s[i] = t[i]
    OBVIOUS
  <1> QED BY <1>1

(* The values of a sequence after place b, up to place n.                   *)
IsPart(p, s, b, n) == Len(p) = n - b /\ \A i \in 1 .. n - b : p[i] = s[b + i]

LEMMA PartIs ==
  ASSUME NEW S, NEW s \in Seq(S), NEW lo \in Nat, NEW n \in Nat, n <= Len(s),
         NEW b \in Nat, lo = b + 1, b <= n
  PROVE  SubSeq(s, lo, n) \in Seq(S) /\ IsPart(SubSeq(s, lo, n), s, b, n)
  <1>1. lo \in Int /\ n \in Int /\ n - lo + 1 = n - b
    OBVIOUS
  <1>2. \A i \in lo .. n : s[i] \in S
    <2>1. \A i \in lo .. n : i \in 1 .. Len(s)
      OBVIOUS
    <2> QED BY <2>1
  <1>3. /\ SubSeq(s, lo, n) \in Seq(S)
        /\ Len(SubSeq(s, lo, n)) = IF lo <= n THEN n - lo + 1 ELSE 0
        /\ \A i \in 1 .. n - lo + 1 : SubSeq(s, lo, n)[i] = s[lo + i - 1]
    BY <1>1, <1>2, SubSeqProperties
  <1>4. Len(SubSeq(s, lo, n)) = n - b
    <2>1. (IF lo <= n THEN n - lo + 1 ELSE 0) = n - b
      BY <1>1
    <2> QED BY <1>3, <2>1
  <1>5. ASSUME NEW i \in 1 .. n - b PROVE SubSeq(s, lo, n)[i] = s[b + i]
    <2>1. i \in 1 .. n - lo + 1 /\ lo + i - 1 = b + i
      BY <1>1
    <2> QED BY <1>3, <2>1
  <1> QED BY <1>3, <1>4, <1>5 DEF IsPart

(* The operands of the running frame.                                       *)
LEMMA TopOps ==
  ASSUME NEW fr \in Seq(Frame), fr # <<>>, NEW st \in Seq(Value),
         NEW n, n = Len(fr), NEW b, b = fr[n].base, b <= Len(st)
  PROVE  /\ OpsOf(fr, st, n) \in Seq(Value)
         /\ Len(OpsOf(fr, st, n)) = Len(st) - b
         /\ \A i \in 1 .. Len(st) - b : OpsOf(fr, st, n)[i] = st[b + i]
  <1>1. n \in 1 .. Len(fr) /\ b \in Nat /\ Len(st) \in Nat
    <2>1. n \in 1 .. Len(fr)
      OBVIOUS
    <2>2. fr[n] \in Frame
      BY <2>1
    <2> QED BY <2>1, <2>2 DEF Frame
  <1> DEFINE lo == b + 1
             l == Len(st)
  <1>2. lo \in Nat /\ lo = b + 1 /\ OpsOf(fr, st, n) = SubSeq(st, lo, l)
    BY <1>1 DEF OpsOf
  <1>3. l \in Nat /\ l <= Len(st) /\ b \in Nat /\ b <= l
    BY <1>1
  <1> HIDE DEF lo, l
  <1>4. SubSeq(st, lo, l) \in Seq(Value) /\ IsPart(SubSeq(st, lo, l), st, b, l)
    BY <1>2, <1>3, PartIs
  <1> QED BY <1>2, <1>4 DEF l, IsPart

-----------------------------------------------------------------------------
(* Each shape of step, seen on the activations. *)

LEMMA SameFront ==
  ASSUME NEW S, NEW T, NEW s \in Seq(S), NEW t \in Seq(T), NEW n \in Nat \ {0},
         Len(s) = n, Len(t) = n, \A i \in 1 .. n - 1 : s[i] = t[i]
  PROVE  Calls!Front(s) = Calls!Front(t)
  <1>1. SubSeq(s, 0 + 1, n - 1) = SubSeq(t, 0 + 1, n - 1)
    <2>1. n - 1 \in Nat /\ n - 1 <= Len(s) /\ n - 1 <= Len(t) /\ 0 \in Nat
      OBVIOUS
    <2> QED BY <2>1, SamePart
  <1> QED BY <1>1 DEF Calls!Front

LEMMA FrontType ==
  ASSUME NEW S, NEW s \in Seq(S), Len(s) > 0
  PROVE  /\ Calls!Front(s) \in Seq(S) /\ Len(Calls!Front(s)) = Len(s) - 1
         /\ \A i \in 1 .. Len(s) - 1 : Calls!Front(s)[i] = s[i]
  <1> DEFINE n == Len(s) - 1
  <1>1. n \in Int /\ n >= 0 /\ n <= Len(s)
    OBVIOUS
  <1>2. Calls!Front(s) = SubSeq(s, 1, n)
    BY DEF Calls!Front
  <1> HIDE DEF n
  <1>3. /\ Calls!Front(s) \in Seq(S) /\ Len(Calls!Front(s)) = n
        /\ \A i \in 1 .. n : Calls!Front(s)[i] = s[i]
    BY <1>1, <1>2, FirstOf
  <1> QED BY <1>3 DEF n

(* The state before a step: n activations, the last with the values above   *)
(* its base for operands.                                                   *)
LEMMA Before ==
  ASSUME CInv, status = "running"
  PROVE  LET n == Len(frames)
             ops == OpsOf(frames, stack, n)
         IN  /\ frames \in Seq(Frame) /\ n \in Nat \ {0} /\ stack \in Seq(Value)
             /\ Top = frames[n] /\ Top.base \in Nat /\ Top.base <= Len(stack)
             /\ \A i \in 1 .. n : frames[i].base <= Top.base
             /\ ops \in Seq(Value) /\ Len(ops) = Len(stack) - Top.base
             /\ \A i \in 1 .. Len(stack) - Top.base : ops[i] = stack[Top.base + i]
             /\ Len(Activations) = n /\ Activations # <<>>
             /\ \A i \in 1 .. n : Activations[i] = ActOf(frames, stack, i)
             /\ \E S : Activations \in Seq(S)
             /\ ~(status \notin {"loaded", "running"})
  <1> DEFINE n == Len(frames)
             ops == OpsOf(frames, stack, n)
  <1>1. /\ frames \in Seq(Frame) /\ n \in Nat \ {0} /\ DOMAIN frames = 1 .. n
        /\ Top = frames[n] /\ Top \in Frame /\ Top.base \in Nat /\ Top.ip \in Nat
    BY FramesType DEF CInv, Frame
  <1>2. stack \in Seq(Value)
    BY DEF CInv, VInv, IInv, TypeOK
  <1>3. Top.base <= Len(stack)
    <2>1. Len(stack) = Top.base + FrameHeight(Top) /\ FrameHeight(Top) >= 0
          /\ Top.fn \in Functions(cert) /\ cert \in Certified
      BY <1>1 DEF CInv, VInv, StackAddsUp, GrantedTop, GrantedFrames
    <2>2. FrameHeight(Top) \in Int
      BY <1>1, <2>1, HeightType DEF FrameHeight
    <2> QED BY <1>1, <2>1, <2>2
  <1>4. \A i \in 1 .. n : frames[i].base <= Top.base
    BY <1>1 DEF CInv, BasesSorted
  <1>5. /\ ops \in Seq(Value) /\ Len(ops) = Len(stack) - Top.base
        /\ \A i \in 1 .. Len(stack) - Top.base : ops[i] = stack[Top.base + i]
    <2>1. frames # <<>>
      BY <1>1
    <2> HIDE DEF n
    <2> QED BY <1>1, <1>2, <1>3, <2>1, TopOps DEF n
  <1>6. /\ Len(Activations) = n /\ Activations # <<>>
        /\ \A i \in 1 .. n : Activations[i] = ActOf(frames, stack, i)
        /\ \E S : Activations \in Seq(S)
    BY <1>1, ActsType, ActsAreActivations
  <1> QED BY <1>1, <1>2, <1>3, <1>4, <1>5, <1>6

(* Whatever happens above the running frame's base, the first m activations *)
(* stay as they are when their frames do and the next base is where it was. *)
LEMMA CallersAsBefore ==
  ASSUME CInv, status = "running", Keeps(stack'),
         NEW m \in Nat, m < Len(frames), frames' \in Seq(Frame), m <= Len(frames'),
         \A i \in 1 .. m : frames'[i] = frames[i],
         frames[m + 1].base = IF m < Len(frames') THEN frames'[m + 1].base ELSE Len(stack')
  PROVE  /\ \A i \in 1 .. m : Activations'[i] = Activations[i]
         /\ Len(Activations') = Len(frames')
         /\ \A i \in 1 .. Len(frames') : Activations'[i] = ActOf(frames', stack', i)
         /\ \E S : Activations' \in Seq(S)
         /\ Activations' = <<>> <=> frames' = <<>>
  <1>1. /\ frames \in Seq(Frame) /\ Len(frames) \in Nat \ {0} /\ stack \in Seq(Value)
        /\ Top.base \in Nat /\ Top.base <= Len(stack)
        /\ \A i \in 1 .. Len(frames) : frames[i].base <= Top.base
        /\ \A i \in 1 .. Len(frames) : Activations[i] = ActOf(frames, stack, i)
    BY Before
  <1>2. /\ stack' \in Seq(Value) /\ Top.base <= Len(stack')
        /\ \A i \in 1 .. Top.base : stack'[i] = stack[i]
    BY DEF Keeps
  <1>3. \A i \in 1 .. m : frames[i + 1].base <= Top.base
    BY <1>1
  <1>4. \A i \in 1 .. m : ActOf(frames', stack', i) = ActOf(frames, stack, i)
    <2> DEFINE fs == frames'
               ss == stack'
               k  == Top.base
    <2>1. /\ fs \in Seq(Frame) /\ ss \in Seq(Value) /\ k \in Nat
          /\ m <= Len(fs) /\ k <= Len(stack) /\ k <= Len(ss)
          /\ \A i \in 1 .. k : ss[i] = stack[i]
          /\ \A i \in 1 .. m : fs[i] = frames[i]
          /\ \A i \in 1 .. m : frames[i + 1].base <= k
          /\ frames[m + 1].base = IF m < Len(fs) THEN fs[m + 1].base ELSE Len(ss)
      BY <1>1, <1>2, <1>3
    <2> HIDE DEF fs, ss, k
    <2>2. ASSUME NEW i \in 1 .. m
          PROVE  ActOf(fs, ss, i) = ActOf(frames, stack, i)
      <3> DEFINE a == frames[i].base
                 b == frames[i + 1].base
      <3>1. i \in 1 .. Len(frames) /\ i + 1 \in 1 .. Len(frames) /\ i # Len(frames)
        BY <1>1
      <3>2. a \in Nat /\ b \in Nat /\ b <= k
        <4>1. frames[i] \in Frame /\ frames[i + 1] \in Frame
          BY <1>1, <3>1
        <4> QED BY <2>1, <4>1 DEF Frame
      <3>3. OpsOf(frames, stack, i) = SubSeq(stack, a + 1, b)
        BY <3>1 DEF OpsOf
      <3>4. fs[i] = frames[i]
            /\ (IF i = Len(fs) THEN Len(ss) ELSE fs[i + 1].base) = b
        <4>1. CASE i = m
          BY <1>1, <2>1, <4>1
        <4>2. CASE i # m
          BY <1>1, <2>1, <4>2
        <4> QED BY <4>1, <4>2
      <3>5. OpsOf(fs, ss, i) = SubSeq(ss, a + 1, b)
        BY <3>4 DEF OpsOf
      <3> HIDE DEF a, b
      <3>6. SubSeq(ss, a + 1, b) = SubSeq(stack, a + 1, b)
        <4>1. b <= Len(ss) /\ b <= Len(stack) /\ \A j \in 1 .. b : ss[j] = stack[j]
          BY <1>1, <2>1, <3>2
        <4> QED BY <1>1, <2>1, <3>2, <4>1, SamePart
      <3> QED BY <3>3, <3>4, <3>5, <3>6 DEF ActOf
    <2> QED BY <2>2 DEF fs, ss
  <1>5. /\ Len(Activations') = Len(frames')
        /\ \A i \in 1 .. Len(frames') : Activations'[i] = ActOf(frames', stack', i)
        /\ \E S : Activations' \in Seq(S)
        /\ Activations' = <<>> <=> frames' = <<>>
    BY ActsType, ActsAreActivations
  <1> QED BY <1>1, <1>4, <1>5

LEMMA StayingWorks ==
  ASSUME CInv, IInv', status = "running", StaysIn
  PROVE  Calls!Work
  <1> DEFINE n == Len(frames)
  <1>1. PICK f \in Frame : f.fn = Top.fn /\ f.base = Top.base /\ frames' = WithTop(f)
    BY DEF StaysIn
  <1>2. /\ frames' \in Seq(Frame) /\ Len(frames') = n /\ frames'[n] = f
        /\ \A i \in 1 .. n - 1 : frames'[i] = frames[i]
    BY <1>1, WithTopType DEF CInv
  <1>3. /\ n \in Nat \ {0} /\ Activations # <<>> /\ Len(Activations) = n
        /\ Activations[n] = ActOf(frames, stack, n) /\ Top = frames[n]
        /\ \E S : Activations \in Seq(S)
    BY Before
  <1>4. /\ \A i \in 1 .. n - 1 : Activations'[i] = Activations[i]
        /\ Len(Activations') = n /\ Activations'[n] = ActOf(frames', stack', n)
        /\ \E S : Activations' \in Seq(S)
    <2>1. n - 1 \in Nat /\ n - 1 <= Len(frames') /\ n - 1 < Len(frames') /\ n - 1 + 1 = n
      BY <1>2, <1>3
    <2>2. Keeps(stack')
      BY DEF StaysIn
    <2> HIDE DEF n
    <2>3. n - 1 < Len(frames) /\ frames'[n - 1 + 1].base = frames[n - 1 + 1].base
      BY <1>1, <1>2, <1>3, <2>1 DEF n
    <2> DEFINE m == n - 1
    <2>4. m \in Nat /\ m < Len(frames) /\ m < Len(frames') /\ m <= Len(frames')
          /\ frames'[m + 1].base = frames[m + 1].base /\ \A i \in 1 .. m : frames'[i] = frames[i]
      BY <1>2, <2>1, <2>3
    <2> HIDE DEF m
    <2>5. /\ \A i \in 1 .. m : Activations'[i] = Activations[i]
          /\ Len(Activations') = Len(frames')
          /\ \A i \in 1 .. Len(frames') : Activations'[i] = ActOf(frames', stack', i)
          /\ \E S : Activations' \in Seq(S)
      BY <1>2, <2>2, <2>4, CallersAsBefore
    <2> QED BY <1>2, <1>3, <2>5 DEF m
  <1>5. Calls!Front(Activations') = Calls!Front(Activations)
    BY <1>3, <1>4, SameFront
  <1>6. Calls!Last(Activations').fn = Calls!Last(Activations).fn
    BY <1>1, <1>2, <1>3, <1>4 DEF Calls!Last, ActOf
  <1> QED BY <1>3, <1>4, <1>5, <1>6 DEF Calls!Work

-----------------------------------------------------------------------------
(* The arguments are the last values of the running activation, and a frame *)
(* made for them is a fresh activation.                                     *)

LEMMA ArgsAre ==
  ASSUME stack \in Seq(Value), NEW n \in 0 .. Len(stack)
  PROVE  /\ Args(n) \in Seq(Value) /\ Len(Args(n)) = n
         /\ \A i \in 1 .. n : Args(n)[i] = stack[Len(stack) - n + i]
  <1> DEFINE b  == Len(stack) - n
             lo == Len(stack) + 1 - n
             l  == Len(stack)
  <1>1. b \in Nat /\ l \in Nat /\ lo \in Nat /\ b <= l /\ l - b = n /\ lo = b + 1
    OBVIOUS
  <1>2. Args(n) = SubSeq(stack, lo, l) /\ l <= Len(stack)
    BY <1>1 DEF Args
  <1> HIDE DEF b, lo, l
  <1>3. SubSeq(stack, lo, l) \in Seq(Value) /\ IsPart(SubSeq(stack, lo, l), stack, b, l)
    BY <1>1, <1>2, PartIs
  <1> QED BY <1>1, <1>2, <1>3 DEF b, IsPart

LEMMA FreshActivation ==
  ASSUME stack \in Seq(Value), NEW ops \in Seq(Value), Len(ops) <= Len(stack),
         \A i \in 1 .. Len(ops) : ops[i] = stack[Len(stack) - Len(ops) + i],
         NEW n \in 0 .. Len(ops), NEW g, NEW b,
         NEW act, act.ip = 0, act.ops = <<>>,
         act.locals = NewFrame(g, Args(n), b).locals
  PROVE  Calls!IsFresh(act, ops, n)
  <1>1. n \in 0 .. Len(stack) /\ Len(stack) \in Nat /\ Len(ops) \in Nat
    OBVIOUS
  <1>2. Len(Args(n)) = n /\ \A i \in 1 .. n : Args(n)[i] = stack[Len(stack) - n + i]
    BY <1>1, ArgsAre
  <1>3. act.locals = [i \in 1 .. FrameSize(g) |-> IF i <= n THEN Args(n)[i] ELSE Null]
    BY <1>2 DEF NewFrame, Resize
  <1>4. ASSUME NEW i \in DOMAIN act.locals
        PROVE  act.locals[i] = IF i <= n THEN ops[Len(ops) - n + i] ELSE Null
    <2>1. i \in 1 .. FrameSize(g)
          /\ act.locals[i] = IF i <= n THEN Args(n)[i] ELSE Null
      BY <1>3, <1>4
    <2>2. CASE i <= n
      <3> DEFINE j == Len(ops) - n + i
      <3>1. i \in 1 .. n /\ j \in 1 .. Len(ops)
            /\ Len(stack) - Len(ops) + j = Len(stack) - n + i
        BY <1>1, <2>1, <2>2
      <3>2. ops[j] = stack[Len(stack) - Len(ops) + j]
        BY <3>1
      <3> QED BY <1>2, <2>1, <2>2, <3>1, <3>2
    <2>3. CASE ~(i <= n)
      BY <2>1, <2>3
    <2> QED BY <2>2, <2>3
  <1> QED BY <1>4 DEF Calls!IsFresh

(* A frame whose base is the stack's length has no operands.                *)
LEMMA NoOperands ==
  ASSUME NEW fr \in Seq(Frame), NEW st \in Seq(Value), NEW n, n = Len(fr), n \in Nat \ {0},
         fr[n].base = Len(st)
  PROVE  OpsOf(fr, st, n) = <<>>
  <1>1. OpsOf(fr, st, n) = SubSeq(st, Len(st) + 1, Len(st))
    BY DEF OpsOf
  <1> QED BY <1>1, SubSeqEmpty

(* The operands that are left when the last k values are taken.             *)
LEMMA OperandsLeft ==
  ASSUME CInv, status = "running", NEW k \in 0 .. Len(stack) - Top.base,
         NEW ops, ops = OpsOf(frames, stack, Len(frames)),
         NEW rest, rest = Below(k), NEW left, left = SubSeq(rest, Top.base + 1, Len(rest))
  PROVE  /\ Keeps(rest) /\ Len(rest) = Len(stack) - k
         /\ left \in Seq(Value) /\ Len(left) = Len(ops) - k
         /\ left = SubSeq(ops, 1, Len(ops) - k)
  <1> DEFINE b == Top.base
             n == Len(stack) - k
             l == Len(ops) - k
  <1>1. /\ stack \in Seq(Value) /\ b \in Nat /\ b <= Len(stack)
        /\ ops \in Seq(Value) /\ Len(ops) = Len(stack) - b
        /\ \A i \in 1 .. Len(stack) - b : ops[i] = stack[b + i]
    BY Before
  <1>2. n \in Nat /\ n <= Len(stack) /\ n >= b /\ l \in Nat /\ l = n - b
        /\ l <= Len(ops) /\ k \in Nat
    BY <1>1
  <1>3. rest = SubSeq(stack, 1, n)
    BY DEF Below
  <1> HIDE DEF b, n, l
  <1>4. /\ rest \in Seq(Value) /\ Len(rest) = n
        /\ \A i \in 1 .. n : rest[i] = stack[i]
    BY <1>1, <1>2, <1>3, FirstOf
  <1>5. /\ left \in Seq(Value) /\ Len(left) = l
        /\ \A i \in 1 .. l : left[i] = stack[b + i]
    <2> DEFINE lo == b + 1
    <2>1. /\ left = SubSeq(rest, lo, n) /\ n - b = l /\ lo \in Nat /\ lo = b + 1
          /\ rest \in Seq(Value) /\ n \in Nat /\ n <= Len(rest) /\ b \in Nat /\ b <= n
      BY <1>1, <1>2, <1>4 DEF b
    <2> HIDE DEF lo
    <2>a. SubSeq(rest, lo, n) \in Seq(Value) /\ IsPart(SubSeq(rest, lo, n), rest, b, n)
      BY <2>1, PartIs
    <2>2. /\ left \in Seq(Value) /\ Len(left) = l
          /\ \A i \in 1 .. l : left[i] = rest[b + i]
      BY <2>1, <2>a DEF IsPart
    <2>3. ASSUME NEW i \in 1 .. l PROVE left[i] = stack[b + i]
      <3>1. b + i \in 1 .. n
        BY <1>1, <1>2
      <3> QED BY <1>4, <2>2, <3>1
    <2> QED BY <2>2, <2>3
  <1>6. /\ SubSeq(ops, 1, l) \in Seq(Value) /\ Len(SubSeq(ops, 1, l)) = l
        /\ \A i \in 1 .. l : SubSeq(ops, 1, l)[i] = ops[i]
    <2>1. l \in Int /\ l <= Len(ops) /\ l >= 0 /\ ops \in Seq(Value)
      BY <1>1, <1>2
    <2> QED BY <2>1, FirstOf
  <1>7. ASSUME NEW i \in 1 .. Len(left) PROVE left[i] = SubSeq(ops, 1, l)[i]
    <2>1. i \in 1 .. l /\ i \in 1 .. Len(stack) - b
      <3>1. i \in 1 .. l
        BY <1>5
      <3>2. l \in Nat /\ Len(stack) - b \in Nat /\ l <= Len(stack) - b
        BY <1>1, <1>2
      <3> QED BY <3>1, <3>2
    <2>2. ops[i] = stack[b + i]
      BY <1>1, <2>1
    <2> QED BY <1>5, <1>6, <2>1, <2>2
  <1>8. left = SubSeq(ops, 1, l)
    BY <1>5, <1>6, <1>7, SeqEqual
  <1>9. Keeps(rest)
    <2>1. \A i \in 1 .. b : rest[i] = stack[i]
      BY <1>1, <1>2, <1>4
    <2> QED BY <1>1, <1>2, <1>4, <2>1 DEF Keeps, b
  <1> QED BY <1>4, <1>5, <1>8, <1>9 DEF n, l

(* CALL: the caller waits behind its call, without the arguments.           *)
LEMMA CallingCalls ==
  ASSUME CInv, IInv', status = "running", CallsOut
  PROVE  Calls!Call
  <1> DEFINE n   == Len(frames)
             ops == OpsOf(frames, stack, n)
             A   == Activations
             B   == Activations'
  <1>1. PICK k \in 0 .. Len(stack) - Top.base, g \in Nat :
              /\ stack' = Below(k)
              /\ frames' = Append(Stepped, NewFrame(g, Args(k), Len(stack')))
    BY DEF CallsOut
  <1> DEFINE f == NewFrame(g, Args(k), Len(stack'))
  <1>2. f.fn = g /\ f.ip = 0 /\ f.base = Len(stack') /\ f.locals = NewFrame(g, Args(k), 0).locals
    BY DEF NewFrame
  <1>3. f \in Frame /\ frames' = Append(Stepped, f)
    BY <1>1, EnteredType DEF CInv
  <1> HIDE DEF f
  <1>4. /\ frames' \in Seq(Frame) /\ Len(frames') = n + 1 /\ frames'[n + 1] = f
        /\ frames'[n] = [Top EXCEPT !.ip = Top.ip + 1]
        /\ \A i \in 1 .. n - 1 : frames'[i] = frames[i]
    BY <1>3, CalledType DEF CInv
  <1>5. /\ frames \in Seq(Frame) /\ n \in Nat \ {0} /\ stack \in Seq(Value)
        /\ Top = frames[n] /\ Top \in Frame /\ Top.base \in Nat /\ Top.base <= Len(stack)
        /\ ops \in Seq(Value) /\ Len(ops) = Len(stack) - Top.base
        /\ \A i \in 1 .. Len(stack) - Top.base : ops[i] = stack[Top.base + i]
        /\ Len(A) = n /\ A # <<>> /\ A[n] = ActOf(frames, stack, n)
        /\ \E S : A \in Seq(S)
    BY Before, FramesType DEF CInv
  <1>6. frames'[n].base = Top.base /\ frames'[n].fn = Top.fn /\ frames'[n].locals = Top.locals
        /\ frames'[n].ip = Top.ip + 1
    BY <1>4, <1>5 DEF Frame
  <1> DEFINE left == SubSeq(stack', Top.base + 1, Len(stack'))
  <1>7. /\ Keeps(stack') /\ Len(stack') = Len(stack) - k
        /\ left \in Seq(Value) /\ Len(left) = Len(ops) - k
        /\ left = SubSeq(ops, 1, Len(ops) - k)
    BY <1>1, OperandsLeft
  <1> HIDE DEF n, ops, A, B, left
  <1>8. /\ \A i \in 1 .. n - 1 : B[i] = A[i]
        /\ Len(B) = n + 1 /\ \A i \in 1 .. n + 1 : B[i] = ActOf(frames', stack', i)
        /\ \E S : B \in Seq(S)
    <2> DEFINE m == n - 1
    <2>1. m \in Nat /\ m < Len(frames) /\ m < Len(frames') /\ m <= Len(frames') /\ m + 1 = n
      BY <1>4, <1>5 DEF n
    <2> HIDE DEF m
    <2>2. /\ \A i \in 1 .. m : frames'[i] = frames[i]
          /\ frames'[m + 1].base = frames[m + 1].base
      BY <1>4, <1>5, <1>6, <2>1 DEF m
    <2> QED BY <1>4, <1>7, <2>1, <2>2, CallersAsBefore DEF m, A, B
  <1>9. Calls!Front(Calls!Front(B)) = Calls!Front(A)
    <2>1. PICK S : B \in Seq(S)
      BY <1>8
    <2>2. /\ Calls!Front(B) \in Seq(S) /\ Len(Calls!Front(B)) = n
          /\ \A i \in 1 .. n : Calls!Front(B)[i] = B[i]
      <3>1. Len(B) > 0 /\ Len(B) - 1 = n
        BY <1>5, <1>8
      <3> QED BY <2>1, <3>1, FrontType
    <2>3. \A i \in 1 .. n - 1 : Calls!Front(B)[i] = A[i]
      BY <1>5, <1>8, <2>2
    <2> QED BY <1>5, <2>2, <2>3, SameFront
  <1>10. /\ B[n].fn = A[n].fn /\ B[n].locals = A[n].locals /\ B[n].ip = A[n].ip + 1
         /\ B[n].ops = left /\ A[n].ops = ops
    <2>1. B[n] = ActOf(frames', stack', n)
      BY <1>5, <1>8
    <2>2. n # Len(frames')
      BY <1>4, <1>5
    <2>3. OpsOf(frames', stack', n) = left
      BY <1>2, <1>4, <1>6, <2>2 DEF OpsOf, left
    <2> QED BY <1>5, <1>6, <2>1, <2>3 DEF ActOf, ops
  <1>11. Calls!IsFresh(B[n + 1], ops, k)
    <2>1. B[n + 1] = ActOf(frames', stack', n + 1)
      BY <1>5, <1>8
    <2>2. OpsOf(frames', stack', n + 1) = <<>>
      <3>1. stack' \in Seq(Value) /\ n + 1 \in Nat \ {0} /\ frames'[n + 1].base = Len(stack')
        BY <1>2, <1>4, <1>5, <1>7 DEF Keeps
      <3> QED BY <1>4, <3>1, NoOperands
    <2>3. B[n + 1].ip = 0 /\ B[n + 1].ops = <<>>
          /\ B[n + 1].locals = NewFrame(g, Args(k), 0).locals
      BY <1>2, <1>4, <2>1, <2>2 DEF ActOf
    <2>4. Len(stack) \in Nat /\ Len(ops) \in Nat /\ k \in 0 .. Len(ops)
      BY <1>5
    <2>5. Len(ops) <= Len(stack) /\ Len(stack) - Len(ops) = Top.base
      BY <1>5, <2>4
    <2>6. \A i \in 1 .. Len(ops) : ops[i] = stack[Len(stack) - Len(ops) + i]
      BY <1>5, <2>5
    <2> DEFINE act == B[n + 1]
    <2>7. act.ip = 0 /\ act.ops = <<>> /\ act.locals = NewFrame(g, Args(k), 0).locals
      BY <2>3
    <2>8. stack \in Seq(Value) /\ ops \in Seq(Value)
      BY <1>5
    <2> HIDE DEF act
    <2>9. Calls!IsFresh(act, ops, k)
      BY <2>4, <2>5, <2>6, <2>7, <2>8, FreshActivation, Zenon
    <2> QED BY <2>9 DEF act
  <1>12. Len(left) <= Len(ops) /\ Len(ops) - Len(left) = k
    <2>1. k \in Nat /\ Len(ops) \in Nat
      BY <1>5
    <2> QED BY <1>7, <2>1
  <1>13. ~(status' \notin {"loaded", "running"})
    BY DEF CallsOut
  <1>14. Calls!Last(B) = B[n + 1] /\ Calls!Last(A) = A[n]
    BY <1>5, <1>8 DEF Calls!Last
  <1>15. left = SubSeq(ops, 1, Len(left))
    BY <1>7
  <1> QED
    <2>1. A # <<>> /\ Len(B) = Len(A) + 1
      BY <1>5, <1>8
    <2>2. /\ Calls!Front(Calls!Front(B)) = Calls!Front(A)
          /\ B[Len(A)].fn = Calls!Last(A).fn /\ B[Len(A)].locals = Calls!Last(A).locals
          /\ B[Len(A)].ip = Calls!Last(A).ip + 1
          /\ Len(B[Len(A)].ops) <= Len(Calls!Last(A).ops)
          /\ B[Len(A)].ops = SubSeq(Calls!Last(A).ops, 1, Len(B[Len(A)].ops))
          /\ Calls!IsFresh(Calls!Last(B), Calls!Last(A).ops,
                           Len(Calls!Last(A).ops) - Len(B[Len(A)].ops))
      BY <1>5, <1>9, <1>10, <1>11, <1>12, <1>14, <1>15
    <2> QED BY <1>13, <2>1, <2>2 DEF Calls!Call, A, B

(* A part that ends with the sequence, after one value is put on it.        *)
AgreeTo(s, t, b) == \A i \in 1 .. b : t[i] = s[i]
OneLonger(s, t, lo, b) == SubSeq(t, lo, b + 1) = Append(SubSeq(s, lo, b), t[b + 1])

LEMMA PartGrown ==
  ASSUME NEW S, NEW s \in Seq(S), NEW t \in Seq(S), NEW lo \in Nat, NEW b \in Nat, NEW hi \in Nat,
         NEW a \in Nat, lo = a + 1, hi = b + 1,
         a <= b, b <= Len(s), Len(t) = hi, AgreeTo(s, t, b)
  PROVE  OneLonger(s, t, lo, b)
  <1> DEFINE p == SubSeq(s, lo, b)
             q == SubSeq(t, lo, hi)
             r == Append(p, t[hi])
             w == b - a
             v == hi - a
  <1>1. w \in Nat /\ v = w + 1 /\ hi = a + v /\ a <= hi /\ b <= hi
    OBVIOUS
  <1>2. p \in Seq(S) /\ Len(p) = w /\ \A i \in 1 .. w : p[i] = s[a + i]
    <2>1. p \in Seq(S) /\ IsPart(p, s, a, b)
      BY PartIs
    <2> QED BY <2>1 DEF IsPart
  <1>3. q \in Seq(S) /\ Len(q) = v /\ \A i \in 1 .. v : q[i] = t[a + i]
    <2>1. q \in Seq(S) /\ IsPart(q, t, a, hi)
      BY <1>1, PartIs
    <2> QED BY <2>1 DEF IsPart
  <1>4. \A i \in 1 .. w : a + i \in 1 .. b
    OBVIOUS
  <1>5. t[hi] \in S
    <2>1. hi \in 1 .. Len(t)
      BY <1>1
    <2> QED BY <2>1
  <1> HIDE DEF p, q, w, v
  <1>6. /\ r \in Seq(S) /\ Len(r) = w + 1 /\ r[w + 1] = t[hi]
        /\ \A i \in 1 .. w : r[i] = p[i]
    BY <1>1, <1>2, <1>5
  <1> HIDE DEF r
  <1>7. ASSUME NEW i \in 1 .. Len(q) PROVE q[i] = r[i]
    <2>1. i \in 1 .. v /\ (i = w + 1 \/ i \in 1 .. w)
      BY <1>1, <1>3
    <2>2. q[i] = t[a + i]
      BY <1>3, <2>1
    <2>3. CASE i = w + 1
      BY <1>1, <1>6, <2>2, <2>3
    <2>4. CASE i \in 1 .. w
      BY <1>2, <1>4, <1>6, <2>2, <2>4 DEF AgreeTo
    <2> QED BY <2>1, <2>3, <2>4
  <1>8. Len(q) = Len(r)
    BY <1>1, <1>3, <1>6
  <1>9. q = r
    BY <1>3, <1>6, <1>7, <1>8, SeqEqual
  <1> QED BY <1>9 DEF q, r, p, OneLonger

(* RET, RET_VOID and the end of a body: the caller gets at most the value   *)
(* on top of the callee's operands.                                         *)
LEMMA ReturnedOperands ==
  ASSUME CInv, status = "running", Keeps(stack'),
         NEW m \in 1 .. Len(frames) - 1, m = Len(frames) - 1,
         \/ Len(stack') = Top.base
         \/ /\ Len(stack) > Top.base
            /\ Len(stack') = Top.base + 1
            /\ stack'[Top.base + 1] = stack[Len(stack)]
  PROVE  LET before == OpsOf(frames, stack, m)
             after  == SubSeq(stack', frames[m].base + 1, Len(stack'))
             ops    == OpsOf(frames, stack, m + 1)
         IN  \/ after = before
             \/ ops # <<>> /\ after = Append(before, ops[Len(ops)])
  <1> DEFINE ss     == stack'
             b      == Top.base
             c      == frames[m].base
             before == OpsOf(frames, stack, m)
             after  == SubSeq(ss, c + 1, Len(ss))
             ops    == OpsOf(frames, stack, m + 1)
  <1>1. m + 1 = Len(frames) /\ m \in 1 .. Len(frames) /\ m # Len(frames)
    BY FramesType DEF CInv
  <1>2. /\ frames \in Seq(Frame) /\ stack \in Seq(Value) /\ Len(stack) \in Nat
        /\ frames[m + 1].base = b /\ b \in Nat /\ b <= Len(stack)
        /\ ops \in Seq(Value) /\ Len(ops) = Len(stack) - b
        /\ \A i \in 1 .. Len(stack) - b : ops[i] = stack[b + i]
        /\ \A i \in 1 .. Len(frames) : frames[i].base <= b
    <2> DEFINE n == Len(frames)
               top == OpsOf(frames, stack, n)
    <2>1. /\ frames \in Seq(Frame) /\ stack \in Seq(Value)
          /\ Top = frames[n] /\ Top.base \in Nat /\ Top.base <= Len(stack)
          /\ \A i \in 1 .. n : frames[i].base <= Top.base
          /\ top \in Seq(Value) /\ Len(top) = Len(stack) - Top.base
          /\ \A i \in 1 .. Len(stack) - Top.base : top[i] = stack[Top.base + i]
      BY Before
    <2>2. m + 1 = n /\ ops = top /\ Len(stack) \in Nat
      BY <1>1, <2>1
    <2> HIDE DEF n, top, ops
    <2> QED BY <2>1, <2>2 DEF n
  <1>3. c \in Nat /\ c <= b
    <2>1. frames[m] \in Frame
      BY <1>1, <1>2
    <2> QED BY <1>1, <1>2, <2>1 DEF Frame
  <1>4. before = SubSeq(stack, c + 1, b)
    BY <1>1, <1>2 DEF OpsOf
  <1>5. ss \in Seq(Value) /\ b <= Len(ss) /\ \A i \in 1 .. b : ss[i] = stack[i]
    BY DEF Keeps
  <1>6. \/ Len(ss) = b
        \/ Len(stack) > b /\ Len(ss) = b + 1 /\ ss[b + 1] = stack[Len(stack)]
    OBVIOUS
  <1>7. /\ c \in Nat /\ b \in Nat /\ c <= b /\ b <= Len(stack) /\ b <= Len(ss)
        /\ stack \in Seq(Value) /\ ss \in Seq(Value)
        /\ \A i \in 1 .. b : ss[i] = stack[i]
    BY <1>2, <1>3, <1>5
  <1> HIDE DEF before, ops, b, c, ss
  <1>8. CASE Len(ss) = b
    <2>1. SubSeq(ss, c + 1, b) = SubSeq(stack, c + 1, b)
      BY <1>7, SamePart
    <2> QED BY <1>4, <1>8, <2>1 DEF before, ops, c, ss
  <1>9. CASE Len(stack) > b /\ Len(ss) = b + 1 /\ ss[b + 1] = stack[Len(stack)]
    <2>1. SubSeq(ss, c + 1, b + 1) = Append(SubSeq(stack, c + 1, b), ss[b + 1])
      <3> DEFINE lo == c + 1
                 hi == b + 1
      <3>1. /\ stack \in Seq(Value) /\ ss \in Seq(Value) /\ c \in Nat /\ b \in Nat
            /\ lo \in Nat /\ hi \in Nat /\ lo = c + 1 /\ hi = b + 1
            /\ c <= b /\ b <= Len(stack) /\ Len(ss) = hi /\ AgreeTo(stack, ss, b)
        BY <1>7, <1>9 DEF AgreeTo
      <3> HIDE DEF lo, hi
      <3>2. OneLonger(stack, ss, lo, b)
        BY <3>1, PartGrown
      <3> QED BY <3>2 DEF lo, OneLonger
    <2>2. Len(ops) \in 1 .. Len(stack) - b /\ b + Len(ops) = Len(stack) /\ ops # <<>>
      BY <1>2, <1>9
    <2>3. ops[Len(ops)] = stack[Len(stack)]
      BY <1>2, <2>2
    <2>4. after = Append(before, ops[Len(ops)])
      BY <1>4, <1>9, <2>1, <2>3
    <2> QED BY <2>2, <2>4 DEF before, ops, c, ss
  <1> QED BY <1>6, <1>8, <1>9

LEMMA LeavingReturns ==
  ASSUME CInv, IInv', status = "running", Leaves
  PROVE  Calls!Return
  <1> DEFINE n == Len(frames)
             A == Activations
             B == Activations'
  <1>1. /\ Callers \in Seq(Frame) /\ Len(Callers) = n - 1
        /\ \A i \in 1 .. n - 1 : Callers[i] = frames[i]
    BY CallersType DEF CInv
  <1>2. /\ frames' \in Seq(Frame) /\ Len(frames') = n - 1
        /\ \A i \in 1 .. n - 1 : frames'[i] = frames[i]
    BY <1>1 DEF Leaves
  <1>3. /\ frames \in Seq(Frame) /\ n \in Nat \ {0} /\ stack \in Seq(Value)
        /\ Len(A) = n /\ A # <<>> /\ \A i \in 1 .. n : A[i] = ActOf(frames, stack, i)
        /\ \E S : A \in Seq(S)
    BY Before
  <1>4. /\ Len(B) = n - 1 /\ (B = <<>> <=> frames' = <<>>)
        /\ \A i \in 1 .. n - 1 : B[i] = ActOf(frames', stack', i)
        /\ \E S : B \in Seq(S)
    BY <1>2, ActsType, ActsAreActivations
  <1>5. Keeps(stack') /\ status' # "loaded"
    BY DEF Leaves
  <1>6. CASE n = 1
    <2>1. Callers = <<>> /\ frames' = <<>>
      BY <1>1, <1>2, <1>6
    <2>2. status' \notin {"loaded", "running"}
      BY <2>1 DEF Leaves
    <2> HIDE DEF n, A, B
    <2>3. A # <<>> /\ Len(B) = Len(A) - 1 /\ B = <<>>
      BY <1>3, <1>4, <2>1
    <2> QED BY <2>2, <2>3 DEF Calls!Return, A, B
  <1>7. CASE n # 1
    <2> DEFINE m == n - 1
               k == m - 1
    <2>1. /\ m \in 1 .. Len(frames) - 1 /\ m = Len(frames) - 1 /\ m + 1 = n /\ m # Len(frames)
          /\ k \in Nat /\ k < Len(frames) /\ k < Len(frames') /\ k <= Len(frames')
          /\ k + 1 = m /\ m = Len(frames') /\ m \in Nat \ {0}
      BY <1>2, <1>3, <1>7
    <2>2. frames'[m] = frames[m]
      BY <1>2, <2>1
    <2> HIDE DEF m, k
    <2>3. \A i \in 1 .. k : B[i] = A[i]
      <3>1. \A i \in 1 .. k : frames'[i] = frames[i]
        BY <1>2, <2>1
      <3> QED BY <1>2, <1>5, <2>1, <2>2, <3>1, CallersAsBefore
    <2> HIDE DEF n, A, B
    <2>4. Calls!Front(B) = Calls!Front(Calls!Front(A))
      <3>1. PICK S : A \in Seq(S)
        BY <1>3
      <3>2. /\ Calls!Front(A) \in Seq(S) /\ Len(Calls!Front(A)) = m
            /\ \A i \in 1 .. m : Calls!Front(A)[i] = A[i]
        <4>1. Len(A) > 0 /\ Len(A) - 1 = m
          BY <1>3, <2>1
        <4> QED BY <3>1, <4>1, FrontType
      <3>3. m - 1 = k /\ Len(B) = m /\ \A i \in 1 .. k : B[i] = Calls!Front(A)[i]
        BY <1>4, <2>1, <2>3, <3>2
      <3> QED BY <1>4, <2>1, <3>2, <3>3, SameFront
    <2>5. Calls!Last(Calls!Front(A)) = A[m]
      <3>1. PICK S : A \in Seq(S)
        BY <1>3
      <3>2. /\ Len(Calls!Front(A)) = m
            /\ \A i \in 1 .. m : Calls!Front(A)[i] = A[i]
        <4>1. Len(A) > 0 /\ Len(A) - 1 = m
          BY <1>3, <2>1
        <4> QED BY <3>1, <4>1, FrontType
      <3> QED BY <2>1, <3>2 DEF Calls!Last
    <2>6. Calls!Last(B) = B[m] /\ Calls!Last(A) = A[n] /\ Len(B) = m
      BY <1>3, <1>4, <2>1 DEF Calls!Last
    <2>7. /\ A[m] = ActOf(frames, stack, m) /\ A[n] = ActOf(frames, stack, n)
          /\ B[m] = ActOf(frames', stack', m)
      BY <1>3, <1>4, <2>1
    <2>8. B[m].fn = A[m].fn /\ B[m].ip = A[m].ip /\ B[m].locals = A[m].locals
      BY <2>2, <2>7 DEF ActOf
    <2>9. \/ B[m].ops = A[m].ops
          \/ A[n].ops # <<>> /\ B[m].ops = Append(A[m].ops, A[n].ops[Len(A[n].ops)])
      <3>1. B[m].ops = SubSeq(stack', frames[m].base + 1, Len(stack'))
        BY <2>1, <2>2, <2>7 DEF ActOf, OpsOf
      <3>2. A[m].ops = OpsOf(frames, stack, m) /\ A[n].ops = OpsOf(frames, stack, m + 1)
        BY <2>1, <2>7 DEF ActOf
      <3> QED BY <1>5, <2>1, <3>1, <3>2, ReturnedOperands DEF Leaves
    <2>10. B # <<>> /\ A # <<>> /\ Len(B) = Len(A) - 1
      BY <1>3, <1>4, <2>1, <2>6
    <2>11. /\ Calls!Front(B) = Calls!Front(Calls!Front(A))
           /\ Calls!Last(B).fn = Calls!Last(Calls!Front(A)).fn
           /\ Calls!Last(B).ip = Calls!Last(Calls!Front(A)).ip
           /\ Calls!Last(B).locals = Calls!Last(Calls!Front(A)).locals
           /\ \/ Calls!Last(B).ops = Calls!Last(Calls!Front(A)).ops
              \/ /\ Calls!Last(A).ops # <<>>
                 /\ Calls!Last(B).ops = Append(Calls!Last(Calls!Front(A)).ops,
                                               Calls!Last(Calls!Last(A).ops))
      BY <2>4, <2>5, <2>6, <2>8, <2>9 DEF Calls!Last
    <2> QED BY <2>10, <2>11 DEF Calls!Return, A, B
  <1> QED BY <1>6, <1>7

(* TAIL_CALL: a fresh activation in place of the running one.               *)
LEMMA ReplacingReplaces ==
  ASSUME CInv, IInv', status = "running", Replaces
  PROVE  Calls!Replace
  <1> DEFINE n   == Len(frames)
             ops == OpsOf(frames, stack, n)
             A   == Activations
             B   == Activations'
  <1>1. PICK k \in 0 .. Len(stack) - Top.base, g \in Nat :
              /\ Keeps(stack') /\ Len(stack') = Top.base
              /\ frames' = Append(Callers, NewFrame(g, Args(k), Len(stack')))
    BY DEF Replaces
  <1> DEFINE f == NewFrame(g, Args(k), Len(stack'))
  <1>2. f.ip = 0 /\ f.base = Len(stack') /\ f.locals = NewFrame(g, Args(k), 0).locals
    BY DEF NewFrame
  <1>3. f \in Frame /\ frames' = Append(Callers, f)
    BY <1>1, EnteredType DEF CInv
  <1> HIDE DEF f
  <1>4. /\ frames' \in Seq(Frame) /\ Len(frames') = n /\ frames'[n] = f
        /\ \A i \in 1 .. n - 1 : frames'[i] = frames[i]
    BY <1>3, ReplacedType DEF CInv
  <1>5. /\ frames \in Seq(Frame) /\ n \in Nat \ {0} /\ stack \in Seq(Value)
        /\ Top = frames[n] /\ Top.base \in Nat /\ Top.base <= Len(stack)
        /\ ops \in Seq(Value) /\ Len(ops) = Len(stack) - Top.base
        /\ \A i \in 1 .. Len(stack) - Top.base : ops[i] = stack[Top.base + i]
        /\ Len(A) = n /\ A # <<>> /\ A[n] = ActOf(frames, stack, n)
        /\ \E S : A \in Seq(S)
    BY Before
  <1>6. frames'[n].base = Top.base /\ frames'[n].base = Len(stack')
    BY <1>1, <1>2, <1>4
  <1> HIDE DEF n, ops, A, B
  <1>7. /\ \A i \in 1 .. n - 1 : B[i] = A[i]
        /\ Len(B) = n /\ \A i \in 1 .. n : B[i] = ActOf(frames', stack', i)
        /\ \E S : B \in Seq(S)
    <2> DEFINE m == n - 1
    <2>1. m \in Nat /\ m < Len(frames) /\ m < Len(frames') /\ m <= Len(frames') /\ m + 1 = n
      BY <1>4, <1>5 DEF n
    <2> HIDE DEF m
    <2>2. /\ \A i \in 1 .. m : frames'[i] = frames[i]
          /\ frames'[m + 1].base = frames[m + 1].base
      BY <1>4, <1>5, <1>6, <2>1 DEF m
    <2> QED BY <1>1, <1>4, <2>1, <2>2, CallersAsBefore DEF m, A, B
  <1>8. Calls!Front(B) = Calls!Front(A)
    <2>1. PICK S : A \in Seq(S)
      BY <1>5
    <2>2. PICK T : B \in Seq(T)
      BY <1>7
    <2>3. n \in Nat \ {0} /\ Len(A) = n /\ Len(B) = n /\ \A i \in 1 .. n - 1 : A[i] = B[i]
      BY <1>5, <1>7
    <2> QED BY <2>1, <2>2, <2>3, SameFront
  <1>9. k \in 0 .. Len(ops) /\ Calls!IsFresh(B[n], ops, k)
    <2>1. B[n] = ActOf(frames', stack', n)
      BY <1>5, <1>7
    <2>2. OpsOf(frames', stack', n) = <<>>
      <3>1. stack' \in Seq(Value)
        BY <1>1 DEF Keeps
      <3> QED BY <1>4, <1>5, <1>6, <3>1, NoOperands
    <2>3. B[n].ip = 0 /\ B[n].ops = <<>> /\ B[n].locals = NewFrame(g, Args(k), 0).locals
      BY <1>2, <1>4, <2>1, <2>2 DEF ActOf
    <2>4. Len(stack) \in Nat /\ Len(ops) \in Nat /\ k \in 0 .. Len(ops)
      BY <1>5
    <2>5. Len(ops) <= Len(stack) /\ Len(stack) - Len(ops) = Top.base
      BY <1>5, <2>4
    <2>6. \A i \in 1 .. Len(ops) : ops[i] = stack[Len(stack) - Len(ops) + i]
      BY <1>5, <2>5
    <2> DEFINE act == B[n]
    <2>7. act.ip = 0 /\ act.ops = <<>> /\ act.locals = NewFrame(g, Args(k), 0).locals
      BY <2>3
    <2>8. stack \in Seq(Value) /\ ops \in Seq(Value)
      BY <1>5
    <2> HIDE DEF act
    <2>9. Calls!IsFresh(act, ops, k)
      BY <2>4, <2>5, <2>6, <2>7, <2>8, FreshActivation, Zenon
    <2> QED BY <2>4, <2>9 DEF act
  <1>10. Calls!Last(B) = B[n] /\ Calls!Last(A).ops = ops
    BY <1>5, <1>7 DEF Calls!Last, ActOf, ops
  <1>11. ~(status' \notin {"loaded", "running"})
    BY DEF Replaces
  <1>12. A # <<>> /\ Len(B) = Len(A)
    BY <1>5, <1>7
  <1> QED BY <1>8, <1>9, <1>10, <1>11, <1>12 DEF Calls!Replace, A, B

(* The start enters the program with nothing on any operand stack.          *)
LEMMA StartEnters ==
  ASSUME CInv, Start
  PROVE  Calls!Enter
  <1>1. /\ stack' = <<>>
        /\ \/ frames' = <<>> /\ status' \in {"badfn", "panic"}
           \/ frames' = Append(<<>>, NewFrame(module.entry, <<>>, 0)) /\ status' = "running"
    BY StartShape
  <1>2. Activations = <<>>
    <2>1. frames = <<>> /\ frames \in Seq(Frame)
      BY StartShape DEF CInv, NothingEntered, VInv, IInv, TypeOK
    <2> QED BY <2>1, ActsType, ActsAreActivations
  <1>3. CASE frames' = <<>> /\ status' \in {"badfn", "panic"}
    <2>1. frames' \in Seq(Frame)
      BY <1>3
    <2>2. Activations' = <<>>
      BY <1>3, <2>1, ActsType, ActsAreActivations
    <2> QED BY <1>2, <1>3, <2>2 DEF Calls!Enter
  <1>4. CASE frames' = Append(<<>>, NewFrame(module.entry, <<>>, 0)) /\ status' = "running"
    <2> DEFINE act == ActOf(frames', stack', 1)
    <2>1. /\ Len(frames') = 1 /\ frames'[1] = NewFrame(module.entry, <<>>, 0)
      BY <1>4
    <2>2. Activations' = [i \in 1 .. 1 |-> ActOf(frames', stack', i)]
      BY <2>1, ActsAreActivations DEF Acts
    <2>3. Len(Activations') = 1 /\ Activations'[1] = act
      BY <2>2
    <2>4. act.ip = 0 /\ act.ops = <<>>
          /\ act.locals = Resize(<<>>, FrameSize(module.entry), Null)
      <3>1. OpsOf(frames', stack', 1) = SubSeq(<<>>, 1, 0)
        BY <1>1, <2>1 DEF OpsOf, NewFrame
      <3>2. OpsOf(frames', stack', 1) = <<>>
        BY <3>1, SubSeqEmpty
      <3> QED BY <2>1, <3>2 DEF ActOf, NewFrame
    <2> HIDE DEF act
    <2>5. \A i \in DOMAIN act.locals :
             act.locals[i] = IF i <= 0 THEN (<<>>)[Len(<<>>) - 0 + i] ELSE Null
      BY <2>4 DEF Resize
    <2>6. Calls!IsFresh(act, <<>>, 0)
      BY <2>4, <2>5 DEF Calls!IsFresh
    <2> QED BY <1>2, <1>4, <2>3, <2>6 DEF Calls!Enter
  <1> QED BY <1>1, <1>3, <1>4

(* Every step of the machine is one of the promise, or leaves it alone.     *)
LEMMA StepRefines ==
  CInv /\ CInv' /\ [VNext]_<<vars, cert>> => [Calls!ANext]_(Calls!avars)
  <1> SUFFICES ASSUME CInv, CInv', [VNext]_<<vars, cert>>
               PROVE  Calls!ANext \/ UNCHANGED Calls!avars
    OBVIOUS
  <1>1. CASE UNCHANGED <<vars, cert>>
    BY <1>1, ActsAreActivations DEF vars, Calls!avars, Acts
  <1>2. CASE VNext
    <2>1. CASE Start
      <3>1. ~(status \notin {"loaded", "running"})
        BY <2>1, StartShape
      <3> QED BY <2>1, <3>1, StartEnters DEF Calls!ANext
    <2>2. CASE RunningStep
      <3>1. status = "running" /\ IInv' /\ (StaysIn \/ CallsOut \/ Leaves \/ Replaces)
        BY <2>2 DEF RunningStep, CInv, VInv
      <3>2. ~(status \notin {"loaded", "running"})
        BY <3>1
      <3> QED BY <3>1, <3>2, StayingWorks, CallingCalls, LeavingReturns, ReplacingReplaces
                 DEF Calls!ANext
    <2> QED BY <1>2, <2>1, <2>2, EveryStep DEF CInv
  <1> QED BY <1>1, <1>2

(* On certified bytecode the interpreter implements isolated activations:   *)
(* the one value stack with base pointers, the frame vector and the opcode  *)
(* handlers of vm.rs do to the activations what AstraCalls promises, for    *)
(* every certified module, word size and limit.                             *)
THEOREM CallsImplemented == VSpec => ImplementsCalls
  <1>1. VInit => Calls!AInit
    <2>1. VInit => frames = <<>> /\ frames \in Seq(Frame) /\ status = "loaded"
      BY DEF VInit, Fresh
    <2> QED BY <2>1, ActsType, ActsAreActivations DEF Calls!AInit
  <1> QED BY <1>1, StepRefines, CInvariance, PTL DEF VSpec, ImplementsCalls, Calls!ASpec

(* What the shapes of a step have in common: the values under the running   *)
(* frame's base stay.                                                       *)
LEMMA StepIsolates ==
  ASSUME CInv, RunningStep
  PROVE  /\ Top.base <= Len(stack) /\ Top.base <= Len(stack')
         /\ SubSeq(stack', 1, Top.base) = SubSeq(stack, 1, Top.base)
  <1> DEFINE ss == stack'
             b  == Top.base
  <1>1. stack \in Seq(Value) /\ b \in Nat /\ b <= Len(stack)
    BY Before DEF RunningStep
  <1>2. Keeps(stack')
    <2>1. CASE CallsOut
      <3>1. PICK k \in 0 .. Len(stack) - Top.base : stack' = Below(k)
        BY <2>1 DEF CallsOut
      <3> QED BY <3>1, OperandsLeft DEF RunningStep
    <2> QED BY <2>1 DEF RunningStep, StaysIn, Leaves, Replaces
  <1>3. ss \in Seq(Value) /\ b <= Len(ss) /\ \A i \in 1 .. b : ss[i] = stack[i]
    BY <1>2 DEF Keeps
  <1> HIDE DEF ss, b
  <1>4. SubSeq(ss, 0 + 1, b) = SubSeq(stack, 0 + 1, b)
    <2>1. 0 \in Nat
      OBVIOUS
    <2> QED BY <1>1, <1>3, <2>1, SamePart
  <1> QED BY <1>1, <1>3, <1>4 DEF ss, b

(* On certified bytecode no instruction, call or return reads, drops or     *)
(* overwrites a value that belongs to a waiting caller: what lies under the *)
(* running frame's base is the same after every step.                       *)
THEOREM CallersOperandsSafe == VSpec => OperandsIsolated
  <1>1. CInv /\ [VNext]_<<vars, cert>> =>
           [status = "running" /\ frames # <<>> =>
              /\ Top.base <= Len(stack) /\ Top.base <= Len(stack')
              /\ SubSeq(stack', 1, Top.base) = SubSeq(stack, 1, Top.base)]_vars
    <2> SUFFICES ASSUME CInv, VNext, status = "running"
                 PROVE  /\ Top.base <= Len(stack) /\ Top.base <= Len(stack')
                        /\ SubSeq(stack', 1, Top.base) = SubSeq(stack, 1, Top.base)
      BY DEF vars
    <2>1. VInv /\ VInv'
      BY VNextKept DEF CInv
    <2>2. ~Start
      BY StartShape
    <2>3. RunningStep
      BY <2>1, <2>2, EveryStep
    <2> QED BY <2>3, StepIsolates
  <1> QED BY <1>1, CInvariance, PTL DEF VSpec, OperandsIsolated
=============================================================================
