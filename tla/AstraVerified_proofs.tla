------------------------ MODULE AstraVerified_proofs ------------------------
(***************************************************************************)
(* Certified bytecode never underflows: the shared value stack is, at all  *)
(* times, exactly what the certificate grants to each frame.               *)
(***************************************************************************)
EXTENDS AstraVerified, AstraVM_proofs

VInv == IInv /\ cert \in Certified /\ StackAddsUp /\ NeverUnderflows

H == Height(cert, Top.fn, Top.ip)

LEMMA CertFacts ==
  ASSUME NEW c \in Certified
  PROVE  /\ c \in Certificate /\ WellShaped(c) /\ Consistent(c)
         /\ c.module \in Module
  BY CertifiedAssumption DEF Certificate

LEMMA HeightType ==
  ASSUME NEW c \in Certified, NEW f \in Functions(c), NEW ip \in Nat
  PROVE  /\ Arity(c, f) \in {0, 1}
         /\ Height(c, f, ip) \in Int
  <1>1. /\ c.heights \in Seq(Seq(Int)) /\ c.arity \in Seq({0, 1})
        /\ c.module.functions \in Seq(Function)
    BY CertFacts DEF Certificate, Module
  <1>2. f + 1 \in 1 .. Len(c.module.functions)
    BY <1>1 DEF Functions
  <1>3. /\ Len(c.arity) = Len(c.module.functions)
        /\ Len(c.heights) = Len(c.module.functions)
        /\ Len(c.heights[f + 1]) = Len(CodeOf(c, f))
    BY CertFacts DEF WellShaped
  <1>4. c.heights[f + 1] \in Seq(Int) /\ Arity(c, f) \in {0, 1}
    BY <1>1, <1>2, <1>3 DEF Arity
  <1>5. CASE ip < Len(CodeOf(c, f))
    <2>1. ip + 1 \in 1 .. Len(c.heights[f + 1])
      BY <1>3, <1>4, <1>5
    <2> QED BY <1>4, <1>5, <2>1 DEF Height
  <1>6. CASE ~(ip < Len(CodeOf(c, f)))
    BY <1>4, <1>6 DEF Height
  <1> QED BY <1>4, <1>5, <1>6

(* What the certificate says of the instruction about to run.               *)
LEMMA Granted ==
  ASSUME VInv, NEW ops, Running(ops)
  PROVE  /\ Top \in Frame /\ Top.fn \in Functions(cert)
         /\ Ins \in Instr /\ Ins = CodeOf(cert, Top.fn)[Top.ip + 1]
         /\ H \in Nat
         /\ Len(stack) = Top.base + H
         /\ AddsUp(cert, Top.fn, Top.ip)
  <1>1. frames # <<>> /\ frames \in Seq(Frame) /\ status = "running"
    BY DEF Running, VInv, IInv, TypeOK
  <1>2. Top \in Frame /\ Ins \in Instr
    BY FetchType DEF VInv
  <1>3. Len(frames) \in DOMAIN frames
    BY <1>1
  <1>4. /\ Top.fn \in Functions(cert) /\ H >= 0 /\ Len(stack) = Top.base + H
        /\ cert.module = module
    BY <1>1, <1>3 DEF VInv, StackAddsUp, GrantedFrames, GrantedTop, FrameHeight, H, Top
  <1>5. CodeOf(cert, Top.fn) = Code(Top)
    BY <1>4 DEF CodeOf, Code
  <1>6. Top.ip \in 0 .. Len(CodeOf(cert, Top.fn)) - 1
    <2>1. Top.ip \in Nat /\ Top.fn + 1 \in 1 .. Len(module.functions)
      BY <1>2, <1>4 DEF Frame, Functions
    <2>2. module.functions \in Seq(Function)
      BY DEF VInv, IInv, TypeOK, Module
    <2>3. module.functions[Top.fn + 1] \in Function
      BY <2>1, <2>2
    <2>4. Code(Top) \in Seq(Instr)
      BY <2>3 DEF Code, Function
    <2> QED BY <1>5, <2>1, <2>4 DEF Running
  <1>7. AddsUp(cert, Top.fn, Top.ip)
    BY <1>4, <1>6, CertFacts DEF VInv, Consistent, FunctionAddsUp, H
  <1>8. H \in Int
    BY <1>2, <1>4, HeightType DEF Frame, VInv, H
  <1> QED BY <1>2, <1>4, <1>5, <1>7, <1>8 DEF Ins

LEMMA OperandsGranted ==
  ASSUME VInv, NEW ops, Running(ops)
  PROVE  Operands(Ins) \in 0 .. H
  BY Granted DEF AddsUp, H

LEMMA NoShortage ==
  ASSUME VInv, NEW ops, Running(ops), NEW n, Operands(Ins) = n
  PROVE  ~NeedsValues(n)
  BY Granted, OperandsGranted DEF NeedsValues, Frame

(* A handler that stays in its frame and moves on to an instruction with    *)
(* the height the certificate gives it keeps the books.                     *)
LEMMA InFrame ==
  ASSUME VInv, NEW ops, Running(ops), module' = module, cert' = cert,
         NEW f \in Frame, f.fn = Top.fn, f.base = Top.base, frames' = WithTop(f),
         Height(cert, f.fn, f.ip) >= 0,
         Len(stack') = Top.base + Height(cert, f.fn, f.ip)
  PROVE  StackAddsUp'
  <1> DEFINE n == Len(frames)
  <1>1. frames \in Seq(Frame) /\ n \in Nat \ {0} /\ status = "running"
    BY DEF VInv, IInv, TypeOK, Running
  <1>2. /\ frames' \in Seq(Frame) /\ Len(frames') = n /\ frames' # <<>>
        /\ \A i \in 1 .. n : frames'[i] = IF i = n THEN f ELSE frames[i]
    BY <1>1 DEF WithTop
  <1>3. /\ frames[1].base = 0 /\ GrantedFrames /\ GrantedCallers
        /\ cert.module = module
    BY <1>1 DEF VInv, StackAddsUp
  <1>4. Top = frames[n] /\ Top' = f
    BY <1>1, <1>2 DEF Top
  <1> HIDE DEF n
  <1>5. DOMAIN frames = 1 .. n /\ DOMAIN frames' = 1 .. n
    BY <1>1, <1>2 DEF n
  <1>6. frames'[1].base = 0
    BY <1>1, <1>2, <1>3, <1>4
  <1>7. GrantedTop'
    BY <1>4 DEF GrantedTop, FrameHeight
  <1>8. GrantedFrames'
    <2> SUFFICES ASSUME NEW i \in 1 .. n
                 PROVE  /\ frames'[i].fn \in Functions(cert)
                        /\ Height(cert, frames'[i].fn, frames'[i].ip) >= 0
                        /\ i < n => frames'[i].base <= frames'[i + 1].base
      BY <1>2, <1>5 DEF GrantedFrames, FrameHeight, n
    <2>1. /\ frames[i].fn \in Functions(cert)
          /\ Height(cert, frames[i].fn, frames[i].ip) >= 0
          /\ i < n => frames[i].base <= frames[i + 1].base
      BY <1>3, <1>5 DEF GrantedFrames, FrameHeight, n
    <2> QED BY <1>1, <1>2, <1>4, <2>1
  <1>9. GrantedCallers'
    <2> SUFFICES ASSUME NEW i \in 1 .. n - 1
                 PROVE  frames'[i].base + Height(cert, frames'[i].fn, frames'[i].ip)
                          = frames'[i + 1].base + Arity(cert, frames'[i + 1].fn)
      BY <1>2 DEF GrantedCallers, FrameHeight, n
    <2>1. frames[i].base + Height(cert, frames[i].fn, frames[i].ip)
                          = frames[i + 1].base + Arity(cert, frames[i + 1].fn)
      BY <1>3 DEF GrantedCallers, FrameHeight, n
    <2> QED BY <1>1, <1>2, <1>4, <2>1
  <1> QED BY <1>2, <1>3, <1>6, <1>7, <1>8, <1>9 DEF StackAddsUp

(* A run that has ended owes nothing to the certificate.                    *)
LEMMA EndedRun ==
  ASSUME VInv, module' = module, cert' = cert, status' # "running"
  PROVE  StackAddsUp'
  BY DEF VInv, StackAddsUp

LEMMA EntryHeight ==
  ASSUME VInv, NEW g \in Functions(cert)
  PROVE  Height(cert, g, 0) = 0 /\ Arity(cert, g) \in {0, 1}
  BY CertFacts, HeightType DEF VInv, Consistent, FunctionAddsUp

(* CALL: the caller waits, one frame more.                                  *)
LEMMA Entered ==
  ASSUME VInv, NEW ops, Running(ops), module' = module, cert' = cert,
         NEW f \in Frame, f.fn \in Functions(cert), f.ip = 0, f.base = Len(stack'),
         frames' = Append(Stepped, f), Len(stack') \in Nat,
         Len(stack') >= Top.base,
         Height(cert, Top.fn, Top.ip + 1) = Len(stack') - Top.base + Arity(cert, f.fn)
  PROVE  StackAddsUp'
  <1> DEFINE n == Len(frames)
             top == [Top EXCEPT !.ip = Top.ip + 1]
  <1>1. frames \in Seq(Frame) /\ n \in Nat \ {0} /\ status = "running"
    BY DEF VInv, IInv, TypeOK, Running
  <1>2. Top = frames[n] /\ Top \in Frame /\ Top.ip + 1 \in Nat
    BY Granted, SMTT(30) DEF Top, Frame
  <1>3. /\ top \in Frame /\ top.fn = Top.fn /\ top.base = Top.base
        /\ top.ip = Top.ip + 1
    BY <1>2 DEF Frame
  <1> HIDE DEF top
  <1>4. /\ Stepped \in Seq(Frame) /\ Len(Stepped) = n
        /\ \A i \in 1 .. n : Stepped[i] = IF i = n THEN top ELSE frames[i]
    BY <1>1, <1>3 DEF Stepped, Jump, WithTop, top
  <1>5. /\ frames' \in Seq(Frame) /\ Len(frames') = n + 1 /\ frames' # <<>>
        /\ \A i \in 1 .. n + 1 :
              frames'[i] = IF i = n + 1 THEN f ELSE IF i = n THEN top ELSE frames[i]
    BY <1>1, <1>4
  <1>6. /\ frames[1].base = 0 /\ GrantedFrames /\ GrantedCallers
        /\ cert.module = module
    BY <1>1 DEF VInv, StackAddsUp
  <1>7. Height(cert, f.fn, 0) = 0 /\ Arity(cert, f.fn) \in {0, 1}
    BY EntryHeight
  <1>8. Top' = f
    BY <1>1, <1>5 DEF Top
  <1> HIDE DEF n
  <1>9. DOMAIN frames = 1 .. n /\ DOMAIN frames' = 1 .. n + 1
    BY <1>1, <1>5 DEF n
  <1>10. frames'[1].base = 0
    BY <1>1, <1>2, <1>3, <1>5, <1>6
  <1>11. GrantedTop'
    BY <1>7, <1>8 DEF GrantedTop, FrameHeight
  <1>12. GrantedFrames'
    <2> SUFFICES ASSUME NEW i \in 1 .. n + 1
                 PROVE  /\ frames'[i].fn \in Functions(cert)
                        /\ Height(cert, frames'[i].fn, frames'[i].ip) >= 0
                        /\ i < n + 1 => frames'[i].base <= frames'[i + 1].base
      BY <1>5, <1>9 DEF GrantedFrames, FrameHeight
    <2>1. i <= n => /\ frames[i].fn \in Functions(cert)
                    /\ Height(cert, frames[i].fn, frames[i].ip) >= 0
                    /\ i < n => frames[i].base <= frames[i + 1].base
      BY <1>1, <1>6, <1>9 DEF GrantedFrames, FrameHeight, n
    <2>2. Height(cert, top.fn, top.ip) >= 0
      BY <1>2, <1>3, <1>7, SMTT(30) DEF Frame
    <2>3. Top.fn \in Functions(cert)
      BY Granted
    <2> QED BY <1>1, <1>2, <1>3, <1>5, <1>7, <2>1, <2>2, <2>3
  <1>13. GrantedCallers'
    <2> SUFFICES ASSUME NEW i \in 1 .. n
                 PROVE  frames'[i].base + Height(cert, frames'[i].fn, frames'[i].ip)
                          = frames'[i + 1].base + Arity(cert, frames'[i + 1].fn)
      BY <1>1, <1>5 DEF GrantedCallers, FrameHeight
    <2>1. i < n => frames[i].base + Height(cert, frames[i].fn, frames[i].ip)
                          = frames[i + 1].base + Arity(cert, frames[i + 1].fn)
      BY <1>1, <1>6 DEF GrantedCallers, FrameHeight, n
    <2>2. i \in Nat /\ (i = n \/ i < n)
      BY <1>1
    <2>3. CASE i = n
      <3>1. frames'[i] = top /\ frames'[i + 1] = f
        BY <1>1, <1>5, <2>3
      <3>2. Top.base \in Nat
        BY <1>2 DEF Frame
      <3>3. Height(cert, top.fn, top.ip) = Len(stack') - Top.base + Arity(cert, f.fn)
        BY <1>3
      <3>4. top.base + Height(cert, top.fn, top.ip) = f.base + Arity(cert, f.fn)
        BY <1>3, <1>7, <3>2, <3>3
      <3> QED BY <3>1, <3>4
    <2>4. CASE i < n
      <3>1. /\ frames'[i] = frames[i]
            /\ frames'[i + 1] = IF i + 1 = n THEN top ELSE frames[i + 1]
        <4>1. /\ i \in 1 .. n + 1 /\ i + 1 \in 1 .. n + 1
              /\ i # n + 1 /\ i # n /\ i + 1 # n + 1
          BY <1>1, <2>2, <2>4
        <4>2. frames'[i] = frames[i]
          BY <1>5, <4>1
        <4>3. frames'[i + 1] = IF i + 1 = n THEN top ELSE frames[i + 1]
          BY <1>5, <4>1
        <4> QED BY <4>2, <4>3
      <3> QED BY <1>2, <1>3, <2>1, <2>4, <3>1
    <2> QED BY <2>2, <2>3, <2>4
  <1> QED BY <1>5, <1>6, <1>10, <1>11, <1>12, <1>13 DEF StackAddsUp

(* RETURN, RETURN_VOID and running off the end: the caller finds what its   *)
(* height at the resume point says.                                         *)
LEMMA Left ==
  ASSUME VInv, status = "running", module' = module, cert' = cert,
         frames' = Callers, Callers # <<>>,
         Len(stack') = Top.base + Arity(cert, Top.fn)
  PROVE  StackAddsUp'
  <1> DEFINE n == Len(frames)
  <1>1. /\ frames \in Seq(Frame) /\ n \in Nat \ {0}
        /\ frames[1].base = 0 /\ GrantedFrames /\ GrantedCallers
        /\ cert.module = module
    BY DEF VInv, IInv, TypeOK, StackAddsUp
  <1>2. /\ frames' \in Seq(Frame) /\ Len(frames') = n - 1 /\ n - 1 \in Nat \ {0}
        /\ \A i \in 1 .. n - 1 : frames'[i] = frames[i]
    <2>1. n - 1 \in Nat /\ n - 1 <= Len(frames)
      BY <1>1
    <2>2. /\ frames' = SubSeq(frames, 1, n - 1) /\ frames' # <<>>
      BY DEF Callers
    <2> HIDE DEF n
    <2>3. /\ frames' \in Seq(Frame) /\ Len(frames') = n - 1
          /\ \A i \in 1 .. n - 1 : frames'[i] = frames[i]
      BY <1>1, <2>1, <2>2, FirstOf
    <2> QED BY <2>1, <2>2, <2>3
  <1>3. Top = frames[n] /\ Top' = frames[n - 1]
    BY <1>2 DEF Top
  <1> HIDE DEF n
  <1>4. DOMAIN frames = 1 .. n /\ DOMAIN frames' = 1 .. n - 1
    BY <1>1, <1>2 DEF n
  <1>5. GrantedTop'
    <2>1. frames[n - 1].base + Height(cert, frames[n - 1].fn, frames[n - 1].ip)
            = frames[n].base + Arity(cert, frames[n].fn)
      BY <1>1, <1>2 DEF GrantedCallers, FrameHeight, n
    <2> QED BY <1>3, <2>1 DEF GrantedTop, FrameHeight
  <1>6. GrantedFrames'
    BY <1>1, <1>2, <1>4, SMTT(30) DEF GrantedFrames, FrameHeight, n
  <1>7. GrantedCallers'
    BY <1>1, <1>2, <1>4 DEF GrantedCallers, FrameHeight, n
  <1> QED BY <1>1, <1>2, <1>5, <1>6, <1>7 DEF StackAddsUp

(* TAIL_CALL: the callee takes the running frame's place and base.          *)
LEMMA Replaced ==
  ASSUME VInv, status = "running", frames # <<>>, module' = module, cert' = cert,
         NEW f \in Frame, f.fn \in Functions(cert), f.ip = 0, f.base = Top.base,
         Arity(cert, f.fn) = Arity(cert, Top.fn),
         frames' = Append(Callers, f), Len(stack') = Top.base
  PROVE  StackAddsUp'
  <1> DEFINE n == Len(frames)
  <1>1. /\ frames \in Seq(Frame) /\ n \in Nat \ {0}
        /\ frames[1].base = 0 /\ GrantedFrames /\ GrantedCallers
        /\ cert.module = module
    BY DEF VInv, IInv, TypeOK, StackAddsUp
  <1>2. /\ Callers \in Seq(Frame) /\ Len(Callers) = n - 1
        /\ \A i \in 1 .. n - 1 : Callers[i] = frames[i]
    <2>1. n - 1 \in Nat /\ n - 1 <= Len(frames)
      BY <1>1
    <2>2. Callers = SubSeq(frames, 1, n - 1)
      BY DEF Callers
    <2> HIDE DEF n
    <2> QED BY <1>1, <2>1, <2>2, FirstOf
  <1>3. /\ frames' \in Seq(Frame) /\ Len(frames') = n /\ frames' # <<>>
        /\ \A i \in 1 .. n : frames'[i] = IF i = n THEN f ELSE frames[i]
    BY <1>1, <1>2
  <1>4. Top = frames[n] /\ Top' = f
    BY <1>1, <1>3 DEF Top
  <1>5. Height(cert, f.fn, 0) = 0
    BY EntryHeight
  <1> HIDE DEF n
  <1>6. DOMAIN frames = 1 .. n /\ DOMAIN frames' = 1 .. n
    BY <1>1, <1>3 DEF n
  <1>7. frames'[1].base = 0
    BY <1>1, <1>3, <1>4
  <1>8. f.base \in Nat
    BY DEF Frame
  <1>9. GrantedTop'
    BY <1>4, <1>5, <1>8 DEF GrantedTop, FrameHeight
  <1>10. GrantedFrames'
    <2> SUFFICES ASSUME NEW i \in 1 .. n
                 PROVE  /\ frames'[i].fn \in Functions(cert)
                        /\ Height(cert, frames'[i].fn, frames'[i].ip) >= 0
                        /\ i < n => frames'[i].base <= frames'[i + 1].base
      BY <1>3, <1>6 DEF GrantedFrames, FrameHeight
    <2>1. /\ frames[i].fn \in Functions(cert)
          /\ Height(cert, frames[i].fn, frames[i].ip) >= 0
          /\ i < n => frames[i].base <= frames[i + 1].base
      BY <1>1, <1>6 DEF GrantedFrames, FrameHeight, n
    <2> QED BY <1>1, <1>3, <1>4, <1>5, <2>1
  <1>11. GrantedCallers'
    <2> SUFFICES ASSUME NEW i \in 1 .. n - 1
                 PROVE  frames'[i].base + Height(cert, frames'[i].fn, frames'[i].ip)
                          = frames'[i + 1].base + Arity(cert, frames'[i + 1].fn)
      BY <1>3 DEF GrantedCallers, FrameHeight
    <2>1. frames[i].base + Height(cert, frames[i].fn, frames[i].ip)
                          = frames[i + 1].base + Arity(cert, frames[i + 1].fn)
      BY <1>1 DEF GrantedCallers, FrameHeight, n
    <2> QED BY <1>1, <1>3, <1>4, <2>1
  <1> QED BY <1>1, <1>3, <1>7, <1>9, <1>10, <1>11 DEF StackAddsUp

(* The handler steps to the next instruction with n more values.            *)
LEMMA FlowOn ==
  ASSUME VInv, NEW ops, Running(ops), module' = module, cert' = cert,
         NEW n \in Int, Height(cert, Top.fn, Top.ip + 1) = H + n, H + n >= 0,
         frames' = Stepped, Len(stack') = Len(stack) + n
  PROVE  StackAddsUp'
  <1> DEFINE f == [Top EXCEPT !.ip = Top.ip + 1]
  <1>1. Top \in Frame /\ H \in Nat /\ Len(stack) = Top.base + H
    BY Granted
  <1>2. Top.base \in Nat /\ Top.ip + 1 \in Nat
    BY <1>1 DEF Frame
  <1>3. f \in Frame /\ f.fn = Top.fn /\ f.base = Top.base /\ f.ip = Top.ip + 1
    BY <1>1, <1>2 DEF Frame
  <1>4. frames' = WithTop(f)
    BY DEF Stepped, Jump
  <1> HIDE DEF f
  <1>5. /\ Height(cert, f.fn, f.ip) >= 0
        /\ Len(stack') = Top.base + Height(cert, f.fn, f.ip)
    BY <1>1, <1>2, <1>3
  <1> QED BY <1>3, <1>4, <1>5, InFrame

-----------------------------------------------------------------------------
(* The certificate's condition, by what the instruction does to the stack.   *)

Takes(n, effect, ops) ==
  \A op \in ops :
     /\ op \notin BranchOps \cup UnimplementedOps \cup TransferOps \cup {"JMP", "HALT"}
     /\ StackEffect(op) = effect
     /\ \A ins \in Instr : ins.op = op => Operands(ins) = n

LEMMA EffectTable ==
  /\ Takes(0, 1, PushOps)
  /\ Takes(0, 1, {"LOAD_LOCAL"}) /\ Takes(0, 1, {"LOAD_GLOBAL"}) /\ Takes(0, 1, {"ALLOC"})
  /\ Takes(1, 1, {"DUP"})
  /\ Takes(0, 0, QuietOps)
  /\ Takes(1, 0, UnaryOps)
  /\ Takes(2, 0, {"SWAP"})
  /\ Takes(1, -1, PrintOps) /\ Takes(1, -1, {"POP", "FREE"})
  /\ Takes(1, -1, {"STORE_LOCAL"}) /\ Takes(1, -1, {"STORE_GLOBAL"})
  /\ Takes(2, -1, BinaryOps) /\ Takes(2, -1, DivOps)
  /\ Takes(2, -1, {"STR_CONCAT"}) /\ Takes(2, -1, {"LOAD_PTR"})
  /\ Takes(3, -3, {"STORE_PTR"})
  BY SMTT(30) DEF Takes, StackEffect, Operands, Pushing, Popping, TransferOps, PushOps, IntBinOps,
         FltBinOps, IntCmpOps, LogicOps, BinaryOps, DivOps, UnaryOps, BranchOps,
         PrintOps, QuietOps, UnimplementedOps

(* An instruction that falls through to the next one.                       *)
LEMMA FallsThrough ==
  ASSUME VInv, NEW ops, Running(ops), NEW n \in Nat, NEW e \in Int, Takes(n, e, ops)
  PROVE  /\ Height(cert, Top.fn, Top.ip + 1) = H + e
         /\ n <= H
         /\ ~NeedsValues(n)
  <1>1. Ins \in Instr /\ Ins.op \in ops
    BY Granted DEF Running
  <1>2. /\ Ins.op \notin BranchOps \cup UnimplementedOps \cup TransferOps \cup {"JMP", "HALT"}
        /\ StackEffect(Ins.op) = e
        /\ Operands(Ins) = n
    BY <1>1 DEF Takes
  <1>3. Height(cert, Top.fn, Top.ip + 1) = H + StackEffect(Ins.op)
    BY <1>2, Granted DEF AddsUp, H, TransferOps
  <1> QED BY <1>2, <1>3, OperandsGranted, NoShortage

-----------------------------------------------------------------------------
(* One lemma per shape of handler. *)

Books == StackAddsUp /\ NeverUnderflows

LEMMA RunStopped ==
  ASSUME VInv, cert' = cert, NEW rest,
         NEW why \in {"ok", "overflow", "divzero", "type", "unimplemented", "panic"},
         Stop(why, rest)
  PROVE  Books'
  BY EndedRun DEF Stop, Store, Books, NeverUnderflows

LEMMA Moved ==
  ASSUME VInv, NEW ops, Running(ops), cert' = cert, module' = module, status' = status,
         NEW n \in Nat, NEW e \in Int, Takes(n, e, ops), n + e >= 0,
         frames' = Stepped, Len(stack') = Len(stack) + e
  PROVE  Books'
  <1>1. Height(cert, Top.fn, Top.ip + 1) = H + e /\ H + e >= 0
    BY FallsThrough, Granted
  <1>2. StackAddsUp'
    BY <1>1, FlowOn
  <1> QED BY <1>2 DEF Books, NeverUnderflows, VInv

LEMMA Pushed ==
  ASSUME VInv, NEW ops, Running(ops), cert' = cert, module' = module,
         NEW n \in Nat, NEW e \in Int, Takes(n, e, ops), n + e >= 0,
         frames' = Stepped,
         NEW rest \in Seq(Value), Len(rest) + 1 = Len(stack) + e,
         NEW v, PushOn(rest, v)
  PROVE  Books'
  <1>1. CASE Len(rest) < StackLimit
    BY <1>1, Moved DEF PushOn
  <1>2. CASE ~(Len(rest) < StackLimit)
    BY <1>2, EndedRun DEF PushOn, Books, NeverUnderflows
  <1> QED BY <1>1, <1>2

-----------------------------------------------------------------------------
(* The handlers that fall through. *)

LEMMA PushBooks ==
  ASSUME VInv, cert' = cert, Push
  PROVE  Books'
  <1>1. stack \in Seq(Value) /\ Len(stack) + 1 = Len(stack) + 1
    BY DEF VInv, IInv, TypeOK
  <1> QED BY <1>1, Pushed, EffectTable DEF Push, Store

LEMMA PopBooks ==
  ASSUME VInv, cert' = cert, Pop
  PROVE  Books'
  <1>1. Running({"POP", "FREE"}) /\ ~NeedsValues(1)
    BY EffectTable, FallsThrough DEF Pop
  <1>2. stack # <<>> /\ stack' = Below(1) /\ frames' = Stepped /\ UNCHANGED <<Store, status>>
    BY <1>1 DEF Pop
  <1> QED BY <1>1, <1>2, Moved, EffectTable, OperandTypes, DepthType DEF Store, VInv

LEMMA DupBooks ==
  ASSUME VInv, cert' = cert, Dup
  PROVE  Books'
  <1>1. Running({"DUP"}) /\ ~NeedsValues(1)
    BY EffectTable, FallsThrough DEF Dup
  <1>2. stack \in Seq(Value)
    BY DEF VInv, IInv, TypeOK
  <1> QED BY <1>1, <1>2, Pushed, EffectTable DEF Dup, Store

LEMMA SwapBooks ==
  ASSUME VInv, cert' = cert, Swap
  PROVE  Books'
  <1>1. Running({"SWAP"}) /\ ~NeedsValues(2)
    BY EffectTable, FallsThrough DEF Swap
  <1>2. /\ Len(stack) >= 2 /\ stack' = Below(2) \o <<Nth(1), Nth(2)>>
        /\ frames' = Stepped /\ UNCHANGED <<Store, status>>
    BY <1>1 DEF Swap
  <1>3. Below(2) \in Seq(Value) /\ Len(Below(2)) = Len(stack) - 2
        /\ Nth(1) \in Value /\ Nth(2) \in Value /\ Len(stack) \in Nat
    BY <1>2, OperandTypes, DepthType DEF VInv
  <1>4. Len(stack') = Len(stack) + 0
    BY <1>2, <1>3
  <1> QED BY <1>1, <1>2, <1>4, Moved, EffectTable DEF Store

LEMMA LoadLocalBooks ==
  ASSUME VInv, cert' = cert, LoadLocal
  PROVE  Books'
  <1>1. stack \in Seq(Value) /\ Len(stack) + 1 = Len(stack) + 1
    BY DEF VInv, IInv, TypeOK
  <1> QED BY <1>1, Pushed, EffectTable DEF LoadLocal, Store

LEMMA LoadGlobalBooks ==
  ASSUME VInv, cert' = cert, LoadGlobal
  PROVE  Books'
  <1>1. stack \in Seq(Value) /\ Len(stack) + 1 = Len(stack) + 1
    BY DEF VInv, IInv, TypeOK
  <1> QED BY <1>1, Pushed, EffectTable DEF LoadGlobal, Store

LEMMA StoreGlobalBooks ==
  ASSUME VInv, cert' = cert, StoreGlobal
  PROVE  Books'
  <1>1. Running({"STORE_GLOBAL"}) /\ ~NeedsValues(1)
    BY EffectTable, FallsThrough DEF StoreGlobal
  <1>2. /\ stack # <<>> /\ stack' = Below(1) /\ frames' = Stepped
        /\ module' = module /\ status' = status
    BY <1>1 DEF StoreGlobal
  <1> QED BY <1>1, <1>2, Moved, EffectTable, OperandTypes, DepthType DEF VInv

LEMMA UnaryBooks ==
  ASSUME VInv, cert' = cert, Unary
  PROVE  Books'
  <1>1. Running(UnaryOps) /\ ~NeedsValues(1)
    BY EffectTable, FallsThrough DEF Unary
  <1>2. CASE Stop("type", Below(1))
    BY <1>2, RunStopped
  <1>3. CASE /\ stack # <<>> /\ frames' = Stepped /\ UNCHANGED Store
             /\ \E v \in UnaryResults(Ins.op, Nth(1)) : PushOn(Below(1), v)
    <2>1. Below(1) \in Seq(Value) /\ Len(Below(1)) + 1 = Len(stack) + 0
      BY <1>3, OperandTypes, DepthType DEF VInv
    <2> QED BY <1>1, <1>3, <2>1, Pushed, EffectTable DEF Store
  <1> QED BY <1>1, <1>2, <1>3 DEF Unary

LEMMA BinaryBooks ==
  ASSUME VInv, cert' = cert, Binary
  PROVE  Books'
  <1>1. Running(BinaryOps) /\ ~NeedsValues(2)
    BY EffectTable, FallsThrough DEF Binary
  <1>2. CASE Stop("type", Below(2))
    BY <1>2, RunStopped
  <1>3. CASE /\ Len(stack) >= 2 /\ frames' = Stepped /\ UNCHANGED Store
             /\ \E v \in BinaryResults(Ins.op, Nth(2), Nth(1)) : PushOn(Below(2), v)
    <2>1. Below(2) \in Seq(Value) /\ Len(Below(2)) + 1 = Len(stack) + -1
      BY <1>3, OperandTypes, DepthType DEF VInv
    <2> QED BY <1>1, <1>3, <2>1, Pushed, EffectTable DEF Store
  <1> QED BY <1>1, <1>2, <1>3 DEF Binary

LEMMA DivideBooks ==
  ASSUME VInv, cert' = cert, Divide
  PROVE  Books'
  <1>1. Running(DivOps) /\ ~NeedsValues(2)
    BY EffectTable, FallsThrough DEF Divide
  <1>2. CASE \E why \in {"type", "divzero", "panic"} : Stop(why, Below(2))
    BY <1>2, RunStopped
  <1>3. CASE /\ Len(stack) >= 2 /\ frames' = Stepped /\ UNCHANGED Store
             /\ \E v : PushOn(Below(2), v)
    <2>1. Below(2) \in Seq(Value) /\ Len(Below(2)) + 1 = Len(stack) + -1
      BY <1>3, OperandTypes, DepthType DEF VInv
    <2> QED BY <1>1, <1>3, <2>1, Pushed, EffectTable DEF Store
  <1> QED BY <1>1, <1>2, <1>3 DEF Divide

LEMMA StrConcatBooks ==
  ASSUME VInv, cert' = cert, StrConcat
  PROVE  Books'
  <1>1. Running({"STR_CONCAT"}) /\ ~NeedsValues(2)
    BY EffectTable, FallsThrough DEF StrConcat
  <1>2. CASE \E why \in {"type", "panic"} : Stop(why, Below(2))
    BY <1>2, RunStopped
  <1>3. CASE /\ Len(stack) >= 2 /\ frames' = Stepped /\ UNCHANGED Store
             /\ \E v : PushOn(Below(2), v)
    <2>1. Below(2) \in Seq(Value) /\ Len(Below(2)) + 1 = Len(stack) + -1
      BY <1>3, OperandTypes, DepthType DEF VInv
    <2> QED BY <1>1, <1>3, <2>1, Pushed, EffectTable DEF Store
  <1> QED BY <1>1, <1>2, <1>3 DEF StrConcat

LEMMA AllocBooks ==
  ASSUME VInv, cert' = cert, Alloc
  PROVE  Books'
  <1>1. stack \in Seq(Value) /\ Len(stack) + 1 = Len(stack) + 1
    BY DEF VInv, IInv, TypeOK
  <1>2. CASE Stop("panic", stack)
    BY <1>2, RunStopped
  <1>3. CASE ~Stop("panic", stack)
    BY <1>1, <1>3, Pushed, EffectTable DEF Alloc
  <1> QED BY <1>2, <1>3

LEMMA LoadPtrBooks ==
  ASSUME VInv, cert' = cert, LoadPtr
  PROVE  Books'
  <1>1. Running({"LOAD_PTR"}) /\ ~NeedsValues(2)
    BY EffectTable, FallsThrough DEF LoadPtr
  <1>2. CASE Stop("type", Below(2))
    BY <1>2, RunStopped
  <1>3. CASE /\ Len(stack) >= 2 /\ frames' = Stepped /\ UNCHANGED Store
             /\ \E v : PushOn(Below(2), v)
    <2>1. Below(2) \in Seq(Value) /\ Len(Below(2)) + 1 = Len(stack) + -1
      BY <1>3, OperandTypes, DepthType DEF VInv
    <2> QED BY <1>1, <1>3, <2>1, Pushed, EffectTable DEF Store
  <1> QED BY <1>1, <1>2, <1>3 DEF LoadPtr

LEMMA StorePtrBooks ==
  ASSUME VInv, cert' = cert, StorePtr
  PROVE  Books'
  <1>1. Running({"STORE_PTR"}) /\ ~NeedsValues(3)
    BY EffectTable, FallsThrough DEF StorePtr
  <1>2. /\ Len(stack) >= 3 /\ stack' = Below(3) /\ frames' = Stepped
        /\ module' = module /\ status' = status
    BY <1>1 DEF StorePtr
  <1> QED BY <1>1, <1>2, Moved, EffectTable, OperandTypes, DepthType DEF VInv

LEMMA PrintBooks ==
  ASSUME VInv, cert' = cert, PrintValue
  PROVE  Books'
  <1>1. Running(PrintOps) /\ ~NeedsValues(1)
    BY EffectTable, FallsThrough DEF PrintValue
  <1>2. /\ stack # <<>> /\ stack' = Below(1) /\ frames' = Stepped
        /\ module' = module /\ status' = status
    BY <1>1 DEF PrintValue
  <1> QED BY <1>1, <1>2, Moved, EffectTable, OperandTypes, DepthType DEF VInv

LEMMA QuietBooks ==
  ASSUME VInv, cert' = cert, Quiet
  PROVE  Books'
  <1>1. /\ Running(QuietOps) /\ frames' = Stepped
        /\ module' = module /\ status' = status
    BY DEF Quiet, Store
  <1>2. Len(stack') = Len(stack) + 0
    BY DepthType DEF VInv, Quiet
  <1>3. Takes(0, 0, QuietOps) /\ 0 + 0 >= 0
    BY EffectTable
  <1> QED BY <1>1, <1>2, <1>3, Moved

LEMMA HaltBooks ==
  ASSUME VInv, cert' = cert, Halt \/ Unimplemented
  PROVE  Books'
  BY RunStopped DEF Halt, Unimplemented

(* A local slot past the frame's end grows the frame, not the stack.        *)
LEMMA StoreLocalBooks ==
  ASSUME VInv, cert' = cert, StoreLocal
  PROVE  Books'
  <1>1. Running({"STORE_LOCAL"}) /\ ~NeedsValues(1)
    BY EffectTable, FallsThrough DEF StoreLocal
  <1>2. CASE Stop("panic", Below(1))
    BY <1>2, RunStopped
  <1>3. CASE ~Stop("panic", Below(1))
    <2>1. PICK slots :
             /\ stack # <<>> /\ stack' = Below(1)
             /\ frames' = WithTop([Top EXCEPT !.ip = @ + 1, !.locals = slots])
             /\ UNCHANGED <<Store, status>>
      BY <1>1, <1>3 DEF StoreLocal
    <2> DEFINE f == [Top EXCEPT !.ip = @ + 1, !.locals = slots]
    <2>2. IInv' /\ status = "running" /\ frames # <<>> /\ frames \in Seq(Frame)
      BY <1>1, StoreLocalKept DEF VInv, Running, IInv, TypeOK
    <2>3. Top \in Frame /\ Top.base \in Nat
      BY <1>1, Granted DEF Frame
    <2>4. f.fn = Top.fn /\ f.base = Top.base /\ f.ip = Top.ip + 1
      BY <2>3 DEF Frame
    <2>5. frames' = WithTop(f)
      BY <2>1
    <2> HIDE DEF f
    <2>6. f \in Frame
      BY <2>2, <2>5 DEF IInv, TypeOK, WithTop
    <2>7. Height(cert, f.fn, f.ip) = H - 1 /\ H >= 1
      <3>1. Takes(1, -1, {"STORE_LOCAL"}) /\ H \in Nat
        BY <1>1, EffectTable, Granted
      <3>2. Height(cert, Top.fn, Top.ip + 1) = H + -1 /\ 1 <= H
        BY <1>1, <3>1, FallsThrough
      <3> QED BY <2>4, <3>1, <3>2
    <2>8. Len(stack') = Top.base + Height(cert, f.fn, f.ip) /\ Len(stack) = Top.base + H
      BY <1>1, <2>1, <2>3, <2>7, Granted, OperandTypes, DepthType DEF VInv
    <2>9. H \in Nat
      BY <1>1, Granted
    <2>10. StackAddsUp'
      BY <1>1, <2>1, <2>4, <2>5, <2>6, <2>7, <2>8, <2>9, InFrame DEF Store
    <2> QED BY <2>1, <2>10 DEF Books, NeverUnderflows, VInv
  <1> QED BY <1>2, <1>3

-----------------------------------------------------------------------------
(* Jumps, calls and returns. *)

LEMMA InRange ==
  ASSUME NEW n \in Int64, n >= 0
  PROVE  AsUsize(n) = n
  BY WordAssumption DEF Int64, AsUsize

LEMMA Landed ==
  ASSUME VInv, cert' = cert, NEW ops, Running(ops), module' = module, status' = status,
         NEW ip \in Nat, frames' = Jump(ip), NEW h \in Nat,
         Height(cert, Top.fn, ip) = h, Len(stack') = Top.base + h
  PROVE  Books'
  <1> DEFINE f == [Top EXCEPT !.ip = ip]
  <1>1. Top \in Frame
    BY Granted
  <1>2. f \in Frame /\ f.fn = Top.fn /\ f.base = Top.base /\ f.ip = ip
    BY <1>1 DEF Frame
  <1>3. frames' = WithTop(f)
    BY DEF Jump
  <1> HIDE DEF f
  <1>4. StackAddsUp'
    BY <1>2, <1>3, InFrame
  <1> QED BY <1>4 DEF Books, NeverUnderflows, VInv

LEMMA GotoBooks ==
  ASSUME VInv, cert' = cert, Goto
  PROVE  Books'
  <1>1. Running({"JMP"}) /\ frames' = Jump(AsUsize(Ins.a)) /\ UNCHANGED <<Store, stack, status>>
    BY DEF Goto
  <1>2. Ins \in Instr /\ Ins.op = "JMP" /\ H \in Nat /\ Len(stack) = Top.base + H
    BY <1>1, Granted DEF Running
  <1>3. Ins.a >= 0 /\ Height(cert, Top.fn, Ins.a) = H
    BY <1>1, <1>2, Granted DEF AddsUp, H, BranchOps, UnimplementedOps
  <1>4. AsUsize(Ins.a) = Ins.a /\ Ins.a \in Nat
    BY <1>2, <1>3, InRange, WordAssumption DEF Instr, Int64
  <1> QED BY <1>1, <1>2, <1>3, <1>4, Landed DEF Store

LEMMA BranchBooks ==
  ASSUME VInv, cert' = cert, Branch
  PROVE  Books'
  <1>1. Running(BranchOps)
    BY DEF Branch
  <1>2. /\ Ins \in Instr /\ Ins.op \in BranchOps /\ H \in Nat
        /\ Len(stack) = Top.base + H /\ Top.base \in Nat /\ Top.ip + 1 \in Nat
    BY <1>1, Granted DEF Running, Frame
  <1>3. Operands(Ins) = 1 /\ H >= 1 /\ ~NeedsValues(1)
    <2>1. Operands(Ins) = 1
      BY <1>2 DEF Operands, BranchOps, UnaryOps, PrintOps, BinaryOps, IntBinOps,
             FltBinOps, IntCmpOps, LogicOps, DivOps
    <2> QED BY <1>1, <1>2, <2>1, OperandsGranted, NoShortage
  <1>4. /\ Ins.a >= 0 /\ Height(cert, Top.fn, Ins.a) = H - 1
        /\ Height(cert, Top.fn, Top.ip + 1) = H - 1
    BY <1>1, <1>2, Granted DEF AddsUp, H, BranchOps, UnimplementedOps
  <1>5. AsUsize(Ins.a) = Ins.a /\ Ins.a \in Nat
    BY <1>2, <1>4, InRange, WordAssumption DEF Instr, Int64
  <1>6. /\ stack # <<>> /\ stack' = Below(1) /\ UNCHANGED <<Store, status>>
        /\ frames' \in {Jump(Ins.a), Jump(Top.ip + 1)}
    BY <1>3, <1>5 DEF Branch, Stepped
  <1>7. Len(stack') = Top.base + (H - 1) /\ H - 1 \in Nat
    BY <1>2, <1>3, <1>6, OperandTypes, DepthType DEF VInv
  <1> QED BY <1>1, <1>2, <1>4, <1>5, <1>6, <1>7, Landed DEF Store

(* What CALL and TAIL_CALL are granted.                                     *)
LEMMA CallGranted ==
  ASSUME VInv, NEW op \in {"CALL", "TAIL_CALL"}, Running({op})
  PROVE  /\ AsUsize(Ins.a) = Ins.a /\ Ins.a \in Functions(cert)
         /\ AsUsize(Ins.b) = Ins.b /\ Ins.b \in 0 .. H
         /\ ~NeedsValues(Ins.b)
         /\ op = "CALL" => Height(cert, Top.fn, Top.ip + 1)
                              = H - Ins.b + Arity(cert, Ins.a)
         /\ op = "TAIL_CALL" => Arity(cert, Ins.a) = Arity(cert, Top.fn)
  <1>1. Ins \in Instr /\ Ins.op = op /\ H \in Nat
    BY Granted DEF Running
  <1>2. Operands(Ins) = Ins.b
    BY <1>1 DEF Operands, BranchOps, UnaryOps, PrintOps, BinaryOps, IntBinOps,
           FltBinOps, IntCmpOps, LogicOps, DivOps
  <1>3. Ins.b \in 0 .. H /\ ~NeedsValues(Ins.b)
    BY <1>2, OperandsGranted, NoShortage
  <1>4. /\ Ins.a \in Functions(cert)
        /\ op = "CALL" => Height(cert, Top.fn, Top.ip + 1)
                              = H - Ins.b + Arity(cert, Ins.a)
        /\ op = "TAIL_CALL" => Arity(cert, Ins.a) = Arity(cert, Top.fn)
    BY <1>1, Granted DEF AddsUp, H, BranchOps, UnimplementedOps
  <1>5. Ins.a >= 0
    BY <1>4 DEF Functions
  <1> QED BY <1>1, <1>3, <1>4, <1>5, InRange DEF Instr

LEMMA CallBooks ==
  ASSUME VInv, cert' = cert, Call
  PROVE  Books'
  <1>1. Running({"CALL"}) /\ IInv'
    BY CallKept DEF Call, VInv
  <1>2. /\ AsUsize(Ins.a) = Ins.a /\ Ins.a \in Functions(cert)
        /\ AsUsize(Ins.b) = Ins.b /\ Ins.b \in 0 .. H
        /\ ~NeedsValues(Ins.b)
        /\ Height(cert, Top.fn, Top.ip + 1) = H - Ins.b + Arity(cert, Ins.a)
    BY <1>1, CallGranted
  <1>3. /\ Len(stack) = Top.base + H /\ H \in Nat /\ Top.base \in Nat
        /\ status = "running" /\ frames # <<>> /\ cert.module = module
    BY <1>1, Granted DEF Frame, Running, VInv, StackAddsUp
  <1>4. CASE Stop("panic", stack)
    BY <1>4, RunStopped
  <1>5. CASE CallFn(Ins.a, Args(Ins.b), Stepped, Below(Ins.b))
    <2>1. module' = module /\ stack' = Below(Ins.b)
      BY <1>5 DEF CallFn, Store
    <2>2. Len(stack') = Top.base + H - Ins.b /\ Len(stack') \in Nat /\ Len(stack') >= Top.base
      <3>1. Ins.b \in Nat /\ Ins.b <= Len(stack) /\ IInv
        BY <1>2, <1>3 DEF VInv
      <3>2. Len(Below(Ins.b)) = Len(stack) - Ins.b
        BY <3>1, OperandTypes
      <3> QED BY <1>2, <1>3, <2>1, <3>1, <3>2
    <2>3. ~(Ins.a >= Len(module.functions))
      BY <1>2, <1>3 DEF Functions, VInv, IInv, TypeOK, Module
    <2>4. CASE status' = "panic"
      BY <2>1, <2>4, EndedRun DEF Books, NeverUnderflows
    <2>5. CASE /\ status' = "running"
               /\ frames' = Append(Stepped, NewFrame(Ins.a, Args(Ins.b), Len(Below(Ins.b))))
      <3> DEFINE f == NewFrame(Ins.a, Args(Ins.b), Len(Below(Ins.b)))
      <3>1. f.fn = Ins.a /\ f.ip = 0 /\ f.base = Len(stack')
        BY <2>1 DEF NewFrame
      <3>2. frames' = Append(Stepped, f)
        BY <2>5
      <3> HIDE DEF f
      <3>3. Stepped \in Seq(Frame) /\ frames' \in Seq(Frame)
        BY <1>1, SteppedKept DEF VInv, IInv, TypeOK
      <3>4. f \in Frame
        <4>1. frames'[Len(Stepped) + 1] = f /\ Len(Stepped) + 1 \in 1 .. Len(frames')
          BY <3>2, <3>3
        <4> QED BY <3>3, <4>1
      <3>5. Height(cert, Top.fn, Top.ip + 1) = Len(stack') - Top.base + Arity(cert, f.fn)
        BY <1>2, <1>3, <2>2, <3>1
      <3>6. StackAddsUp'
        BY <1>1, <1>2, <2>1, <2>2, <3>1, <3>2, <3>4, <3>5, Entered
      <3> QED BY <2>5, <3>6 DEF Books, NeverUnderflows
    <2> QED BY <1>5, <2>3, <2>4, <2>5 DEF CallFn
  <1> QED BY <1>2, <1>4, <1>5 DEF Call

(* The first `base` values of what is left under the arguments are all      *)
(* there: the certificate grants the running frame at least its arguments.  *)
LEMMA CutToBase ==
  ASSUME VInv, NEW ops, Running(ops), NEW n \in 0 .. H
  PROVE  /\ Prefix(Below(n), Top.base) \in Seq(Value)
         /\ Len(Prefix(Below(n), Top.base)) = Top.base
         /\ n = 0 => Below(n) = stack
  <1>1. Len(stack) = Top.base + H /\ H \in Nat /\ Top.base \in Nat
    BY Granted DEF Frame
  <1>2. Below(n) \in Seq(Value) /\ Len(Below(n)) = Len(stack) - n /\ stack \in Seq(Value)
    BY <1>1, OperandTypes DEF VInv, IInv, TypeOK
  <1>3. n = 0 => Below(n) = stack
    BY <1>2 DEF Below
  <1>4. Len(Below(n)) >= Top.base
    BY <1>1, <1>2
  <1> QED BY <1>1, <1>2, <1>3, <1>4 DEF Prefix

LEMMA TailCallBooks ==
  ASSUME VInv, cert' = cert, TailCall
  PROVE  Books'
  <1>1. Running({"TAIL_CALL"}) /\ IInv'
    BY TailCallKept DEF TailCall, VInv
  <1>2. /\ AsUsize(Ins.a) = Ins.a /\ Ins.a \in Functions(cert)
        /\ AsUsize(Ins.b) = Ins.b /\ Ins.b \in 0 .. H
        /\ ~NeedsValues(Ins.b) /\ Arity(cert, Ins.a) = Arity(cert, Top.fn)
    BY <1>1, CallGranted
  <1>3. /\ status = "running" /\ frames # <<>> /\ cert.module = module
    BY <1>1 DEF Running, VInv, StackAddsUp
  <1> DEFINE rest == Prefix(Below(Ins.b), Top.base)
  <1>4. rest \in Seq(Value) /\ Len(rest) = Top.base
    BY <1>1, <1>2, CutToBase
  <1>5. CASE Stop("panic", stack)
    BY <1>5, RunStopped
  <1>6. CASE CallFn(Ins.a, Args(Ins.b), Callers, rest)
    <2>1. module' = module /\ stack' = rest
      BY <1>6 DEF CallFn, Store
    <2>2. ~(Ins.a >= Len(module.functions))
      BY <1>2, <1>3 DEF Functions, VInv, IInv, TypeOK, Module
    <2>3. CASE status' = "panic"
      BY <2>1, <2>3, EndedRun DEF Books, NeverUnderflows
    <2>4. CASE /\ status' = "running"
               /\ frames' = Append(Callers, NewFrame(Ins.a, Args(Ins.b), Len(rest)))
      <3> DEFINE f == NewFrame(Ins.a, Args(Ins.b), Len(rest))
      <3>1. f.fn = Ins.a /\ f.ip = 0 /\ f.base = Top.base
        BY <1>4 DEF NewFrame
      <3>2. frames' = Append(Callers, f)
        BY <2>4
      <3> HIDE DEF f
      <3>3. Callers \in Seq(Frame) /\ frames' \in Seq(Frame)
        BY <1>1, <1>3, CallersKept DEF VInv, IInv, TypeOK
      <3>4. f \in Frame
        <4>1. frames'[Len(Callers) + 1] = f /\ Len(Callers) + 1 \in 1 .. Len(frames')
          BY <3>2, <3>3
        <4> QED BY <3>3, <4>1
      <3>5. Len(stack') = Top.base
        BY <1>4, <2>1
      <3>6. StackAddsUp'
        BY <1>2, <1>3, <2>1, <3>1, <3>2, <3>4, <3>5, Replaced
      <3> QED BY <2>4, <3>6 DEF Books, NeverUnderflows
    <2> QED BY <1>6, <2>2, <2>3, <2>4 DEF CallFn
  <1> QED BY <1>2, <1>5, <1>6 DEF TailCall

LEMMA ReturnGranted ==
  ASSUME VInv, NEW op \in {"RETURN", "RETURN_VOID"}, Running({op})
  PROVE  /\ op = "RETURN" => Arity(cert, Top.fn) = 1 /\ 1 <= H /\ ~NeedsValues(1)
         /\ op = "RETURN_VOID" => Arity(cert, Top.fn) = 0
  <1>1. Ins \in Instr /\ Ins.op = op /\ H \in Nat
    BY Granted DEF Running
  <1>2. op = "RETURN" => Operands(Ins) = 1
    BY <1>1 DEF Operands, BranchOps, UnaryOps, PrintOps, BinaryOps, IntBinOps,
           FltBinOps, IntCmpOps, LogicOps, DivOps
  <1>3. op = "RETURN" => 1 <= H /\ ~NeedsValues(1)
    BY <1>2, OperandsGranted, NoShortage
  <1> QED BY <1>1, <1>3, Granted DEF AddsUp, H, BranchOps, UnimplementedOps

(* Leaving the last frame ends the run; leaving any other keeps the books.  *)
LEMMA LeftOrEnded ==
  ASSUME VInv, status = "running", module' = module, cert' = cert,
         frames' = Callers, status' = Ended,
         Len(stack') = Top.base + Arity(cert, Top.fn)
  PROVE  Books'
  <1>1. CASE Callers = <<>>
    BY <1>1, EndedRun DEF Ended, Books, NeverUnderflows
  <1>2. CASE Callers # <<>>
    BY <1>2, Left DEF Ended, Books, NeverUnderflows
  <1> QED BY <1>1, <1>2

LEMMA ReturnBooks ==
  ASSUME VInv, cert' = cert, Return
  PROVE  Books'
  <1>1. Running({"RETURN"}) /\ status = "running"
    BY DEF Return, Running
  <1>2. Arity(cert, Top.fn) = 1 /\ 1 <= H /\ ~NeedsValues(1) /\ H \in Nat
    BY <1>1, ReturnGranted, Granted
  <1> DEFINE rest == Prefix(Below(1), Top.base)
  <1>3. rest \in Seq(Value) /\ Len(rest) = Top.base
    BY <1>1, <1>2, CutToBase
  <1>4. frames' = Callers /\ module' = module
    BY <1>2 DEF Return, Store
  <1>5. CASE status' = "overflow"
    BY <1>4, <1>5, EndedRun DEF Books, NeverUnderflows
  <1>6. CASE stack' = Append(rest, Nth(1)) /\ status' = Ended
    <2>1. Len(stack') = Top.base + Arity(cert, Top.fn)
      BY <1>2, <1>3, <1>6
    <2> QED BY <1>1, <1>4, <1>6, <2>1, LeftOrEnded
  <1> QED BY <1>2, <1>5, <1>6 DEF Return

LEMMA ReturnVoidBooks ==
  ASSUME VInv, cert' = cert, ReturnVoid
  PROVE  Books'
  <1>1. Running({"RETURN_VOID"}) /\ status = "running"
    BY DEF ReturnVoid, Running
  <1>2. Arity(cert, Top.fn) = 0 /\ H \in Nat /\ Top.base \in Nat
    BY <1>1, ReturnGranted, Granted DEF Frame
  <1>3. Len(Prefix(stack, Top.base)) = Top.base
    BY <1>1, <1>2, CutToBase
  <1> QED BY <1>1, <1>2, <1>3, LeftOrEnded DEF ReturnVoid, Store

LEMMA FallOffBooks ==
  ASSUME VInv, cert' = cert, FallOff
  PROVE  Books'
  <1>1. /\ status = "running" /\ frames \in Seq(Frame) /\ frames # <<>>
        /\ GrantedFrames /\ GrantedTop /\ cert.module = module
    BY DEF FallOff, VInv, IInv, TypeOK, StackAddsUp
  <1>2. CodeOf(cert, Top.fn) = Code(Top) /\ ~(Top.ip < Len(Code(Top)))
    <2>1. Top \in Frame /\ module.functions \in Seq(Function)
          /\ Top.fn + 1 \in 1 .. Len(module.functions)
      <3>1. Len(frames) \in DOMAIN frames /\ Top = frames[Len(frames)]
        BY <1>1 DEF Top
      <3>2. Top \in Frame /\ Top.fn \in Functions(cert)
        BY <1>1, <3>1 DEF GrantedFrames
      <3> QED BY <1>1, <3>2 DEF Functions, VInv, IInv, TypeOK, Module
    <2>2. Len(Code(Top)) \in Nat /\ Top.ip \in Nat
      <3>1. module.functions[Top.fn + 1] \in Function
        BY <2>1
      <3>2. Code(Top) \in Seq(Instr)
        BY <3>1 DEF Code, Function
      <3>3. Top.ip \in Nat
        BY <2>1 DEF Frame
      <3> QED BY <3>2, <3>3
    <2> QED BY <1>1, <2>2 DEF CodeOf, Code, FallOff
  <1>3. Len(stack) = Top.base + Arity(cert, Top.fn)
    BY <1>1, <1>2 DEF GrantedTop, FrameHeight, Height
  <1> QED BY <1>1, <1>3, LeftOrEnded DEF FallOff, Store

-----------------------------------------------------------------------------
(* The inductive invariant. *)

LEMMA VInitKept == VInit => VInv
  <1> SUFFICES ASSUME VInit PROVE VInv
    OBVIOUS
  <1>1. Init
    BY CertifiedAssumption DEF VInit, Init
  <1> QED BY <1>1, InitKept DEF VInit, VInv, StackAddsUp, NeverUnderflows, Fresh

(* The entry function starts with the empty stack its certificate expects.  *)
LEMMA StartBooks ==
  ASSUME VInv, cert' = cert, Start
  PROVE  Books'
  <1>1. /\ module' = module /\ stack' = <<>> /\ status = "loaded" /\ cert.module = module
        /\ module \in Module
    BY DEF Start, CallFn, Store, VInv, StackAddsUp, IInv, TypeOK
  <1>2. module.entry \in Functions(cert) /\ ~(module.entry >= Len(module.functions))
    BY <1>1, CertFacts DEF VInv, Consistent, Functions, Module
  <1>3. CASE status' = "panic"
    BY <1>1, <1>3, EndedRun DEF Books, NeverUnderflows
  <1>4. CASE /\ status' = "running"
             /\ frames' = Append(<<>>, NewFrame(module.entry, <<>>, Len(<<>>)))
    <2>1. /\ Len(frames') = 1 /\ frames' # <<>> /\ DOMAIN frames' = {1}
          /\ frames'[1].fn = module.entry /\ frames'[1].ip = 0 /\ frames'[1].base = 0
      BY <1>4 DEF NewFrame
    <2>2. Height(cert, module.entry, 0) = 0
      BY <1>2, EntryHeight
    <2>3. GrantedTop'
      BY <1>1, <2>1, <2>2 DEF GrantedTop, FrameHeight, Top
    <2>4. GrantedFrames' /\ GrantedCallers'
      BY <1>2, <2>1, <2>2 DEF GrantedFrames, GrantedCallers, FrameHeight
    <2> QED BY <1>1, <1>4, <2>1, <2>3, <2>4
            DEF StackAddsUp, Books, NeverUnderflows
  <1> QED BY <1>2, <1>3, <1>4 DEF Start, CallFn

LEMMA VNextKept == VInv /\ [VNext]_<<vars, cert>> => VInv'
  <1> SUFFICES ASSUME VInv, [VNext]_<<vars, cert>> PROVE VInv'
    OBVIOUS
  <1>1. CASE UNCHANGED <<vars, cert>>
    <2>1. IInv'
      BY <1>1, NextKept DEF VInv
    <2> QED BY <1>1, <2>1
            DEF VInv, vars, StackAddsUp, GrantedFrames, GrantedCallers, GrantedTop,
                FrameHeight, Top, NeverUnderflows
  <1>2. CASE VNext
    <2>1. IInv' /\ cert' = cert
      BY <1>2, NextKept DEF VInv, VNext
    <2>2. Books'
      BY <1>2, StartBooks, PushBooks, PopBooks, DupBooks, SwapBooks, LoadLocalBooks,
         StoreLocalBooks, LoadGlobalBooks, StoreGlobalBooks, UnaryBooks, BinaryBooks,
         DivideBooks, StrConcatBooks, AllocBooks, LoadPtrBooks, StorePtrBooks,
         PrintBooks, QuietBooks, HaltBooks, GotoBooks, BranchBooks, CallBooks,
         TailCallBooks, ReturnBooks, ReturnVoidBooks, FallOffBooks
         DEF VNext, Next
    <2> QED BY <2>1, <2>2 DEF VInv, Books
  <1> QED BY <1>1, <1>2

LEMMA CertifiedInvariance == VSpec => []VInv
  BY VInitKept, VNextKept, PTL DEF VSpec

(* On certified bytecode the shared value stack is at every     *)
(* instruction exactly what the certificate grants: the running frame has   *)
(* its height above its base and no frame has lost or gained a value.       *)
THEOREM BooksBalance == VSpec => []StackAddsUp
  <1>1. VInv => StackAddsUp
    BY DEF VInv
  <1> QED BY <1>1, CertifiedInvariance, PTL

(* Certified bytecode never fails with "stack underflow" or     *)
(* "invalid function": pop() and call_fn() of vm.rs always find what they   *)
(* look for, whatever the program's data.                                   *)
THEOREM CertifiedNeverUnderflows == VSpec => []NeverUnderflows
  <1>1. VInv => NeverUnderflows
    BY DEF VInv
  <1> QED BY <1>1, CertifiedInvariance, PTL
=============================================================================
