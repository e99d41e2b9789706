------------------------ MODULE AstraDebugger_proofs ------------------------
(***************************************************************************)
(* The debugged machine keeps the session's promise, on every bytecode and *)
(* whatever the user answers.                                              *)
(***************************************************************************)
EXTENDS AstraDebugger, AstraVM_proofs

(* A question or a granted step is always about a fetched instruction; with *)
(* IInv, which types the fetch, this is inductive.  The step mode always    *)
(* remembers the user's last word, except that BREAKPOINT may turn it on.   *)
Remembers ==
    /\ ~stepping => line = "c"
    /\ hook = "go" => stepping = (line # "c")

DInv ==
    /\ IInv
    /\ DTypeOK
    /\ Remembers
    /\ hook # "head" => Fetched

-----------------------------------------------------------------------------
LEMMA ModuleKept == Next => module' = module
  BY DEF Next, Store, Start, CallFn, Stop, NeedsValues, Push, Pop, Dup, Swap,
     LoadLocal, StoreLocal, LoadGlobal, StoreGlobal, Unary, Binary, Divide,
     StrConcat, Alloc, LoadPtr, StorePtr, PrintValue, Quiet, Halt, Unimplemented,
     Goto, Branch, Call, TailCall, Return, ReturnVoid, FallOff

LEMMA PlaceType ==
  ASSUME IInv, Fetched
  PROVE  /\ Top.fn \in Nat /\ Top.ip \in Nat
         /\ Top.fn < Len(module.functions)
         /\ Len(Code(Top)) \in Nat /\ Top.ip < Len(Code(Top))
         /\ Here = Place /\ Here # <<>>
  <1>1. Running({Ins.op})
    BY DEF Fetched, Running
  <1>2. Top \in Frame /\ Top.fn < Len(module.functions)
    BY <1>1, FetchType
  <1>3. Code(Top) \in Seq(Instr)
    <2>1. module.functions \in Seq(Function)
      BY DEF IInv, TypeOK, Module
    <2>2. module.functions[Top.fn + 1] \in Function
      BY <1>2, <2>1 DEF Frame
    <2> QED BY <2>2 DEF Function, Code
  <1> QED BY <1>2, <1>3 DEF Fetched, Here, Place, Frame

(* The places of BREAKPOINT instructions are those the loop stops at.       *)
LEMMA StopsAreBreakpoints ==
  ASSUME IInv, Fetched
  PROVE  Here \in Stops <=> StopsHere
  <1> DEFINE fns == module.functions
             places(f) == {<<f - 1, i - 1>> : i \in {j \in DOMAIN fns[f].code :
                              fns[f].code[j].op = "BREAKPOINT"}}
             f0 == Top.fn + 1
             i0 == Top.ip + 1
  <1>1. /\ fns \in Seq(Function)
        /\ f0 \in DOMAIN fns
        /\ i0 \in DOMAIN fns[f0].code
        /\ Ins = fns[f0].code[i0]
        /\ Here = <<f0 - 1, i0 - 1>>
    <2>1. fns \in Seq(Function) /\ f0 \in DOMAIN fns
      BY PlaceType DEF IInv, TypeOK, Module
    <2>2. fns[f0].code \in Seq(Instr)
      <3> HIDE DEF fns
      <3>1. fns[f0] \in Function
        BY <2>1
      <3> QED BY <3>1 DEF Function
    <2>3. Code(Top) = fns[f0].code /\ Ins = fns[f0].code[i0]
      BY DEF Code, Ins
    <2>4. i0 \in DOMAIN fns[f0].code
      <3> HIDE DEF fns, f0
      <3> QED BY <2>2, <2>3, PlaceType
    <2>5. Here = <<f0 - 1, i0 - 1>>
      BY PlaceType DEF Place
    <2> QED BY <2>1, <2>3, <2>4, <2>5
  <1>2. ASSUME StopsHere PROVE Here \in Stops
    <2>1. Here \in places(f0)
      BY <1>1, <1>2 DEF StopsHere
    <2> QED BY <1>1, <2>1 DEF Stops
  <1>3. ASSUME Here \in Stops PROVE StopsHere
    <2>1. PICK f \in DOMAIN fns : Here \in places(f)
      BY <1>3 DEF Stops
    <2>2. PICK i \in DOMAIN fns[f].code :
             fns[f].code[i].op = "BREAKPOINT" /\ Here = <<f - 1, i - 1>>
      BY <2>1
    <2>3. f \in Int /\ i \in Int
      <3> HIDE DEF fns
      <3>1. f \in Int /\ fns[f] \in Function
        BY <1>1
      <3>2. fns[f].code \in Seq(Instr)
        BY <3>1 DEF Function
      <3> QED BY <3>1, <3>2
    <2>4. f - 1 = f0 - 1 /\ i - 1 = i0 - 1
      BY <1>1, <2>2
    <2>5. f0 \in Int /\ i0 \in Int
      BY PlaceType
    <2>6. f = f0 /\ i = i0
      <3> HIDE DEF f0, i0
      <3> QED BY <2>3, <2>4, <2>5
    <2> QED BY <1>1, <2>2, <2>6 DEF StopsHere
  <1> QED BY <1>2, <1>3

-----------------------------------------------------------------------------
LEMMA DInitKept == DInit => DInv
  BY InitKept, BreakableAssumption DEF DInit, DInv, DTypeOK, Remembers

LEMMA DNextKept == DInv /\ [DNext]_dvars => DInv'
  <1> SUFFICES ASSUME DInv, [DNext]_dvars PROVE DInv'
    OBVIOUS
  <1> USE DEF DInv, Remembers
  <1>1. CASE UNCHANGED dvars
    <2>1. IInv'
      BY <1>1, NextKept DEF dvars
    <2> QED BY <1>1, <2>1 DEF dvars, debugger, vars, DTypeOK, Fetched, Top, Code
  <1>2. CASE Pass
    <2>1. Next
      BY <1>2 DEF Pass, Next
    <2> QED BY <1>2, <2>1, NextKept DEF Pass, debugger, DTypeOK
  <1>3. CASE Hook
    <2>1. IInv'
      BY <1>3, NextKept DEF Hook
    <2>2. Fetched' /\ DTypeOK'
      BY <1>3 DEF Hook, DTypeOK, Fetched, vars, Top, Code
    <2>3. Remembers'
      BY <1>3 DEF Hook, ShouldPause, DTypeOK
    <2> QED BY <2>1, <2>2, <2>3
  <1>4. CASE Step \/ Continue
    BY <1>4, NextKept
       DEF Step, Continue, Command, DTypeOK, Fetched, vars, Top, Code
  <1>5. CASE Quit
    BY <1>5 DEF Quit, Store, DTypeOK, IInv, TypeOK, StackBounded, RunningHasFrame,
       TraceIndexesFunctions, Status
  <1>6. ASSUME NEW p \in Breakable, SetPoint(p) \/ DelPoint(p) PROVE DInv'
    BY <1>6, NextKept DEF SetPoint, DelPoint, DTypeOK, Fetched, vars, Top, Code
  <1>7. CASE Execute
    BY <1>7, NextKept DEF Execute, DTypeOK, StopsHere
  <1> QED BY <1>1, <1>2, <1>3, <1>4, <1>5, <1>6, <1>7 DEF DNext, User, Loop

LEMMA DInvariance == DSpec => []DInv
  BY DInitKept, DNextKept, PTL DEF DSpec

-----------------------------------------------------------------------------
(* The refinement, one lemma for each kind of step of the session.          *)
LEMMA StopsKept == module' = module => Stops' = Stops
  BY DEF Stops

LEMMA NowhereUnbreakable == DTypeOK => <<>> \notin points
  <1>1. \A a, b : <<>> # <<a, b>>
    OBVIOUS
  <1>2. <<>> \notin Nat \X Nat
    BY <1>1
  <1> QED BY <1>2, BreakableAssumption DEF DTypeOK

(* Before the hook the program stands nowhere: it arrives.                  *)
LEMMA PassArrives == DInv /\ Pass => Session!SNext
  <1> SUFFICES ASSUME DInv, Pass PROVE Session!SNext
    OBVIOUS
  <1>1. Here = <<>>
    <2>1. CASE Start
      BY <2>1 DEF Start, Here, Fetched
    <2>2. ASSUME Fetched PROVE ~FallOff
      BY <2>2, PlaceType DEF FallOff, DInv
    <2> QED BY <2>1, <2>2 DEF Here, Pass
  <1>2. Stops' = Stops
    BY ModuleKept, StopsKept DEF Pass, Next
  <1>3. hook = "head" /\ UNCHANGED debugger /\ stepping \in BOOLEAN
    BY DEF Pass, DInv, DTypeOK
  <1>4. <<>> \notin points
    BY NowhereUnbreakable DEF DInv
  <1>5. Session!Arrive
    BY <1>1, <1>3, <1>4 DEF Session!Arrive, Session!Grant, Allowed, debugger
  <1> QED BY <1>2, <1>5 DEF Session!SNext

LEMMA HereKept == UNCHANGED vars => Here' = Here /\ Stops' = Stops
  BY StopsKept DEF vars, Here, Fetched, Place, Top, Code

LEMMA HookAsksOrStutters == DInv /\ Hook => [Session!SNext]_(Session!svars)
  <1> SUFFICES ASSUME DInv, Hook PROVE [Session!SNext]_(Session!svars)
    OBVIOUS
  <1>1. Here' = Here /\ Stops' = Stops /\ points' = points
    BY HereKept DEF Hook
  <1>2. Here = Place /\ Here # <<>> /\ hook = "head" /\ line' = line
    BY PlaceType DEF Hook, DInv
  <1>3. CASE ShouldPause
    <2>1. Session!Ask
      BY <1>1, <1>2, <1>3 DEF Session!Ask, Allowed, Hook, ShouldPause
    <2> QED BY <1>1, <2>1 DEF Session!SNext
  <1>4. CASE ~ShouldPause
    <2>1. Allowed' = Allowed /\ hook' = "go"
      BY <1>2, <1>4 DEF Allowed, Hook, ShouldPause, DInv, Remembers
    <2> QED BY <1>1, <1>2, <2>1 DEF Session!svars
  <1> QED BY <1>3, <1>4

LEMMA AnswersReply ==
  ASSUME DInv, User
  PROVE  Session!SNext
  <1>1. hook = "prompt" /\ Here # <<>> /\ Allowed = "none"
    BY PlaceType DEF User, Step, Continue, Command, Quit, SetPoint, DelPoint, DInv, Allowed
  <1>2. CASE Step \/ Continue
    <2>1. Here' = Here /\ Stops' = Stops /\ points' = points
      BY <1>2, HereKept DEF Step, Continue, Command
    <2>2. Allowed' \in {"one", "many"} /\ hook' = "go"
      BY <1>2 DEF Step, Continue, Command, Allowed
    <2> QED BY <1>1, <2>1, <2>2 DEF Session!SNext, Session!Reply
  <1>3. CASE Quit
    <2>1. Here' = <<>> /\ hook' = "head" /\ points' = points
      BY <1>3 DEF Quit, Here, Fetched
    <2>2. Stops' = Stops
      BY <1>3, StopsKept DEF Quit, Store
    <2> QED BY <1>1, <2>1, <2>2 DEF Session!SNext, Session!Reply
  <1>4. ASSUME NEW p \in Breakable, SetPoint(p) \/ DelPoint(p)
        PROVE  Session!SNext
    <2>1. Here' = Here /\ Stops' = Stops
      BY <1>4, HereKept DEF SetPoint, DelPoint
    <2>2. Allowed' = Allowed /\ hook' = hook
      BY <1>4 DEF SetPoint, DelPoint, Allowed
    <2> QED BY <1>1, <2>1, <2>2 DEF Session!SNext, Session!Reply
  <1> QED BY <1>2, <1>3, <1>4 DEF User

LEMMA ExecuteRuns ==
  ASSUME DInv, Execute
  PROVE  Session!SNext
  <1>1. Here # <<>> /\ (Here \in Stops <=> StopsHere)
    BY PlaceType, StopsAreBreakpoints DEF DInv, Execute
  <1>2. hook = "go" /\ stepping \in BOOLEAN /\ hook' = "head" /\ points' = points
    BY DEF Execute, DInv, DTypeOK
  <1>3. stepping' = (stepping \/ StopsHere) /\ StopsHere \in BOOLEAN
    BY DEF Execute, StopsHere
  <1>4. Stops' = Stops
    BY ModuleKept, StopsKept DEF Execute
  <1>5. line' = line /\ stepping = (line # "c")
    BY <1>2 DEF Execute, DInv, Remembers
  <1>6. Session!Run
    BY <1>1, <1>2, <1>3, <1>5 DEF Session!Run, Session!Grant, Allowed
  <1> QED BY <1>4, <1>6 DEF Session!SNext

(* Step, continue, breakpoints and BREAKPOINT instructions do what          *)
(* debugger.rs says of them, in every program and under every sequence of   *)
(* answers (Debugger::should_pause, prompt, the hook of execute()).         *)
THEOREM SessionKept == DSpec => KeepsSession
  <1>1. DInit => Session!SInit
    BY DEF DInit, Init, Fresh, Here, Fetched, Allowed, Session!SInit
  <1>2. DInv /\ [DNext]_dvars => [Session!SNext]_(Session!svars)
    <2> SUFFICES ASSUME DInv, [DNext]_dvars PROVE [Session!SNext]_(Session!svars)
      OBVIOUS
    <2>1. CASE UNCHANGED dvars
      BY <2>1, HereKept DEF dvars, debugger, Allowed, Session!svars
    <2>2. CASE DNext
      BY <2>2, PassArrives, HookAsksOrStutters, AnswersReply, ExecuteRuns DEF DNext, Loop
    <2> QED BY <2>1, <2>2
  <1> QED BY <1>1, <1>2, DInvariance, PTL DEF DSpec, KeepsSession, Session!SSpec

(* Under the debugger the machine keeps every promise it makes without it:  *)
(* well-typed state, the stack's limit, a frame to run and a trace that     *)
(* indexes functions, also when a session is quit half way.                 *)
THEOREM DebuggedMachineSafe == DSpec => [](DTypeOK /\ IInv)
  BY DInvariance, PTL DEF DInv
=============================================================================
