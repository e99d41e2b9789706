------------------------------ MODULE AstraVM ------------------------------
(***************************************************************************)
(* The stack machine: load one module, enter its entry function and run    *)
(* instructions until the program returns, halts or fails.  Each step is   *)
(* one turn of the interpreter loop.  The bytecode is arbitrary: the       *)
(* loader checks nothing of it.  The debugger hook is in AstraDebugger.    *)
(***************************************************************************)
EXTENDS AstraValues

CONSTANTS
    Programs,    \* the modules the machine may be started on
    StackLimit,  \* --stack-limit
    MemLimit,    \* elements in the largest vector the process can allocate
    MaxOutput    \* bound: values printed before a behaviour is cut

ASSUME ProgramsAssumption == Programs \subseteq Module
ASSUME LimitAssumption ==
    /\ StackLimit \in Nat /\ MaxOutput \in Nat
    /\ MemLimit \in Nat /\ MemLimit < HalfWord    \* isize::MAX

VARIABLES
    module,   \* the loaded module
    stack,    \* the value stack, shared by all frames
    frames,   \* call frames, the running one last
    heap,     \* bytes handed out by ALLOC
    globals,  \* the globals stored so far
    output,   \* what was printed, and to which stream
    status    \* "loaded", "running", or how the run ended

vars == <<module, stack, frames, heap, globals, output, status>>
Store == <<module, heap, globals, output>>

(* "ok" is exit code 0, an Error makes run() return Err, "panic" is a death *)
(* of the process outside the machine's own error path.                     *)
Errors == {"underflow", "overflow", "badfn", "divzero", "type", "unimplemented"}
Status == {"loaded", "running", "ok", "panic"} \cup Errors

Frame == [fn : Nat, ip : Nat, locals : Seq(Value), base : Nat]

TypeOK ==
    /\ module \in Module
    /\ stack \in Seq(Value)
    /\ frames \in Seq(Frame)
    /\ heap \in Seq(Byte)
    /\ DOMAIN globals \subseteq Usize
    /\ globals \in [DOMAIN globals -> Value]
    /\ output \in Seq([stream : {"out", "err"}, value : Value])
    /\ status \in Status

-----------------------------------------------------------------------------
(* Vectors, frames and the instruction under the instruction pointer.       *)

(* Mutants: truncate that keeps everything, or cuts one element too many;   *)
(* resize that forgets what was there.                                      *)
PrefixKeepsAll(s, n) == s
PrefixOneShort(s, n) == IF 0 < n /\ n <= Len(s) THEN SubSeq(s, 1, n - 1) ELSE s
ResizeFresh(s, n, x) == [i \in 1 .. n |-> x]

Prefix(s, n) == IF n < Len(s) THEN SubSeq(s, 1, n) ELSE s     \* Vec::truncate
Resize(s, n, x) == [i \in 1 .. n |-> IF i <= Len(s) THEN s[i] ELSE x]
At(s, i, x) == IF i < Len(s) THEN s[i + 1] ELSE x      \* get(i).unwrap_or(x)

Top == frames[Len(frames)]
Callers == SubSeq(frames, 1, Len(frames) - 1)
Code(f) == module.functions[f.fn + 1].code
Ins == Code(Top)[Top.ip + 1]

Running(ops) ==
    /\ status = "running"
    /\ frames # <<>>
    /\ Top.ip < Len(Code(Top))
    /\ Ins.op \in ops

Nth(n) == stack[Len(stack) + 1 - n]                  \* the n-th value popped
Below(n) == SubSeq(stack, 1, Len(stack) - n)         \* the stack without n values

(* Mutant: the bottom frame is written instead of the top one.              *)
WithBottom(f) == [frames EXCEPT ![1] = f]
WithTop(f) == [frames EXCEPT ![Len(frames)] = f]
Jump(ip) == WithTop([Top EXCEPT !.ip = ip])
Stepped == Jump(Top.ip + 1)

(* The instruction ends the run, with `rest` of the values left.            *)
Stop(why, rest) ==
    /\ status' = why
    /\ stack' = rest
    /\ frames' = Stepped
    /\ UNCHANGED Store

(* Popping one value too many fails with the stack already emptied.         *)
NeedsValues(n) == Len(stack) < n /\ Stop("underflow", <<>>)

(* Mutants: push that lets one value too many through, and push that tests  *)
(* the depth from before the operands were popped.                          *)
PushOnOneMore(rest, v) ==
    IF Len(rest) <= StackLimit
    THEN stack' = Append(rest, v) /\ UNCHANGED status
    ELSE stack' = rest /\ status' = "overflow"
PushOnStaleDepth(rest, v) ==
    IF Len(stack) < StackLimit
    THEN stack' = Append(rest, v) /\ UNCHANGED status
    ELSE stack' = rest /\ status' = "overflow"

(* push, reached with the stack already popped down to `rest`.              *)
PushOn(rest, v) ==
    IF Len(rest) < StackLimit
    THEN stack' = Append(rest, v) /\ UNCHANGED status
    ELSE stack' = rest /\ status' = "overflow"

-----------------------------------------------------------------------------
(* call_fn: enter function f above `under` frames and `rest` values.        *)
FrameSize(f) ==
    LET fn == module.functions[f + 1]
    IN  IF fn.locals < fn.params THEN fn.params ELSE fn.locals

(* Mutant: the base is taken while the arguments are still on the stack.    *)
NewFrameLateBase(f, args, base) ==
    [fn |-> f, ip |-> 0, base |-> base + Len(args),
     locals |-> Resize(args, FrameSize(f), Null)]

NewFrame(f, args, base) ==
    [fn |-> f, ip |-> 0, base |-> base,
     locals |-> Resize(args, FrameSize(f), Null)]

(* Mutant: the frame is pushed before the function index is checked.        *)
CallFnUnchecked(f, args, under, rest) ==
    /\ stack' = rest
    /\ frames' = Append(under, [fn |-> f, ip |-> 0, base |-> Len(rest), locals |-> args])
    /\ status' = IF f >= Len(module.functions) THEN "badfn" ELSE "running"
    /\ UNCHANGED Store

CallFn(f, args, under, rest) ==
    /\ stack' = rest
    /\ IF f >= Len(module.functions) THEN
          status' = "badfn" /\ frames' = under
       ELSE IF FrameSize(f) > MemLimit \/ Len(under) >= MemLimit THEN
          status' = "panic" /\ frames' = under
       ELSE
          status' = "running" /\ frames' = Append(under, NewFrame(f, args, Len(rest)))
    /\ UNCHANGED Store

Fresh ==
    /\ stack = <<>>
    /\ frames = <<>>
    /\ heap = <<>>
    /\ globals = <<>>
    /\ output = <<>>
    /\ status = "loaded"

Init == module \in Programs /\ Fresh

(* run: call the entry function with no arguments.                          *)
Start ==
    /\ status = "loaded"
    /\ CallFn(module.entry, <<>>, <<>>, <<>>)

-----------------------------------------------------------------------------
(* Constants, stack shuffling, locals and globals. *)

Literal ==
    CASE Ins.op = "PUSH_I64" -> IntV(Ins.a)
      [] Ins.op = "PUSH_F64" -> FloatOfBits(Ins.a)
      [] Ins.op = "PUSH_BOOL" -> BoolV(Ins.a # 0)
      [] Ins.op = "PUSH_NULL" -> Null
      [] Ins.op = "PUSH_STR" -> StrV(At(module.strings, AsUsize(Ins.a), 0))

Push ==
    /\ Running(PushOps)
    /\ PushOn(stack, Literal)
    /\ frames' = Stepped
    /\ UNCHANGED Store

(* Mutant: FREE gives the memory above the pointer back.                    *)
PopReleases ==
    /\ Running({"POP", "FREE"})
    /\ \/ NeedsValues(1)
       \/ /\ stack # <<>>
          /\ stack' = Below(1)
          /\ heap' = IF Ins.op = "FREE" /\ Nth(1).t = "Ptr"
                     THEN Prefix(heap, Nth(1).v) ELSE heap
          /\ frames' = Stepped
          /\ UNCHANGED <<module, globals, output, status>>

Pop ==
    /\ Running({"POP", "FREE"})
    /\ \/ NeedsValues(1)
       \/ /\ stack # <<>>
          /\ stack' = Below(1)
          /\ frames' = Stepped
          /\ UNCHANGED <<Store, status>>

Dup ==
    /\ Running({"DUP"})
    /\ \/ NeedsValues(1)
       \/ /\ stack # <<>>
          /\ PushOn(stack, Nth(1))
          /\ frames' = Stepped
          /\ UNCHANGED Store

Swap ==
    /\ Running({"SWAP"})
    /\ \/ NeedsValues(2)
       \/ /\ Len(stack) >= 2
          /\ stack' = Below(2) \o <<Nth(1), Nth(2)>>
          /\ frames' = Stepped
          /\ UNCHANGED <<Store, status>>

LoadLocal ==
    /\ Running({"LOAD_LOCAL"})
    /\ PushOn(stack, At(Top.locals, AsUsize(Ins.a), Null))
    /\ frames' = Stepped
    /\ UNCHANGED Store

(* A slot past the frame's end grows the frame.                             *)
StoreLocal ==
    LET slot == AsUsize(Ins.a)
        size == IF slot >= Len(Top.locals) THEN slot + 1 ELSE Len(Top.locals)
    IN  /\ Running({"STORE_LOCAL"})
        /\ \/ NeedsValues(1)
           \/ stack # <<>> /\ size > MemLimit /\ Stop("panic", Below(1))
           \/ /\ stack # <<>>
              /\ size <= MemLimit
              /\ stack' = Below(1)
              /\ frames' = WithTop([Top EXCEPT !.ip = @ + 1,
                    !.locals = [Resize(@, size, Null) EXCEPT ![slot + 1] = Nth(1)]])
              /\ UNCHANGED <<Store, status>>

LoadGlobal ==
    LET g == AsUsize(Ins.a)
    IN  /\ Running({"LOAD_GLOBAL"})
        /\ PushOn(stack, IF g \in DOMAIN globals THEN globals[g] ELSE Null)
        /\ frames' = Stepped
        /\ UNCHANGED Store

StoreGlobal ==
    LET g == AsUsize(Ins.a)
    IN  /\ Running({"STORE_GLOBAL"})
        /\ \/ NeedsValues(1)
           \/ /\ stack # <<>>
              /\ stack' = Below(1)
              /\ globals' = [k \in DOMAIN globals \cup {g} |->
                                IF k = g THEN Nth(1) ELSE globals[k]]
              /\ frames' = Stepped
              /\ UNCHANGED <<module, heap, output, status>>

-----------------------------------------------------------------------------
(* Arithmetic, comparison, logic, casts and strings. *)

Unary ==
    /\ Running(UnaryOps)
    /\ \/ NeedsValues(1)
       \/ /\ stack # <<>>
          /\ UnaryResults(Ins.op, Nth(1)) = {}
          /\ Stop("type", Below(1))
       \/ /\ stack # <<>>
          /\ \E v \in UnaryResults(Ins.op, Nth(1)) : PushOn(Below(1), v)
          /\ frames' = Stepped
          /\ UNCHANGED Store

Binary ==
    /\ Running(BinaryOps)
    /\ \/ NeedsValues(2)
       \/ /\ Len(stack) >= 2
          /\ BinaryResults(Ins.op, Nth(2), Nth(1)) = {}
          /\ Stop("type", Below(2))
       \/ /\ Len(stack) >= 2
          /\ \E v \in BinaryResults(Ins.op, Nth(2), Nth(1)) : PushOn(Below(2), v)
          /\ frames' = Stepped
          /\ UNCHANGED Store

(* IDIV tests for a zero divisor before the dividend's type; IMOD does not  *)
(* test at all.                                                             *)
Divide ==
    LET ints == Are("Int", Nth(2), Nth(1))
        zero == Ins.op = "IDIV" /\ Nth(1).t = "Int" /\ Nth(1).v = 0
        dies == ints /\ DivPanics(Nth(2).v, Nth(1).v)
    IN  /\ Running(DivOps)
        /\ \/ NeedsValues(2)
           \/ Len(stack) >= 2 /\ zero /\ Stop("divzero", Below(2))
           \/ Len(stack) >= 2 /\ ~zero /\ ~ints /\ Stop("type", Below(2))
           \/ Len(stack) >= 2 /\ ~zero /\ dies /\ Stop("panic", Below(2))
           \/ /\ Len(stack) >= 2
              /\ ints /\ ~dies
              /\ \E z \in IntDivision(Ins.op, Nth(2).v, Nth(1).v) :
                    PushOn(Below(2), IntV(z))
              /\ frames' = Stepped
              /\ UNCHANGED Store

StrConcat ==
    LET strs == Are("Str", Nth(2), Nth(1))
        size == Nth(2).v + Nth(1).v
    IN  /\ Running({"STR_CONCAT"})
        /\ \/ NeedsValues(2)
           \/ Len(stack) >= 2 /\ ~strs /\ Stop("type", Below(2))
           \/ Len(stack) >= 2 /\ strs /\ size > MemLimit /\ Stop("panic", Below(2))
           \/ /\ Len(stack) >= 2
              /\ strs /\ size <= MemLimit
              /\ PushOn(Below(2), StrV(size))
              /\ frames' = Stepped
              /\ UNCHANGED Store

-----------------------------------------------------------------------------
(* The heap: a bump allocator that never frees; POP serves FREE.            *)

(* The sum of the old length and a huge size wraps, and then SHRINKS it.    *)
Alloc ==
    LET size == AsUsize(Len(heap) + AsUsize(Ins.a))
    IN  /\ Running({"ALLOC"})
        /\ \/ size > MemLimit /\ Stop("panic", stack)
           \/ /\ size <= MemLimit
              /\ heap' = Resize(heap, size, 0)
              /\ PushOn(stack, PtrV(Len(heap)))
              /\ frames' = Stepped
              /\ UNCHANGED <<module, globals, output>>

(* A negative index reaches below the pointer: the sum wraps.               *)
Address(p, i) == AsUsize(p + AsUsize(i))

LoadPtr ==
    LET valid == Nth(2).t = "Ptr" /\ Nth(1).t = "Int"
    IN  /\ Running({"LOAD_PTR"})
        /\ \/ NeedsValues(2)
           \/ Len(stack) >= 2 /\ ~valid /\ Stop("type", Below(2))
           \/ /\ Len(stack) >= 2
              /\ valid
              /\ PushOn(Below(2), IntV(At(heap, Address(Nth(2).v, Nth(1).v), 0)))
              /\ frames' = Stepped
              /\ UNCHANGED Store

(* Wrong operand types and addresses off the heap are ignored.              *)
StorePtr ==
    LET addr == Address(Nth(3).v, Nth(2).v)
        hits == /\ Nth(3).t = "Ptr" /\ Are("Int", Nth(2), Nth(1))
                /\ addr < Len(heap)
    IN  /\ Running({"STORE_PTR"})
        /\ \/ NeedsValues(3)
           \/ /\ Len(stack) >= 3
              /\ stack' = Below(3)
              /\ heap' = IF hits THEN [heap EXCEPT ![addr + 1] = Nth(1).v % ByteSize]
                                 ELSE heap
              /\ frames' = Stepped
              /\ UNCHANGED <<module, globals, output, status>>

-----------------------------------------------------------------------------
(* Output and no-ops. *)

PrintValue ==
    /\ Running(PrintOps)
    /\ \/ NeedsValues(1)
       \/ /\ stack # <<>>
          /\ Len(output) < MaxOutput
          /\ stack' = Below(1)
          /\ output' = Append(output,
                [stream |-> IF Ins.op = "EPRINT" THEN "err" ELSE "out", value |-> Nth(1)])
          /\ frames' = Stepped
          /\ UNCHANGED <<module, heap, globals, status>>

(* Without a debugger BREAKPOINT only leaves a note on stderr.              *)
Quiet ==
    /\ Running(QuietOps)
    /\ frames' = Stepped
    /\ UNCHANGED <<Store, stack, status>>

Halt == Running({"HALT"}) /\ Stop("ok", stack)

Unimplemented == Running(UnimplementedOps) /\ Stop("unimplemented", stack)

-----------------------------------------------------------------------------
(* Jumps, calls and returns. *)

(* Mutant: the target is taken one short, as if the loop still advanced ip. *)
GotoOneShort ==
    /\ Running({"JMP"})
    /\ frames' = Jump(AsUsize(Ins.a - 1))
    /\ UNCHANGED <<Store, stack, status>>

Goto ==
    /\ Running({"JMP"})
    /\ frames' = Jump(AsUsize(Ins.a))
    /\ UNCHANGED <<Store, stack, status>>

Branch ==
    LET taken == Truthy(Nth(1)) = (Ins.op = "JMP_IF")
    IN  /\ Running(BranchOps)
        /\ \/ NeedsValues(1)
           \/ /\ stack # <<>>
              /\ stack' = Below(1)
              /\ frames' = IF taken THEN Jump(AsUsize(Ins.a)) ELSE Stepped
              /\ UNCHANGED <<Store, status>>

Args(n) == SubSeq(stack, Len(stack) + 1 - n, Len(stack))

(* The arguments are collected first, in a vector of argc values.           *)
Call ==
    LET argc == AsUsize(Ins.b)
    IN  /\ Running({"CALL"})
        /\ \/ argc > MemLimit /\ Stop("panic", stack)
           \/ argc <= MemLimit /\ NeedsValues(argc)
           \/ /\ argc <= MemLimit /\ argc <= Len(stack)
              /\ CallFn(AsUsize(Ins.a), Args(argc), Stepped, Below(argc))

(* The running frame is gone before the callee is looked up.                *)
TailCall ==
    LET argc == AsUsize(Ins.b)
    IN  /\ Running({"TAIL_CALL"})
        /\ \/ argc > MemLimit /\ Stop("panic", stack)
           \/ argc <= MemLimit /\ NeedsValues(argc)
           \/ /\ argc <= MemLimit /\ argc <= Len(stack)
              /\ CallFn(AsUsize(Ins.a), Args(argc), Callers,
                        Prefix(Below(argc), Top.base))

(* Mutant: leaving the last frame does not leave the loop.                  *)
EndedNever == "running"

Ended == IF Callers = <<>> THEN "ok" ELSE "running"

Return ==
    /\ Running({"RETURN"})
    /\ \/ NeedsValues(1)
       \/ /\ stack # <<>>
          /\ frames' = Callers
          /\ IF Len(Prefix(Below(1), Top.base)) < StackLimit
             THEN /\ stack' = Append(Prefix(Below(1), Top.base), Nth(1))
                  /\ status' = Ended
             ELSE /\ stack' = Prefix(Below(1), Top.base)
                  /\ status' = "overflow"
          /\ UNCHANGED Store

ReturnVoid ==
    /\ Running({"RETURN_VOID"})
    /\ frames' = Callers
    /\ stack' = Prefix(stack, Top.base)
    /\ status' = Ended
    /\ UNCHANGED Store

(* Running off the end of the code leaves the frame but not its values.     *)
FallOff ==
    /\ status = "running"
    /\ frames # <<>>
    /\ Top.ip >= Len(Code(Top))
    /\ frames' = Callers
    /\ status' = Ended
    /\ UNCHANGED <<Store, stack>>

Next ==
    \/ Start \/ Push \/ Pop \/ Dup \/ Swap
    \/ LoadLocal \/ StoreLocal \/ LoadGlobal \/ StoreGlobal
    \/ Unary \/ Binary \/ Divide \/ StrConcat
    \/ Alloc \/ LoadPtr \/ StorePtr
    \/ PrintValue \/ Quiet \/ Halt \/ Unimplemented
    \/ Goto \/ Branch \/ Call \/ TailCall \/ Return \/ ReturnVoid \/ FallOff

Spec == Init /\ [][Next]_vars

(* The interpreter loop is never suspended.                                 *)
FairSpec == Spec /\ WF_vars(Next)
=============================================================================
