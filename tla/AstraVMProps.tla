---------------------------- MODULE AstraVMProps ----------------------------
(***************************************************************************)
(* What the machine guarantees for ARBITRARY bytecode.                     *)
(***************************************************************************)
EXTENDS AstraVM

(* The value stack never holds more than --stack-limit values, whatever the *)
(* program pushes, and a running machine always has a frame to run: the     *)
(* "no frame" error of execute() cannot occur, because every handler that   *)
(* drops the last frame also ends the loop.                                 *)
StackBounded == Len(stack) <= StackLimit
RunningHasFrame == status = "running" => frames # <<>>

(* print_stack_trace() indexes the function table with every frame, also    *)
(* after an error half way through a call: each frame names a function.     *)
TraceIndexesFunctions ==
    \A i \in DOMAIN frames : frames[i].fn < Len(module.functions)

(* An instruction that completes and neither leaves nor enters a frame      *)
(* changes the depth of the stack by what the opcode registry declares:     *)
(* opcode_table.c and the handlers of vm.rs agree.                          *)
FollowsRegistry ==
    [][(/\ Running(OpCode \ TransferOps)
        /\ status' = "running")
        => Len(stack') = Len(stack) + StackEffect(Ins.op)]_vars

(* "stack overflow" can strike only an instruction the registry declares as *)
(* pushing; the handlers that pop operands first and push the result cannot *)
(* fail half way with their operands gone.                                  *)
OverflowOnlyWhenPushing ==
    [][status' = "overflow" => Running(Pushing) /\ stack' = stack]_vars

(* A step touches at most the running frame: whatever a callee does, every  *)
(* frame under it keeps its function, resume point, locals and base.        *)
CallersUntouched ==
    [][frames # <<>> =>
         /\ Len(frames') >= Len(frames) - 1
         /\ \A i \in 1 .. Len(frames) - 1 : frames'[i] = frames[i]]_vars

(* The heap only grows, so an address once handed out stays inside it, no   *)
(* matter where the pointer has been kept -- in programs whose ALLOC sizes  *)
(* are not negative; a negative size wraps and can shrink the heap.         *)
SaneAllocs ==
    \A f \in DOMAIN module.functions : \A i \in DOMAIN module.functions[f].code :
        LET ins == module.functions[f].code[i] IN ins.op = "ALLOC" => ins.a >= 0

InHeap(x) == x.t = "Ptr" => x.v <= Len(heap)

PointersInHeap ==
    SaneAllocs =>
        /\ \A i \in DOMAIN stack : InHeap(stack[i])
        /\ \A i \in DOMAIN frames :
              \A j \in DOMAIN frames[i].locals : InHeap(frames[i].locals[j])
        /\ \A g \in DOMAIN globals : InHeap(globals[g])

(* The loop makes progress: bytecode that only jumps forward and only calls *)
(* functions further down the table always comes to an end, one way or      *)
(* another; no instruction is left waiting and none is run twice.           *)
ForwardOnly ==
    \A f \in DOMAIN module.functions : \A i \in DOMAIN module.functions[f].code :
        LET ins == module.functions[f].code[i]
        IN  /\ ins.op \in BranchOps \cup {"JMP"} => AsUsize(ins.a) >= i
            /\ ins.op \in {"CALL", "TAIL_CALL"} => AsUsize(ins.a) >= f

ForwardProgramsEnd == ForwardOnly => <>(status \notin {"loaded", "running"})

-----------------------------------------------------------------------------
(* What the documents say of the machine and the machine does not do.       *)

(* RFC 001, 7.5: "Exceeding the stack depth limit is a runtime error.       *)
(* Default limit: 8192 frames."  The limit is tested by push() alone:       *)
(* recursion that leaves nothing on the value stack grows frames for ever.  *)
FramesBounded == Len(frames) <= StackLimit
=============================================================================
