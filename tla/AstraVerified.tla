--------------------------- MODULE AstraVerified ---------------------------
(***************************************************************************)
(* The machine on bytecode whose use of the stack adds up.                 *)
(*                                                                         *)
(* Nothing in the runtime validates bytecode; the registry's effects only  *)
(* DECLARE what an instruction does to the stack.  What a program with a   *)
(* certificate can rely on is stated here; that one without cannot,        *)
(* MCMachine's helpers show.                                               *)
(***************************************************************************)
EXTENDS AstraVM, AstraCertificate

CONSTANT Certified   \* certified programs: [module, heights, arity]

VARIABLE cert        \* the running program with its certificate; never changes

ASSUME CertifiedAssumption ==
    /\ Programs = {c.module : c \in Certified}
    /\ \A c \in Certified : c \in Certificate /\ WellShaped(c) /\ Consistent(c)

VInit == Fresh /\ cert \in Certified /\ module = cert.module
VNext == Next /\ UNCHANGED cert
VSpec == VInit /\ [][VNext]_<<vars, cert>>

(* The interpreter loop is never suspended.                                 *)
VFairSpec == VSpec /\ WF_<<vars, cert>>(VNext)

-----------------------------------------------------------------------------
(* The inductive invariant.  While the machine runs, the stack is exactly   *)
(* the values the certificate grants to each frame: the running frame has   *)
(* its height above its base, and a frame under a call has its height at    *)
(* the resume point except for what the callee will return.                 *)

FrameHeight(fr) == Height(cert, fr.fn, fr.ip)

GrantedTop == Len(stack) = Top.base + FrameHeight(Top)
GrantedCallers ==
    \A i \in 1 .. Len(frames) - 1 :
        frames[i].base + FrameHeight(frames[i])
            = frames[i + 1].base + Arity(cert, frames[i + 1].fn)
GrantedFrames ==
    \A i \in DOMAIN frames :
        /\ frames[i].fn \in Functions(cert)
        /\ FrameHeight(frames[i]) >= 0
        /\ i < Len(frames) => frames[i].base <= frames[i + 1].base

StackAddsUp ==
    /\ cert.module = module
    /\ status = "running" =>
          /\ frames # <<>>
          /\ frames[1].base = 0
          /\ GrantedFrames
          /\ GrantedCallers
          /\ GrantedTop

(* Certified bytecode never underflows the stack and never calls a function *)
(* that does not exist, whatever its data: the registry's effects are all   *)
(* the runtime needs to check before execution.                             *)
NeverUnderflows == status \notin {"underflow", "badfn"}

(* A callee never reads or changes the values its callers keep on the       *)
(* shared stack: all values under the running frame's base stay in place.   *)
OperandsIsolated ==
    [][status = "running" /\ frames # <<>> =>
         /\ Top.base <= Len(stack) /\ Top.base <= Len(stack')
         /\ SubSeq(stack', 1, Top.base) = SubSeq(stack, 1, Top.base)]_vars

-----------------------------------------------------------------------------
(* The shared stack with base pointers implements private operand stacks:   *)
(* frame i owns the values between its base and the next one.               *)

Ops(i) ==
    SubSeq(stack, frames[i].base + 1,
           IF i = Len(frames) THEN Len(stack) ELSE frames[i + 1].base)
Activations ==
    [i \in 1 .. Len(frames) |->
        [fn |-> frames[i].fn, ip |-> frames[i].ip,
         locals |-> frames[i].locals, ops |-> Ops(i)]]

Calls == INSTANCE AstraCalls WITH
            Nothing <- Null, acts <- Activations,
            done <- status \notin {"loaded", "running"}

ImplementsCalls == Calls!ASpec
=============================================================================
