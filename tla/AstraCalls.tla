----------------------------- MODULE AstraCalls -----------------------------
(***************************************************************************)
(* What a function call promises: a stack of ISOLATED activations, each    *)
(* with its own operand stack and locals.  Only the last one computes; a   *)
(* call moves arguments from the caller's operands to the callee's locals, *)
(* and a return moves at most one value back.  How instructions compute is *)
(* left open.                                                              *)
(***************************************************************************)
EXTENDS Integers, Sequences

CONSTANT Nothing   \* the value of a local that no argument fills

VARIABLES
    acts,   \* activations [fn, ip, locals, ops], the running one last
    done    \* the run is over

avars == <<acts, done>>

Last(s) == s[Len(s)]
Front(s) == SubSeq(s, 1, Len(s) - 1)

(* A fresh activation that was given the last n values of ops.              *)
IsFresh(act, ops, n) ==
    /\ act.ip = 0
    /\ act.ops = <<>>
    /\ \A i \in DOMAIN act.locals :
          act.locals[i] = IF i <= n THEN ops[Len(ops) - n + i] ELSE Nothing

AInit == acts = <<>> /\ done = FALSE

Enter ==
    /\ acts = <<>>
    /\ \/ acts' = <<>> /\ done'
       \/ Len(acts') = 1 /\ IsFresh(acts'[1], <<>>, 0) /\ ~done'

(* Any computation of the running activation, on what is its own.           *)
Work ==
    /\ acts # <<>>
    /\ Len(acts') = Len(acts)
    /\ Front(acts') = Front(acts)
    /\ Last(acts').fn = Last(acts).fn

Call ==
    /\ acts # <<>>
    /\ Len(acts') = Len(acts) + 1
    /\ LET caller == Last(acts)
           after == acts'[Len(acts)]
       IN  /\ Front(Front(acts')) = Front(acts)
           /\ after.fn = caller.fn /\ after.locals = caller.locals
           /\ after.ip = caller.ip + 1
           /\ Len(after.ops) <= Len(caller.ops)
           /\ after.ops = SubSeq(caller.ops, 1, Len(after.ops))
           /\ IsFresh(Last(acts'), caller.ops, Len(caller.ops) - Len(after.ops))
    /\ ~done'

(* The caller finds itself as it was, with at most one value more.          *)
Return ==
    /\ acts # <<>>
    /\ Len(acts') = Len(acts) - 1
    /\ IF acts' = <<>> THEN done' ELSE
         LET caller == Last(Front(acts))
             after == Last(acts')
         IN  /\ Front(acts') = Front(Front(acts))
             /\ after.fn = caller.fn /\ after.ip = caller.ip
             /\ after.locals = caller.locals
             /\ \/ after.ops = caller.ops
                \/ /\ Last(acts).ops # <<>>
                   /\ after.ops = Append(caller.ops, Last(Last(acts).ops))

Replace ==
    /\ acts # <<>>
    /\ Len(acts') = Len(acts)
    /\ Front(acts') = Front(acts)
    /\ \E n \in 0 .. Len(Last(acts).ops) : IsFresh(Last(acts'), Last(acts).ops, n)
    /\ ~done'

ANext == ~done /\ (Enter \/ Work \/ Call \/ Return \/ Replace)

ASpec == AInit /\ [][ANext]_avars
=============================================================================
