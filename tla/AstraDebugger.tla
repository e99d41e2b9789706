--------------------------- MODULE AstraDebugger ---------------------------
(***************************************************************************)
(* The machine under --debug: before each instruction the loop asks the    *)
(* debugger whether to pause, and a pause asks the user what to do.  The   *)
(* user may answer anything, in any order; commands that only print are    *)
(* left out.                                                               *)
(***************************************************************************)
EXTENDS AstraVMProps

CONSTANT Breakable   \* bound: the places the user sets breakpoints on

ASSUME BreakableAssumption == Breakable \subseteq Nat \X Nat

VARIABLES
    hook,       \* where the loop stands: "head", "prompt" or "go"
    line,       \* the last command that let the program go on: "s" or "c"
    stepping,   \* Debugger.stepping
    points      \* Debugger.breakpoints

debugger == <<hook, line, stepping, points>>
dvars == <<vars, debugger>>

DTypeOK ==
    /\ hook \in {"head", "prompt", "go"}
    /\ line \in {"", "s", "c"}
    /\ stepping \in BOOLEAN
    /\ points \subseteq Breakable

(* An instruction has been fetched; otherwise the frame is left.            *)
Fetched ==
    /\ status = "running"
    /\ frames # <<>>
    /\ Top.ip < Len(Code(Top))
Place == <<Top.fn, Top.ip>>

(* Mutant: breakpoints that only count while stepping, as if || were &&.    *)
ShouldPauseBoth == stepping /\ Place \in points
ShouldPause == stepping \/ Place \in points

DInit == Init /\ hook = "head" /\ line = "" /\ stepping = TRUE /\ points = {}

(* The part of the loop before the hook: enter the program, leave a frame   *)
(* that has run off its end.                                                *)
Pass ==
    /\ hook = "head"
    /\ Start \/ FallOff
    /\ UNCHANGED debugger

Hook ==
    /\ hook = "head"
    /\ Fetched
    /\ hook' = IF ShouldPause THEN "prompt" ELSE "go"
    /\ UNCHANGED <<vars, line, stepping, points>>

(* The commands.  An empty line is a step, and so is the end of the input.  *)
Command(text, steps) ==
    /\ hook = "prompt"
    /\ hook' = "go"
    /\ line' = text
    /\ stepping' = steps
    /\ UNCHANGED <<vars, points>>
Step == Command("s", TRUE)
Continue == Command("c", FALSE)

(* run() returns Ok: exit code 0.  Also when the input cannot be read.      *)
Quit ==
    /\ hook = "prompt"
    /\ status' = "ok"
    /\ hook' = "head"
    /\ UNCHANGED <<Store, stack, frames, line, stepping, points>>

(* Mutant: the two operands of "b" in the wrong order.                      *)
SetPointSwapped(p) ==
    /\ hook = "prompt"
    /\ points' = points \cup {<<p[2], p[1]>>}
    /\ UNCHANGED <<vars, hook, line, stepping>>

SetPoint(p) ==
    /\ hook = "prompt"
    /\ points' = points \cup {p}
    /\ UNCHANGED <<vars, hook, line, stepping>>
DelPoint(p) ==
    /\ hook = "prompt"
    /\ points' = points \ {p}
    /\ UNCHANGED <<vars, hook, line, stepping>>

StopsHere == Ins.op = "BREAKPOINT"

Execute ==
    /\ hook = "go"
    /\ Next
    /\ hook' = "head"
    /\ stepping' = (stepping \/ StopsHere)
    /\ UNCHANGED <<line, points>>

User == Step \/ Continue \/ Quit \/ \E p \in Breakable : SetPoint(p) \/ DelPoint(p)
Loop == Pass \/ Hook \/ Execute
DNext == User \/ Loop

DSpec == DInit /\ [][DNext]_dvars

(* The loop is never suspended; the user may take for ever.                 *)
DFairSpec == DSpec /\ WF_dvars(Loop)

-----------------------------------------------------------------------------
(* Step, continue, breakpoints and BREAKPOINT instructions do what          *)
(* debugger.rs says of them: see AstraSession.  What is allowed is what the *)
(* user last said; `stepping` is only how the code remembers it.            *)
Here == IF Fetched THEN Place ELSE <<>>
Stops ==
    UNION {{<<f - 1, i - 1>> : i \in {j \in DOMAIN module.functions[f].code :
                module.functions[f].code[j].op = "BREAKPOINT"}} :
           f \in DOMAIN module.functions}

Allowed ==
    CASE hook = "go" -> IF line = "c" THEN "many" ELSE "one"
      [] hook = "prompt" -> "none"
      [] OTHER -> IF stepping \/ Here \in points THEN "none" ELSE "many"

Session == INSTANCE AstraSession WITH
    Nowhere <- <<>>, stops <- Stops, at <- Here, asking <- (hook = "prompt"), allowed <- Allowed

KeepsSession == Session!SSpec

(* A program that comes to an end on its own comes to an end or back to the *)
(* prompt under the debugger: no command hangs.                             *)
CommandsReturn ==
    (ForwardOnly /\ hook = "go")
        ~> (hook = "prompt" \/ status \notin {"loaded", "running"})
=============================================================================
