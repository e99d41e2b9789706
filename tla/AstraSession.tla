---------------------------- MODULE AstraSession ----------------------------
(***************************************************************************)
(* What a debugging session promises its user: while a question is open    *)
(* nothing runs; "step" lets exactly one instruction run; "continue" lets  *)
(* instructions run up to, and not including, the next one a breakpoint is *)
(* set on, or up to and including a BREAKPOINT instruction; and nothing    *)
(* else brings up a question.                                              *)
(***************************************************************************)
VARIABLES
    at,       \* where the program stands: the instruction to run next, or
              \* Nowhere between two instructions and when the run is over
    asking,   \* the user is being asked
    allowed,  \* what may run without asking: "none", "one" or "many"
    points,   \* the breakpoints set
    stops     \* the places of BREAKPOINT instructions; never changes

CONSTANT Nowhere

svars == <<at, asking, allowed, points, stops>>

SInit == at = Nowhere /\ ~asking /\ allowed = "none" /\ points = {}

Grant == IF at' \in points THEN "none" ELSE allowed

(* The program comes from nowhere to an instruction, or to its end.         *)
Arrive ==
    /\ at = Nowhere
    /\ allowed' = Grant
    /\ UNCHANGED <<asking, points>>

Ask ==
    /\ at # Nowhere /\ allowed = "none" /\ ~asking
    /\ asking' = TRUE
    /\ UNCHANGED <<at, allowed, points>>

(* "s" and "c"; "b" and "del", after which the question stands; "q", after  *)
(* which there is nothing left to allow or forbid.                          *)
Reply ==
    /\ asking
    /\ \/ asking' = FALSE /\ allowed' \in {"one", "many"} /\ UNCHANGED <<at, points>>
       \/ UNCHANGED <<at, asking, allowed>>
       \/ asking' = FALSE /\ at' = Nowhere /\ UNCHANGED points

Run ==
    /\ at # Nowhere /\ allowed # "none" /\ ~asking
    /\ allowed' = IF allowed = "one" \/ at \in stops THEN "none" ELSE Grant
    /\ UNCHANGED <<asking, points>>

SNext == (Arrive \/ Ask \/ Reply \/ Run) /\ UNCHANGED stops
SSpec == SInit /\ [][SNext]_svars
=============================================================================
