--------------------------- MODULE AstraLoadOrder ---------------------------
(***************************************************************************)
(* What a load order promises: the modules of a dependency graph one after *)
(* the other, each once and after all it needs, the requested one last, so *)
(* that everything it needs is there; or a complaint, only if some modules *)
(* need each other in a circle.                                            *)
(***************************************************************************)
EXTENDS Sequences, Integers

CONSTANTS Name, Main

VARIABLES
    needs,    \* who needs whom; empty until it is known
    loaded,   \* the modules in load order
    answer    \* "pending", "done" or "cycle"

lvars == <<needs, loaded, answer>>

Modules == DOMAIN needs
Loaded == {loaded[i] : i \in DOMAIN loaded}

(* A circle is a nonempty set of modules that each need one of the set.     *)
Circular ==
    \E S \in SUBSET Modules : S # {} /\ \A n \in S : needs[n] \cap S # {}

LInit == needs = <<>> /\ loaded = <<>> /\ answer = "pending"

Survey ==
    /\ needs = <<>>
    /\ Main \in DOMAIN needs'
    /\ \A n \in DOMAIN needs' : needs'[n] \subseteq DOMAIN needs'
    /\ UNCHANGED <<loaded, answer>>

Load(n) ==
    /\ n \notin Loaded
    /\ needs[n] \subseteq Loaded
    /\ loaded' = Append(loaded, n)
    /\ answer' = IF n = Main THEN "done" ELSE "pending"
    /\ UNCHANGED needs

Complain ==
    /\ Circular
    /\ answer' = "cycle"
    /\ UNCHANGED <<needs, loaded>>

LNext == answer = "pending" /\ (Survey \/ Complain \/ \E n \in Modules : Load(n))

LSpec == LInit /\ [][LNext]_lvars
=============================================================================
