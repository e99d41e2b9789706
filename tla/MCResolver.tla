----------------------------- MODULE MCResolver -----------------------------
(***************************************************************************)
(* Projects for TLC.  Flat ones: all files in one directory, every module  *)
(* importing at most two of three others, in every order, one of them on   *)
(* disk or not, or the entry under its own name.  Nested ones: two         *)
(* directories that each have an a and a b, so that a name can mean two    *)
(* files, and two names one.                                               *)
(***************************************************************************)
EXTENDS AstraResolver, FiniteSets

MCName == {"__main__", "a", "b", "c"}
MCFile == {"main.as", "a.as", "b.as", "c.as", "sub/a.as", "sub/b.as"}

Lists(S) == {<<>>} \cup {<<x>> : x \in S} \cup {s \in S \X S : s[1] # s[2]}

(* Where the name leads: from the root, where c means the module sub::a     *)
(* in a nested project, and from sub/.                                      *)
Absent == [n \in MCName |-> "none"]
Root == [Absent EXCEPT !["a"] = "a.as", !["b"] = "b.as"]
Sub == [Absent EXCEPT !["a"] = "sub/a.as", !["b"] = "sub/b.as"]

Place(atRoot, atSub) ==
    [f \in MCFile |-> IF f \in {"sub/a.as", "sub/b.as"} THEN atSub ELSE atRoot]

FlatProject(m, x, y, z, c) ==
    [imports |-> [f \in MCFile |->
         CASE f = "main.as" -> m [] f = "a.as" -> x
           [] f = "b.as" -> y [] f = "c.as" -> z [] OTHER -> <<>>],
     locate |-> Place([Root EXCEPT !["c"] = c], Absent),
     entries |-> {"main.as"}]

Flat ==
    LET M == Lists({"a", "b", "c"})
        X == Lists({"b", "c", "__main__"})
        Y == Lists({"a", "c"})
    IN  {FlatProject(m, x, y, z, c) :
            m \in M, x \in X, y \in Y, z \in M, c \in {"c.as", "none"}}
        \cup {FlatProject(m, x, y, <<>>, "main.as") : m \in M, x \in X, y \in Y}

Nested ==
    {[imports |-> [f \in MCFile |->
          CASE f = "main.as" -> m [] f = "a.as" -> x
            [] f = "sub/a.as" -> y [] f = "sub/b.as" -> z [] OTHER -> <<>>],
      locate |-> Place([Root EXCEPT !["c"] = "sub/a.as", !["b"] = b], Sub),
      entries |-> {"main.as", "a.as"}] :
        m \in Lists({"a", "b", "c"}), x \in Lists({"b", "c"}),
        y \in Lists({"a", "b"}), z \in Lists({"a", "b", "c"}),
        b \in {"b.as", "none"}}

MCProjects == Flat \cup Nested
=============================================================================
