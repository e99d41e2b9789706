----------------------------- MODULE MCPipeline -----------------------------
(***************************************************************************)
(* Small programs for TLC: with and without strings and helper functions,  *)
(* entered at the first or the last function; one image is another's prefix *)
(* up to the last words.                                                   *)
(***************************************************************************)
EXTENDS AstraPipeline

F(name, code) == [name |-> name, params |-> 0, locals |-> 1, instrs |-> code]
P(strings, functions, entry) ==
    [strings |-> strings, functions |-> functions, entry |-> entry]

Plain == P(<<>>, <<F(1, <<1>>)>>, 0)
Longer == P(<<>>, <<F(1, <<1, 2>>)>>, 0)
Talking == P(<<<<2, 0>>, <<>>>>, <<F(2, <<1>>), F(1, <<>>)>>, 1)

MCCompiled == {Plain, Longer, Talking}
(* Nothing, whole programs, another minor version, another major version,   *)
(* another kind of file, and something behind the end.                      *)
MCLeftovers ==
    {Image(m) : m \in MCCompiled} \cup
    {<<>>, [Image(Plain) EXCEPT ![2] = 5], [Image(Plain) EXCEPT ![2] = 9],
     [Image(Plain) EXCEPT ![1] = 0], Image(Plain) \o <<7>>}

ASSUME MCLeftoversKnown == LeftoversKnown
=============================================================================
