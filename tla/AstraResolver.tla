--------------------------- MODULE AstraResolver ---------------------------
(***************************************************************************)
(* The module resolver: from an entry file it discovers every imported     *)
(* module with an explicit work stack, then orders the modules depth       *)
(* first, dependencies before their importers, or reports a cycle.         *)
(*                                                                         *)
(* A project is what is on disk: the imports of each file, in order, and   *)
(* the file a module name means to a given importing file, if any.  A name *)
(* is looked up relative to the importer's directory, but the graph is     *)
(* keyed by the name alone: where one name means two files the graph is    *)
(* not that of the disk.  The properties speak of the disk, and say which  *)
(* of them need unambiguous names.                                         *)
(***************************************************************************)
EXTENDS Integers, Sequences

CONSTANTS
    Name,       \* module names
    Main,       \* "__main__", the name of the entry file's node
    File,       \* source files
    NoFile,     \* resolve_path's exception
    Projects,   \* the projects the resolver may be run on
    MaxBuilds   \* bound: calls of build_load_order on one resolver

Project ==
    [imports : [File -> Seq(Name)],
     locate : [File -> [Name -> File \cup {NoFile}]],
     entries : SUBSET File]

ASSUME ResolverAssumption ==
    /\ Main \in Name
    /\ NoFile \notin File
    /\ Projects \subseteq Project
    /\ MaxBuilds \in Nat

VARIABLES
    project,   \* the files on disk; never changes
    entry,     \* the entry file of the last call
    builds,    \* calls of build_load_order so far
    phase,     \* what the last call is doing, or how it ended
    graph,     \* graph_: the nodes found, by name
    todo,      \* the entry's imports still to be resolved
    work,      \* resolve_node's work stack
    visited,   \* visited_
    onStack,   \* on_stack_
    order,     \* order_
    calls      \* the active calls of dfs: how many imports each has followed

vars == <<project, entry, builds, phase, graph, todo, work, visited, onStack, order, calls>>
request == <<project, entry, builds>>
search == <<graph, todo, work>>
sorting == <<visited, onStack, order, calls>>

Phase == {"idle", "resolving", "ordering", "done", "cycle"}
Node == [path : File, imports : Seq(Name)]
NamedNode == [name : Name, path : File, imports : Seq(Name)]

TypeOK ==
    /\ project \in Project
    /\ entry \in File \cup {NoFile}
    /\ builds \in 0 .. MaxBuilds
    /\ phase \in Phase
    /\ DOMAIN graph \subseteq Name
    /\ graph \in [DOMAIN graph -> Node]
    /\ todo \in Seq(Name)
    /\ work \in Seq([name : Name, from : File])
    /\ visited \subseteq Name
    /\ onStack \subseteq Name
    /\ order \in Seq(NamedNode)
    /\ calls \in Seq([name : Name, next : Nat])

Known == DOMAIN graph
With(g, n, node) == [m \in DOMAIN g \cup {n} |-> IF m = n THEN node ELSE g[m]]

(* scan_imports finds nothing in a file it cannot open.                     *)
Scan(f) == IF f \in File THEN project.imports[f] ELSE <<>>
NodeOf(f) == [path |-> f, imports |-> Scan(f)]
Named(n) == [name |-> n, path |-> graph[n].path, imports |-> graph[n].imports]
Locate(n, from) == project.locate[from][n]

Init ==
    /\ project \in Projects
    /\ entry = NoFile
    /\ builds = 0
    /\ phase = "idle"
    /\ graph = <<>> /\ todo = <<>> /\ work = <<>>
    /\ visited = {} /\ onStack = {} /\ order = <<>> /\ calls = <<>>

-----------------------------------------------------------------------------
(* build_load_order and resolve_node: discover the modules. *)

(* A call starts over with the entry node; all else is left from the last.  *)
Build(f) ==
    /\ phase \in {"idle", "done", "cycle"}
    /\ builds < MaxBuilds
    /\ entry' = f
    /\ builds' = builds + 1
    /\ phase' = "resolving"
    /\ graph' = With(graph, Main, NodeOf(f))
    /\ todo' = Scan(f)
    /\ UNCHANGED <<project, work, sorting>>

NextImport ==
    /\ phase = "resolving"
    /\ work = <<>>
    /\ todo # <<>>
    /\ work' = <<[name |-> Head(todo), from |-> entry]>>
    /\ todo' = Tail(todo)
    /\ UNCHANGED <<request, phase, graph, sorting>>

(* The imports of a node just found in file f that nobody has found yet,    *)
(* one pushed after the other.                                              *)
Wanted(f, found) ==
    LET pushed[i \in 0 .. Len(Scan(f))] ==
            IF i = 0 THEN <<>>
            ELSE IF Scan(f)[i] \in found THEN pushed[i - 1]
            ELSE Append(pushed[i - 1], [name |-> Scan(f)[i], from |-> f])
    IN  pushed[Len(Scan(f))]

(* Mutants: a missing module ends the search, or is never taken off the     *)
(* work stack; a file is not opened before it gets a node; the imports of a *)
(* module are looked up from the file that imports it.                      *)
ResolveGivesUp(w, rest) ==
    LET path == Locate(w.name, w.from)
    IN  IF w.name \in Known THEN work' = rest /\ UNCHANGED graph
        ELSE IF path = NoFile THEN work' = <<>> /\ UNCHANGED graph
        ELSE /\ graph' = With(graph, w.name, NodeOf(path))
             /\ work' = rest \o Wanted(path, Known \cup {w.name})
ResolvePeeks(w, rest) ==
    LET path == Locate(w.name, w.from)
    IN  IF w.name \in Known THEN work' = rest /\ UNCHANGED graph
        ELSE IF path = NoFile THEN UNCHANGED <<work, graph>>
        ELSE /\ graph' = With(graph, w.name, NodeOf(path))
             /\ work' = rest \o Wanted(path, Known \cup {w.name})
ResolveUnopened(w, rest) ==
    LET path == Locate(w.name, w.from)
    IN  IF w.name \in Known THEN work' = rest /\ UNCHANGED graph
        ELSE /\ graph' = With(graph, w.name, NodeOf(path))
             /\ work' = rest \o Wanted(path, Known \cup {w.name})

ResolveFromImporter(w, rest) ==
    LET path == Locate(w.name, w.from)
        new == Wanted(path, Known \cup {w.name})
    IN  IF w.name \in Known \/ path = NoFile THEN work' = rest /\ UNCHANGED graph
        ELSE /\ graph' = With(graph, w.name, NodeOf(path))
             /\ work' = rest \o [i \in DOMAIN new |-> [new[i] EXCEPT !.from = w.from]]

(* One turn of resolve_node's loop on item w: a module already in the graph *)
(* or missing is skipped, a new one gets a node and its imports are pushed. *)
Resolve(w, rest) ==
    LET path == Locate(w.name, w.from)
    IN  IF w.name \in Known \/ path = NoFile THEN work' = rest /\ UNCHANGED graph
        ELSE /\ graph' = With(graph, w.name, NodeOf(path))
             /\ work' = rest \o Wanted(path, Known \cup {w.name})

ResolveNode ==
    /\ phase = "resolving"
    /\ work # <<>>
    /\ Resolve(work[Len(work)], SubSeq(work, 1, Len(work) - 1))
    /\ UNCHANGED <<request, phase, todo, sorting>>

-----------------------------------------------------------------------------
(* dfs: order the modules. *)

Answer(callers) == IF callers = <<>> THEN "done" ELSE "ordering"

(* Mutants: a module on the stack is skipped like a visited one; a visited  *)
(* module is entered again.                                                 *)
VisitForgiving(n, callers) ==
    IF n \in visited \cup onStack THEN
        calls' = callers /\ phase' = Answer(callers) /\ UNCHANGED onStack
    ELSE
        /\ calls' = Append(callers, [name |-> n, next |-> 0])
        /\ onStack' = onStack \cup {n}
        /\ phase' = "ordering"
VisitAgain(n, callers) ==
    IF n \in onStack THEN
        calls' = <<>> /\ phase' = "cycle" /\ UNCHANGED onStack
    ELSE
        /\ calls' = Append(callers, [name |-> n, next |-> 0])
        /\ onStack' = onStack \cup {n}
        /\ phase' = "ordering"

(* Enter dfs(n) above `callers`: return at once, throw, or go on.           *)
Visit(n, callers) ==
    IF n \in visited THEN
        calls' = callers /\ phase' = Answer(callers) /\ UNCHANGED onStack
    ELSE IF n \in onStack THEN
        calls' = <<>> /\ phase' = "cycle" /\ UNCHANGED onStack
    ELSE
        /\ calls' = Append(callers, [name |-> n, next |-> 0])
        /\ onStack' = onStack \cup {n}
        /\ phase' = "ordering"

StartOrder ==
    /\ phase = "resolving"
    /\ work = <<>> /\ todo = <<>>
    /\ Visit(Main, <<>>)
    /\ UNCHANGED <<request, search, visited, order>>

Call == calls[Len(calls)]
Callers == SubSeq(calls, 1, Len(calls) - 1)
Import == graph[Call.name].imports[Call.next + 1]
Advanced == [calls EXCEPT ![Len(calls)].next = @ + 1]
Following ==
    phase = "ordering" /\ calls # <<>> /\ Call.next < Len(graph[Call.name].imports)

SkipMissing ==
    /\ Following
    /\ Import \notin Known
    /\ calls' = Advanced
    /\ UNCHANGED <<request, phase, search, visited, onStack, order>>

Follow ==
    /\ Following
    /\ Import \in Known
    /\ Visit(Import, Advanced)
    /\ UNCHANGED <<request, search, visited, order>>

Leave ==
    /\ phase = "ordering"
    /\ calls # <<>>
    /\ Call.next >= Len(graph[Call.name].imports)
    /\ visited' = visited \cup {Call.name}
    /\ onStack' = onStack \ {Call.name}
    /\ order' = Append(order, Named(Call.name))
    /\ calls' = Callers
    /\ phase' = Answer(Callers)
    /\ UNCHANGED <<request, search>>

Next ==
    \/ \E f \in project.entries : Build(f)
    \/ NextImport \/ ResolveNode
    \/ StartOrder \/ SkipMissing \/ Follow \/ Leave

Spec == Init /\ [][Next]_vars

(* A call, once made, runs to its end: both loops and dfs are sequential    *)
(* code.  Nobody has to make a call.                                        *)
Working == Next /\ phase \in {"resolving", "ordering"}
FairSpec == Spec /\ WF_vars(Working)

-----------------------------------------------------------------------------
(* Dependencies come first: every import of an ordered module that has a    *)
(* node stands before it, each module once (resolver.h, "Load order").      *)
DepsFirst ==
    \A i \in DOMAIN order :
        /\ \A j \in DOMAIN order[i].imports :
              order[i].imports[j] \in Known =>
                  \E k \in 1 .. i - 1 : order[k].name = order[i].imports[j]
        /\ \A k \in 1 .. i - 1 : order[k].name # order[i].name

(* On disk: what a file imports, and the import closure of the entry, the   *)
(* least set of files that has the entry and all that its files import.     *)
ImportedNames(f) == {Scan(f)[i] : i \in DOMAIN Scan(f)}
Imported(f) == {Locate(n, f) : n \in ImportedNames(f)} \ {NoFile}
Closure ==
    LET closed == {S \in SUBSET File : entry \in S /\ \A f \in S : Imported(f) \subseteq S}
    IN  {f \in File : \A S \in closed : f \in S}

(* A name means the same to all files of the closure that import it, and    *)
(* the name of the entry's node, if one imports it, means the entry.        *)
Unambiguous ==
    LET files == Closure
    IN  /\ \A f, g \in files : \A n \in ImportedNames(f) \cap ImportedNames(g) :
              Locate(n, f) = Locate(n, g)
        /\ \A f \in files : Main \in ImportedNames(f) => Locate(Main, f) = entry

Searched == phase \in {"ordering", "done", "cycle"}
Imports(m, n) == \E i \in DOMAIN graph[m].imports : graph[m].imports[i] = n

(* Whatever the names mean, the search overlooks nothing: a module without  *)
(* a node can be found from no file that imports it, even if the first      *)
(* importer tried it from elsewhere, and every node but the entry's is the  *)
(* file that at least one of its importers means.                           *)
Missing(n) == \A m \in Known : Imports(m, n) => Locate(n, graph[m].path) = NoFile
ImportedAs(n, f) == \E m \in Known : Imports(m, n) /\ Locate(n, graph[m].path) = f

NothingOverlooked ==
    Searched =>
        /\ \A n \in Name \ Known : Missing(n)
        /\ \A n \in Known \ {Main} : ImportedAs(n, graph[n].path)

(* Each importer gets the module its own import means ("relative to source  *)
(* file", resolver.h:17).  The graph keyed by names does not keep this in   *)
(* every project; it does where names are unambiguous (GraphIsClosure).     *)
OwnModules ==
    Searched => \A m, n \in Known :
                    Imports(m, n) => graph[n].path = Locate(n, graph[m].path)

(* Where names are unambiguous the graph is the one on disk: its files are  *)
(* exactly the import closure of the entry, and each edge leads to the file *)
(* its own importer means (resolver.h:49, "the full dependency graph").     *)
GraphIsClosure ==
    Searched /\ Unambiguous =>
        {graph[n].path : n \in Known} = Closure /\ OwnModules

(* A reported cycle is one on disk (resolver.h:20-23, 51): some files of    *)
(* the closure each import one of them.  Not so where names are ambiguous.  *)
CyclesAreReal ==
    phase = "cycle" =>
        \E S \in SUBSET Closure : S # {} /\ \A f \in S : Imported(f) \cap S # {}

(* Every call returns or throws, also on cyclic and on missing imports.     *)
CallsEnd == (phase = "resolving") ~> (phase \in {"done", "cycle"})

(* What a node needs is what its file imports and means, on disk.           *)
Needs(n) ==
    LET f == graph[n].path
    IN  {m \in Known : m \in ImportedNames(f) /\ Locate(m, f) = graph[m].path}

(* The resolver keeps the promise of its header: see AstraLoadOrder.  A     *)
(* complaint where names are ambiguous counts for no answer: it may be      *)
(* about a circle of names that is none of files.                           *)
LoadOrder == INSTANCE AstraLoadOrder WITH
    needs <- IF Searched THEN [n \in Known |-> Needs(n)] ELSE <<>>,
    loaded <- [i \in DOMAIN order |-> order[i].name],
    answer <- IF phase = "done" \/ (phase = "cycle" /\ Unambiguous) THEN phase
              ELSE "pending"

KeepsPromise == LoadOrder!LSpec
=============================================================================
