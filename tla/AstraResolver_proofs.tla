------------------------ MODULE AstraResolver_proofs ------------------------
(***************************************************************************)
(* A resolver that is asked once loads dependencies first, whatever the    *)
(* project: the depth first search, with its marks and its call stack.     *)
(***************************************************************************)
EXTENDS AstraResolver, AstraInduction

(* What the search relies on and the type invariant does not say: the       *)
(* imports of a node are a list, nothing is ordered before the search has   *)
(* ended, and the entry always has a node.                                  *)
GraphTyped == \A n \in Known : graph[n].imports \in Seq(Name)

NothingOrdered ==
    phase \in {"idle", "resolving"} =>
        order = <<>> /\ visited = {} /\ onStack = {} /\ calls = <<>>

EntryKnown == IF phase = "idle" THEN builds = 0 ELSE Main \in Known /\ builds = 1

(* visited_ marks exactly what has been put in order.                       *)
VisitedOrdered ==
    \A n : n \in visited <=> \E i \in DOMAIN order : order[i].name = n

(* An active call of dfs is for a marked, unfinished module with a node;    *)
(* no module is active twice; and every import a call has passed is done,   *)
(* missing, or the one its callee is about.                                 *)
CallsMarked ==
    \A i \in DOMAIN calls :
        /\ calls[i].name \in onStack
        /\ calls[i].name \notin visited
        /\ \A j \in DOMAIN calls : i # j => calls[i].name # calls[j].name

PassedDone ==
    \A i \in DOMAIN calls : \A j \in 1 .. calls[i].next :
        j <= Len(graph[calls[i].name].imports) =>
        LET n == graph[calls[i].name].imports[j]
        IN  n \in Known => \/ n \in visited
                           \/ i < Len(calls) /\ n = calls[i + 1].name

(* Only nodes of the graph are ordered and entered.                         *)
Shape ==
    /\ project \in Project
    /\ order \in Seq({Named(n) : n \in Known})
    /\ calls \in Seq([name : Known, next : Nat])

IInv ==
    /\ Shape /\ GraphTyped /\ NothingOrdered /\ EntryKnown
    /\ VisitedOrdered /\ CallsMarked /\ PassedDone /\ DepsFirst

LEMMA ScanTyped ==
  ASSUME project \in Project, NEW f
  PROVE  Scan(f) \in Seq(Name)
  BY DEF Project, Scan

LEMMA WithTyped ==
  ASSUME project \in Project, GraphTyped, NEW n, NEW f, graph' = With(graph, n, NodeOf(f))
  PROVE  /\ Known' = Known \cup {n}
         /\ GraphTyped'
  BY ScanTyped DEF GraphTyped, Known, With, NodeOf

(* While nothing is ordered the search may change the graph freely.         *)
LEMMA SearchStep ==
  ASSUME IInv, phase \in {"idle", "resolving"}, UNCHANGED sorting,
         project' = project, GraphTyped',
         Known \subseteq Known', phase' = "resolving", EntryKnown'
  PROVE  IInv'
  BY DEF IInv, Shape, NothingOrdered, VisitedOrdered, CallsMarked, PassedDone,
         DepsFirst, sorting

(* Entering dfs(n) from a call stack that is in order but for n itself.     *)
SameNames(callers) ==
    /\ Len(callers) = Len(calls)
    /\ \A i \in 1 .. Len(calls) : callers[i].name = calls[i].name

PassedBut(callers, n) ==
    \A i \in 1 .. Len(callers) : \A j \in 1 .. callers[i].next :
        j <= Len(graph[callers[i].name].imports) =>
        LET m == graph[callers[i].name].imports[j]
        IN  m \in Known => \/ m \in visited
                           \/ i < Len(callers) /\ m = callers[i + 1].name
                           \/ i = Len(callers) /\ m = n

LEMMA VisitStep ==
  ASSUME IInv, phase \in {"resolving", "ordering"},
         NEW callers \in Seq([name : Known, next : Nat]), NEW n \in Known,
         Visit(n, callers), SameNames(callers), PassedBut(callers, n),
         UNCHANGED <<request, search, visited, order>>
  PROVE  IInv'
  <1> DEFINE k == Len(callers)
  <1>0. /\ k \in Nat /\ DOMAIN callers = 1 .. k /\ DOMAIN calls = 1 .. k
        /\ \A i \in 1 .. k : callers[i].name = calls[i].name
    BY DEF IInv, Shape, SameNames
  <1>1. /\ graph' = graph /\ Known' = Known /\ visited' = visited
        /\ order' = order /\ project' = project /\ builds' = builds
    BY DEF request, search, Known
  <1>2. \/ calls' = <<>> /\ UNCHANGED onStack /\ phase' \in {"done", "cycle"}
        \/ /\ calls' = callers /\ n \in visited /\ UNCHANGED onStack
           /\ phase' \in {"done", "ordering"}
        \/ /\ calls' = Append(callers, [name |-> n, next |-> 0])
           /\ n \notin visited /\ n \notin onStack
           /\ onStack' = onStack \cup {n}
           /\ phase' = "ordering"
    BY DEF Visit, Answer
  <1>3. calls' \in Seq([name : Known, next : Nat])
    <2> DEFINE S == [name : Known, next : Nat]
    <2>1. callers \in Seq(S) /\ [name |-> n, next |-> 0] \in S
      OBVIOUS
    <2> HIDE DEF S
    <2>2. Append(callers, [name |-> n, next |-> 0]) \in Seq(S) /\ <<>> \in Seq(S)
      BY <2>1
    <2>3. calls' \in Seq(S)
      BY <1>2, <2>1, <2>2
    <2> QED BY <2>3 DEF S
  <1>4. Shape' /\ GraphTyped' /\ NothingOrdered' /\ EntryKnown' /\ VisitedOrdered' /\ DepsFirst'
    <2>1. {Named(m) : m \in Known}' = {Named(m) : m \in Known}
      BY <1>1 DEF Named
    <2>2. Shape'
      BY <1>1, <1>3, <2>1 DEF IInv, Shape
    <2>3. GraphTyped' /\ NothingOrdered' /\ EntryKnown'
      BY <1>1, <1>2 DEF IInv, GraphTyped, NothingOrdered, EntryKnown
    <2>4. VisitedOrdered' /\ DepsFirst'
      BY <1>1 DEF IInv, VisitedOrdered, DepsFirst
    <2> QED BY <2>2, <2>3, <2>4
  <1> HIDE DEF k
  <1>5. CASE calls' = <<>>
    BY <1>4, <1>5 DEF IInv, CallsMarked, PassedDone
  <1>6. CASE calls' = callers /\ n \in visited /\ UNCHANGED onStack
    <2>1. CallsMarked'
      BY <1>0, <1>1, <1>6 DEF IInv, CallsMarked
    <2>2. PassedDone'
      BY <1>0, <1>1, <1>6 DEF PassedDone, PassedBut, k
    <2> QED BY <1>4, <2>1, <2>2 DEF IInv
  <1>7. CASE /\ calls' = Append(callers, [name |-> n, next |-> 0])
             /\ n \notin visited /\ n \notin onStack
             /\ onStack' = onStack \cup {n}
    <2>1. /\ DOMAIN calls' = 1 .. k + 1 /\ Len(calls') = k + 1
          /\ calls'[k + 1] = [name |-> n, next |-> 0]
          /\ \A i \in 1 .. k : calls'[i] = callers[i]
      BY <1>0, <1>7 DEF k
    <2>2. \A i \in 1 .. k : /\ calls'[i].name = calls[i].name
                            /\ calls[i].name \in onStack
                            /\ calls[i].name \notin visited
                            /\ \A j \in 1 .. k : i # j => calls[i].name # calls[j].name
      BY <1>0, <2>1 DEF IInv, CallsMarked
    <2>3. calls'[k + 1].name = n /\ calls'[k + 1].next = 0
      BY <2>1
    <2>4. \A i \in 1 .. k + 1 : i \in 1 .. k \/ i = k + 1
      BY <1>0
    <2>5. CallsMarked'
      <3> SUFFICES ASSUME NEW i \in 1 .. k + 1
                   PROVE  /\ calls'[i].name \in onStack'
                          /\ calls'[i].name \notin visited
                          /\ \A j \in 1 .. k + 1 : i # j => calls'[i].name # calls'[j].name
        BY <1>1, <2>1 DEF CallsMarked
      <3>1. CASE i \in 1 .. k
        BY <1>7, <2>2, <2>3, <2>4, <3>1
      <3>2. CASE i = k + 1
        BY <1>7, <2>2, <2>3, <2>4, <3>2
      <3> QED BY <2>4, <3>1, <3>2
    <2>6. PassedDone'
      <3> SUFFICES ASSUME NEW i \in 1 .. k + 1, NEW j \in 1 .. calls'[i].next,
                          j <= Len(graph[calls'[i].name].imports),
                          graph[calls'[i].name].imports[j] \in Known
                   PROVE  LET m == graph[calls'[i].name].imports[j]
                          IN  \/ m \in visited
                              \/ i < k + 1 /\ m = calls'[i + 1].name
        BY <1>1, <2>1 DEF PassedDone
      <3>1. i \in 1 .. k
        BY <1>0, <2>3, <2>4
      <3>2. /\ calls'[i] = callers[i]
            /\ i < k => i + 1 \in 1 .. k /\ calls'[i + 1] = callers[i + 1]
        BY <1>0, <2>1, <3>1
      <3> DEFINE m == graph[callers[i].name].imports[j]
      <3>3. m \in visited \/ (i < k /\ m = callers[i + 1].name) \/ (i = k /\ m = n)
        BY <1>0, <3>1, <3>2 DEF PassedBut, k
      <3>4. CASE i < k /\ m = callers[i + 1].name
        BY <1>0, <3>2, <3>4
      <3>5. CASE i = k /\ m = n
        BY <1>0, <2>3, <3>2, <3>5
      <3> QED BY <3>2, <3>3, <3>4, <3>5
    <2> QED BY <1>4, <2>5, <2>6 DEF IInv
  <1> QED BY <1>2, <1>5, <1>6, <1>7

THEOREM InitialSound == Init => IInv
  <1> SUFFICES ASSUME Init PROVE IInv
    OBVIOUS
  <1>1. project \in Project
    BY ResolverAssumption DEF Init
  <1> QED
    BY <1>1 DEF Init, IInv, Shape, GraphTyped, NothingOrdered, EntryKnown,
       VisitedOrdered, CallsMarked, PassedDone, DepsFirst, Known

-----------------------------------------------------------------------------
(* Every step of a single call preserves the invariant.                     *)
LEMMA NextPreserves ==
  ASSUME MaxBuilds <= 1, IInv, Next
  PROVE  IInv'
  <1>1. CASE \E f \in project.entries : Build(f)
    <2>1. PICK f \in project.entries : Build(f)
      BY <1>1
    <2>2. builds = 0 /\ phase = "idle"
      BY <2>1, ResolverAssumption DEF Build, IInv, EntryKnown
    <2>3. project' = project /\ GraphTyped' /\ Known' = Known \cup {Main}
      BY <2>1, WithTyped DEF Build, IInv, Shape
    <2>4. EntryKnown'
      BY <2>1, <2>2, <2>3 DEF Build, EntryKnown
    <2> QED BY <2>1, <2>2, <2>3, <2>4, SearchStep DEF Build
  <1>2. CASE NextImport
    <2>1. GraphTyped' /\ EntryKnown' /\ Known' = Known
      BY <1>2 DEF NextImport, IInv, GraphTyped, EntryKnown, Known, request
    <2> QED BY <1>2, <2>1, SearchStep DEF NextImport, request
  <1>3. CASE ResolveNode
    <2> DEFINE w == work[Len(work)]
    <2>1. PICK f : \/ UNCHANGED graph
                   \/ graph' = With(graph, w.name, NodeOf(f))
      BY <1>3 DEF ResolveNode, Resolve
    <2>2. GraphTyped' /\ Known \subseteq Known'
      <3>1. CASE UNCHANGED graph
        BY <3>1 DEF IInv, GraphTyped, Known
      <3>2. CASE graph' = With(graph, w.name, NodeOf(f))
        BY <3>2, WithTyped DEF IInv, Shape
      <3> QED BY <2>1, <3>1, <3>2
    <2>3. EntryKnown'
      BY <1>3, <2>2 DEF ResolveNode, IInv, EntryKnown, request
    <2> QED BY <1>3, <2>2, <2>3, SearchStep DEF ResolveNode, request
  <1>4. CASE StartOrder
    <2>1. calls = <<>> /\ Main \in Known
      BY <1>4 DEF StartOrder, IInv, NothingOrdered, EntryKnown
    <2>2. SameNames(<<>>) /\ PassedBut(<<>>, Main) /\ <<>> \in Seq([name : Known, next : Nat])
      BY <2>1 DEF SameNames, PassedBut
    <2> QED BY <1>4, <2>1, <2>2, VisitStep DEF StartOrder
  <1> DEFINE k == Len(calls)
  <1>5. ASSUME calls # <<>>
        PROVE  /\ k \in Nat \ {0} /\ DOMAIN calls = 1 .. k
               /\ Call = calls[k] /\ Call \in [name : Known, next : Nat]
               /\ Call.name \in Known /\ Call.next \in Nat
               /\ graph[Call.name].imports \in Seq(Name)
    <2> DEFINE S == [name : Known, next : Nat]
    <2>1. calls \in Seq(S)
      BY DEF IInv, Shape
    <2> HIDE DEF S
    <2>2. k \in Nat \ {0} /\ DOMAIN calls = 1 .. k /\ Call \in S
      BY <1>5, <2>1 DEF Call
    <2> QED BY <2>2 DEF S, IInv, GraphTyped, Call
  <1>6. ASSUME Following
        PROVE  /\ Advanced \in Seq([name : Known, next : Nat])
               /\ SameNames(Advanced)
               /\ PassedBut(Advanced, Import)
    <2> DEFINE S == [name : Known, next : Nat]
    <2>1. /\ k \in Nat \ {0} /\ DOMAIN calls = 1 .. k
          /\ Call.name \in Known /\ Call.next \in Nat /\ Call = calls[k]
          /\ calls \in Seq(S) /\ Call \in S
      BY <1>5, <1>6 DEF Following, IInv, Shape
    <2>2. [Call EXCEPT !.next = @ + 1] \in S
      BY <2>1
    <2>3. Advanced = [calls EXCEPT ![k] = [Call EXCEPT !.next = @ + 1]]
      BY <2>1 DEF Advanced
    <2> HIDE DEF S, k
    <2>4. /\ Advanced \in Seq(S) /\ Len(Advanced) = k /\ DOMAIN Advanced = 1 .. k
          /\ \A i \in 1 .. k : i # k => Advanced[i] = calls[i]
          /\ Advanced[k] = [Call EXCEPT !.next = @ + 1]
      BY <2>1, <2>2, <2>3
    <2>5. Advanced[k].name = Call.name /\ Advanced[k].next = Call.next + 1
      BY <2>1, <2>2, <2>4 DEF S
    <2>6. SameNames(Advanced)
      BY <2>1, <2>4, <2>5 DEF SameNames, k
    <2>7. PassedBut(Advanced, Import)
      <3> SUFFICES ASSUME NEW i \in 1 .. k, NEW j \in 1 .. Advanced[i].next,
                          j <= Len(graph[Advanced[i].name].imports),
                          graph[Advanced[i].name].imports[j] \in Known
                   PROVE  LET m == graph[Advanced[i].name].imports[j]
                          IN  \/ m \in visited
                              \/ i < k /\ m = Advanced[i + 1].name
                              \/ i = k /\ m = Import
        BY <2>4 DEF PassedBut
      <3> DEFINE m == graph[Advanced[i].name].imports[j]
      <3>1. CASE i = k
        <4>1. CASE j = Call.next + 1
          BY <2>5, <3>1, <4>1 DEF Import
        <4>2. CASE j \in 1 .. Call.next
          <5>1. m = graph[calls[k].name].imports[j] /\ j <= Len(graph[calls[k].name].imports)
            BY <2>1, <2>5, <3>1
          <5>2. m \in visited
            BY <2>1, <4>2, <5>1 DEF IInv, PassedDone
          <5> QED BY <5>2
        <4> QED BY <2>1, <2>5, <3>1, <4>1, <4>2
      <3>2. CASE i # k
        <4>1. /\ Advanced[i] = calls[i] /\ i + 1 \in 1 .. k
              /\ Advanced[i + 1].name = calls[i + 1].name
          BY <2>1, <2>4, <2>6, <3>2 DEF SameNames
        <4>2. m \in visited \/ m = calls[i + 1].name
          BY <2>1, <4>1 DEF IInv, PassedDone
        <4>3. i < k
          BY <2>1, <3>2
        <4> QED BY <4>1, <4>2, <4>3
      <3> QED BY <3>1, <3>2
    <2> QED BY <2>4, <2>6, <2>7 DEF S
  <1>7. CASE SkipMissing
    <2>1. /\ Following /\ calls' = Advanced /\ Import \notin Known
          /\ project' = project /\ phase' = phase /\ phase = "ordering" /\ builds' = builds
          /\ graph' = graph /\ Known' = Known /\ visited' = visited
          /\ onStack' = onStack /\ order' = order
      BY <1>7 DEF SkipMissing, Following, request, search, Known
    <2>2. k \in Nat \ {0} /\ DOMAIN calls = 1 .. k
      BY <1>5, <2>1 DEF Following
    <2>3. /\ calls' \in Seq([name : Known, next : Nat])
          /\ Len(calls') = k /\ DOMAIN calls' = 1 .. k
          /\ \A i \in 1 .. k : calls'[i].name = calls[i].name
      BY <1>6, <2>1, <2>2 DEF SameNames
    <2>4. {Named(m) : m \in Known}' = {Named(m) : m \in Known}
      BY <2>1 DEF Named
    <2>5. Shape'
      BY <2>1, <2>3, <2>4 DEF IInv, Shape
    <2>6. GraphTyped' /\ NothingOrdered' /\ EntryKnown' /\ VisitedOrdered' /\ DepsFirst'
      BY <2>1 DEF IInv, GraphTyped, NothingOrdered, EntryKnown, VisitedOrdered, DepsFirst
    <2>7. CallsMarked'
      BY <2>1, <2>2, <2>3 DEF IInv, CallsMarked
    <2>8. PassedDone'
      BY <1>6, <2>1, <2>3 DEF PassedBut, PassedDone
    <2> QED BY <2>5, <2>6, <2>7, <2>8 DEF IInv
  <1>8. CASE Follow
    <2>1. Following /\ phase = "ordering" /\ Import \in Known /\ Visit(Import, Advanced)
      BY <1>8 DEF Follow, Following
    <2> QED BY <1>6, <1>8, <2>1, VisitStep DEF Follow
  <1>9. CASE Leave
    <2> DEFINE top == Call.name
    <2>1. /\ phase = "ordering" /\ calls # <<>> /\ calls' = Callers
          /\ Call.next >= Len(graph[top].imports)
          /\ visited' = visited \cup {top} /\ onStack' = onStack \ {top}
          /\ order' = Append(order, Named(top))
          /\ project' = project /\ builds' = builds /\ phase' \in {"done", "ordering"}
          /\ graph' = graph /\ Known' = Known
      BY <1>9 DEF Leave, request, search, Known, Answer
    <2>2. /\ k \in Nat \ {0} /\ DOMAIN calls = 1 .. k /\ top = calls[k].name
          /\ Call = calls[k] /\ top \in Known /\ graph[top].imports \in Seq(Name)
      BY <1>5, <2>1 DEF Call
    <2> HIDE DEF k, top
    <2>3. /\ calls' \in Seq([name : Known, next : Nat])
          /\ Len(calls') = k - 1 /\ DOMAIN calls' = 1 .. k - 1
          /\ \A i \in 1 .. k - 1 : calls'[i] = calls[i] /\ i \in 1 .. k
      <3> DEFINE S == [name : Known, next : Nat]
      <3>1. calls \in Seq(S) /\ Callers = SubSeq(calls, 1, k - 1) /\ k = Len(calls)
        BY DEF IInv, Shape, Callers, k
      <3> HIDE DEF S
      <3>2. calls' \in Seq(S) /\ Len(calls') = k - 1
            /\ \A i \in 1 .. k - 1 : calls'[i] = calls[i]
        BY <2>1, <2>2, <3>1
      <3> QED BY <2>2, <3>2 DEF S
    <2>4. Shape'
      <3> DEFINE R == {Named(m) : m \in Known}
      <3>1. R' = R /\ Named(top) \in R /\ order \in Seq(R)
        BY <2>1, <2>2 DEF Named, IInv, Shape
      <3> HIDE DEF R
      <3>2. order' \in Seq(R')
        BY <2>1, <3>1
      <3> QED BY <2>1, <2>3, <3>2 DEF IInv, Shape, R
    <2>5. GraphTyped' /\ NothingOrdered' /\ EntryKnown'
      BY <2>1 DEF IInv, GraphTyped, NothingOrdered, EntryKnown
    <2>6. top \notin visited /\ \A i \in 1 .. k - 1 : calls[i].name # top
      <3>1. k \in 1 .. k /\ \A i \in 1 .. k - 1 : i # k /\ i \in 1 .. k
        BY <2>2
      <3> QED BY <2>2, <3>1 DEF IInv, CallsMarked
    <2>7. CallsMarked'
      BY <2>1, <2>2, <2>3, <2>6 DEF IInv, CallsMarked
    <2>8. PassedDone'
      <3> SUFFICES ASSUME NEW i \in 1 .. k - 1, NEW j \in 1 .. calls'[i].next,
                          j <= Len(graph[calls'[i].name].imports),
                          graph[calls'[i].name].imports[j] \in Known
                   PROVE  LET m == graph[calls'[i].name].imports[j]
                          IN  \/ m \in visited'
                              \/ i < k - 1 /\ m = calls'[i + 1].name
        <4>1. DOMAIN calls' = 1 .. k - 1 /\ Len(calls') = k - 1 /\ graph' = graph
              /\ Known' = Known
          BY <2>1, <2>3
        <4> HIDE DEF k
        <4> QED BY <4>1 DEF PassedDone
      <3> DEFINE m == graph[calls'[i].name].imports[j]
      <3>1. i \in DOMAIN calls /\ calls'[i] = calls[i]
        BY <2>2, <2>3
      <3>2. m \in visited \/ m = calls[i + 1].name
        BY <3>1 DEF IInv, PassedDone
      <3> HIDE DEF m
      <3>3. CASE i = k - 1
        <4>1. i + 1 = k
          BY <2>2, <3>3
        <4> QED BY <2>1, <2>2, <3>2, <4>1 DEF m
      <3>4. CASE i # k - 1
        <4>1. i < k - 1 /\ i + 1 \in 1 .. k - 1
          BY <2>2, <3>4
        <4> QED BY <2>1, <2>3, <3>2, <4>1 DEF m
      <3> QED BY <3>3, <3>4
    <2> DEFINE n == Len(order)
    <2>9. /\ n \in Nat /\ DOMAIN order = 1 .. n /\ DOMAIN order' = 1 .. n + 1
          /\ \A i \in 1 .. n : order'[i] = order[i]
          /\ order'[n + 1] = Named(top)
      <3> DEFINE R == {Named(m) : m \in Known}
      <3>1. order \in Seq(R)
        BY DEF IInv, Shape
      <3> HIDE DEF R
      <3> QED BY <2>1, <3>1
    <2> HIDE DEF n
    <2>10. order'[n + 1].name = top /\ order'[n + 1].imports = graph[top].imports
      BY <2>9 DEF Named
    <2>11. \A i \in 1 .. n + 1 : i \in 1 .. n \/ i = n + 1
      BY <2>9
    <2>12. n + 1 \in 1 .. n + 1 /\ \A i \in 1 .. n : i \in 1 .. n + 1
      BY <2>9
    <2>13. VisitedOrdered'
      BY <2>1, <2>9, <2>10, <2>11, <2>12 DEF IInv, VisitedOrdered
    <2>14. DepsFirst'
      <3> SUFFICES ASSUME NEW i \in 1 .. n + 1
                   PROVE  /\ \A j \in DOMAIN order'[i].imports :
                                order'[i].imports[j] \in Known =>
                                  \E l \in 1 .. i - 1 : order'[l].name = order'[i].imports[j]
                          /\ \A l \in 1 .. i - 1 : order'[l].name # order'[i].name
        BY <2>1, <2>9 DEF DepsFirst
      <3>1. CASE i \in 1 .. n
        <4>1. \A l \in 1 .. i - 1 : order'[l] = order[l]
          BY <2>9, <3>1
        <4>2. order'[i] = order[i] /\ i \in DOMAIN order
          BY <2>9, <3>1
        <4>3. \A j \in DOMAIN order[i].imports :
                 order[i].imports[j] \in Known =>
                    \E l \in 1 .. i - 1 : order[l].name = order[i].imports[j]
          BY <4>2 DEF IInv, DepsFirst
        <4>4. \A l \in 1 .. i - 1 : order[l].name # order[i].name
          BY <4>2 DEF IInv, DepsFirst
        <4> QED BY <4>1, <4>2, <4>3, <4>4
      <3>2. CASE i = n + 1
        <4>1. \A x \in visited : \E l \in 1 .. n : order'[l].name = x
          BY <2>9 DEF IInv, VisitedOrdered
        <4>2. \A l \in 1 .. n : order'[l].name # top
          BY <2>6, <2>9 DEF IInv, VisitedOrdered
        <4>3. ASSUME NEW j \in DOMAIN graph[top].imports, graph[top].imports[j] \in Known
              PROVE  graph[top].imports[j] \in visited
          <5>1. j \in 1 .. Call.next /\ j <= Len(graph[top].imports)
            BY <1>5, <2>1, <2>2
          <5> QED BY <2>2, <4>3, <5>1 DEF IInv, PassedDone, k
        <4>4. i - 1 = n
          BY <2>9, <3>2
        <4> QED BY <2>10, <3>2, <4>1, <4>2, <4>3, <4>4
      <3> QED BY <2>11, <3>1, <3>2
    <2> QED BY <2>4, <2>5, <2>7, <2>8, <2>13, <2>14 DEF IInv
  <1> QED BY <1>1, <1>2, <1>3, <1>4, <1>7, <1>8, <1>9 DEF Next

LEMMA StutterPreserves == IInv /\ UNCHANGED vars => IInv'
  BY DEF IInv, Shape, Named, GraphTyped, NothingOrdered, EntryKnown, VisitedOrdered,
     CallsMarked, PassedDone, DepsFirst, vars, Known

(* A resolver that is asked once puts every module after all it imports and *)
(* no module twice, at every moment of the search, whatever is on disk:     *)
(* cyclic, missing, repeated imports and imports of the entry included.     *)
THEOREM LoadsDepsFirst == ASSUME MaxBuilds <= 1 PROVE Spec => []DepsFirst
  <1>1. Init => IInv
    BY InitialSound
  <1>2. IInv /\ [Next]_vars => IInv'
    BY NextPreserves, StutterPreserves
  <1>3. IInv => DepsFirst
    BY DEF IInv
  <1> QED BY <1>1, <1>2, <1>3, PTL DEF Spec

-----------------------------------------------------------------------------
(* The types, of any number of calls on one resolver.                       *)

(* What the types alone do not say: a call has an entry file and a node for *)
(* it, and dfs is only entered for modules that have a node.                *)
Located ==
    /\ phase # "idle" => entry \in File /\ Main \in Known
    /\ \A i \in DOMAIN calls : calls[i].name \in Known

TInv == TypeOK /\ Located

Active == [name : Known, next : Nat]

LEMMA NodeTyped ==
  ASSUME project \in Project, graph \in [Known -> Node], NEW n \in Name, NEW f \in File,
         graph' = With(graph, n, NodeOf(f))
  PROVE  Known' = Known \cup {n} /\ graph' \in [Known' -> Node]
  <1>1. NodeOf(f) \in Node
    BY ScanTyped DEF NodeOf, Node
  <1>2. Known' = Known \cup {n}
    BY DEF With, Known
  <1> QED BY <1>1, <1>2 DEF With, Known

(* The items pushed for a new node are its imports that are not found yet,  *)
(* and each of those is pushed.                                             *)
ItemsFor(items, f, found) ==
  /\ items \in Seq([name : Name, from : File])
  /\ \A j \in DOMAIN items : \E i \in DOMAIN Scan(f) : items[j] = [name |-> Scan(f)[i], from |-> f]
  /\ \A i \in DOMAIN Scan(f) : Scan(f)[i] \notin found =>
        \E j \in DOMAIN items : items[j] = [name |-> Scan(f)[i], from |-> f]

LEMMA WantedIs ==
  ASSUME project \in Project, NEW f \in File, NEW found
  PROVE  ItemsFor(Wanted(f, found), f, found)
  <1> DEFINE s == Scan(f)
             n == Len(s)
             W == [name : Name, from : File]
             Item(i) == [name |-> s[i], from |-> f]
             Grown(i, q) == IF s[i] \in found THEN q ELSE Append(q, Item(i))
             Body(g) == [i \in 0 .. n |-> IF i = 0 THEN <<>> ELSE Grown(i, g[i - 1])]
             step == [p \in (1 .. n) \X Seq(W) |-> Grown(p[1], p[2])]
             pushed == CHOOSE g : g = Body(g)
  <1>1. s \in Seq(Name) /\ n \in Nat /\ DOMAIN s = 1 .. n /\ \A i \in 1 .. n : s[i] \in Name
    BY ScanTyped
  <1>2. \A i \in 1 .. n : Item(i) \in W
    BY <1>1
  <1>3. Wanted(f, found) = pushed[n]
    BY DEF Wanted
  <1> HIDE DEF s, n, W, Item
  <1>4. step \in [(1 .. n) \X Seq(W) -> Seq(W)] /\ <<>> \in Seq(W)
    BY <1>2
  <1> HIDE DEF step
  <1>5. PICK g \in [0 .. n -> Seq(W)] : Follows(g, n, <<>>, step)
    BY <1>1, <1>4, RecursionExists
  <1>6. g = Body(g)
    <2>1. ASSUME NEW i \in 0 .. n PROVE g[i] = Body(g)[i]
      <3>1. CASE i = 0
        BY <1>5, <3>1 DEF Follows
      <3>2. CASE i # 0
        <4>1. i \in 1 .. n /\ i - 1 \in 0 .. n
          BY <1>1, <3>2
        <4>2. <<i, g[i - 1]>> \in (1 .. n) \X Seq(W) /\ g[i] = step[<<i, g[i - 1]>>]
          BY <1>5, <4>1 DEF Follows
        <4>3. g[i] = Grown(i, g[i - 1])
          BY <4>2 DEF step
        <4> QED BY <3>2, <4>3
      <3> QED BY <3>1, <3>2
    <2> QED BY <1>5, <2>1
  <1>7. pushed = Body(pushed)
    BY <1>6
  <1> HIDE DEF pushed
  <1>8. pushed[0] = <<>> /\ \A i \in 1 .. n : pushed[i] = Grown(i, pushed[i - 1])
    <2>1. 0 \in 0 .. n /\ \A i \in 1 .. n : i \in 0 .. n /\ i # 0
      BY <1>1
    <2> QED BY <1>7, <2>1
  <1> DEFINE From(q) == \A j \in DOMAIN q : \E i \in 1 .. n : q[j] = Item(i)
             Covers(q, k) == \A i \in 1 .. k : s[i] \notin found => \E j \in DOMAIN q : q[j] = Item(i)
             T == {k \in 0 .. n : pushed[k] \in Seq(W) /\ From(pushed[k]) /\ Covers(pushed[k], k)}
  <1>9. 0 \in T
    <2>1. pushed[0] = <<>> /\ 0 \in 0 .. n /\ DOMAIN <<>> = {} /\ <<>> \in Seq(W) /\ 1 .. 0 = {}
      BY <1>1, <1>8
    <2>2. From(<<>>)
      BY <2>1
    <2>3. Covers(<<>>, 0)
      BY <2>1
    <2> HIDE DEF From, Covers
    <2> QED BY <2>1, <2>2, <2>3
  <1>10. ASSUME NEW k \in 0 .. n - 1, k \in T
         PROVE  k + 1 \in T
    <2> DEFINE q == pushed[k]
    <2>1. q \in Seq(W) /\ From(q) /\ Covers(q, k) /\ k + 1 \in 1 .. n /\ k \in Nat
      BY <1>1, <1>10
    <2>2. pushed[k + 1] = Grown(k + 1, q)
      BY <1>8, <2>1
    <2> HIDE DEF q
    <2>3. CASE s[k + 1] \in found
      <3>1. pushed[k + 1] = q
        BY <2>2, <2>3
      <3>2. Covers(q, k + 1)
        <4> SUFFICES ASSUME NEW i \in 1 .. k + 1, s[i] \notin found
                     PROVE  \E j \in DOMAIN q : q[j] = Item(i)
          OBVIOUS
        <4>1. i \in 1 .. k
          BY <2>1, <2>3
        <4> QED BY <2>1, <4>1
      <3> HIDE DEF From, Covers
      <3> QED BY <1>1, <2>1, <3>1, <3>2
    <2>4. CASE s[k + 1] \notin found
      <3> DEFINE r == Append(q, Item(k + 1))
                 m == Len(q)
      <3>1. pushed[k + 1] = r /\ m \in Nat /\ DOMAIN q = 1 .. m
        BY <2>1, <2>2, <2>4
      <3>2. /\ r \in Seq(W) /\ DOMAIN r = 1 .. m + 1 /\ r[m + 1] = Item(k + 1)
            /\ \A j \in 1 .. m : r[j] = q[j]
        BY <1>2, <2>1
      <3> HIDE DEF r, m
      <3>3. From(r)
        <4> SUFFICES ASSUME NEW j \in 1 .. m + 1
                     PROVE  \E i \in 1 .. n : r[j] = Item(i)
          BY <3>2
        <4>1. j \in 1 .. m \/ j = m + 1
          BY <3>1
        <4> QED BY <2>1, <3>1, <3>2, <4>1
      <3>4. Covers(r, k + 1)
        <4> SUFFICES ASSUME NEW i \in 1 .. k + 1, s[i] \notin found
                     PROVE  \E j \in 1 .. m + 1 : r[j] = Item(i)
          BY <3>2
        <4>1. CASE i = k + 1
          BY <3>1, <3>2, <4>1
        <4>2. CASE i # k + 1
          <5>1. i \in 1 .. k
            BY <2>1, <4>2
          <5>2. PICK j \in 1 .. m : q[j] = Item(i)
            BY <2>1, <3>1, <5>1
          <5> QED BY <3>1, <3>2, <5>2
        <4> QED BY <4>1, <4>2
      <3> HIDE DEF From, Covers
      <3> QED BY <1>1, <2>1, <3>1, <3>2, <3>3, <3>4
    <2> QED BY <2>3, <2>4
  <1> HIDE DEF T
  <1>11. 0 .. n \subseteq T
    BY <1>1, <1>9, <1>10, InductionUpTo
  <1>12. pushed[n] \in Seq(W) /\ From(pushed[n]) /\ Covers(pushed[n], n)
    BY <1>1, <1>11 DEF T
  <1>13. /\ Wanted(f, found) = pushed[n] /\ DOMAIN s = 1 .. n
         /\ \A j \in DOMAIN pushed[n] : j \in 1 .. Len(pushed[n])
    BY <1>1, <1>3, <1>12
  <1> QED BY <1>12, <1>13 DEF ItemsFor, s, n, W, Item

LEMMA ActiveTyped ==
  ASSUME TInv
  PROVE  calls \in Seq(Active)
  <1> DEFINE N == [name : Name, next : Nat]
  <1>1. calls \in Seq(N) /\ \A i \in DOMAIN calls : calls[i].name \in Known
    BY DEF TInv, TypeOK, Located
  <1>2. \A c \in N : c.name \in Known => c \in Active
    BY DEF Active
  <1> HIDE DEF N
  <1>3. Len(calls) \in Nat /\ DOMAIN calls = 1 .. Len(calls) /\ \A i \in 1 .. Len(calls) : calls[i] \in N
    BY <1>1
  <1>4. calls \in [1 .. Len(calls) -> Active]
    BY <1>1, <1>2, <1>3
  <1> HIDE DEF Active
  <1> QED BY <1>3, <1>4

(* Entering dfs(n) on top of well-formed callers.                           *)
LEMMA VisitTyped ==
  ASSUME TInv, phase # "idle", NEW n \in Known, NEW callers \in Seq(Active), Visit(n, callers),
         UNCHANGED <<request, search, visited, order>>
  PROVE  TInv'
  <1>1. [name |-> n, next |-> 0] \in Active
    BY DEF Active
  <1>2. calls' \in Seq(Active) /\ phase' \in Phase \ {"idle"}
    <2> HIDE DEF Active
    <2>1. <<>> \in Seq(Active) /\ Append(callers, [name |-> n, next |-> 0]) \in Seq(Active)
      BY <1>1
    <2> QED BY <2>1 DEF Visit, Answer, Phase
  <1>3. Known' = Known /\ Known \subseteq Name
    BY DEF search, Known, TInv, TypeOK
  <1>4. onStack' \subseteq Name
    BY <1>3 DEF Visit, TInv, TypeOK
  <1>5. \A i \in DOMAIN calls' : calls'[i] \in Active
    <2> HIDE DEF Active
    <2> QED BY <1>2
  <1>6. calls' \in Seq([name : Name, next : Nat])
    <2> DEFINE N == [name : Name, next : Nat]
    <2>1. Active \subseteq N
      BY <1>3 DEF Active
    <2> HIDE DEF Active, N
    <2>2. calls' \in Seq(N)
      BY <1>2, <2>1
    <2> QED BY <2>2 DEF N
  <1>7. TypeOK'
    BY <1>2, <1>3, <1>4, <1>6 DEF TInv, TypeOK, request, search, Known
  <1>8. Located'
    BY <1>2, <1>3, <1>5 DEF TInv, Located, request, Active
  <1> QED BY <1>7, <1>8 DEF TInv

LEMMA InitialTyped == Init => TInv
  BY ResolverAssumption DEF Init, TInv, TypeOK, Located, Phase, Node, Known

LEMMA RestTyped ==
  ASSUME NEW S, NEW s \in Seq(S), s # <<>>
  PROVE  /\ Len(s) \in Nat \ {0} /\ DOMAIN s = 1 .. Len(s) /\ s[Len(s)] \in S
         /\ SubSeq(s, 1, Len(s) - 1) \in Seq(S) /\ Len(SubSeq(s, 1, Len(s) - 1)) = Len(s) - 1
         /\ \A i \in 1 .. Len(s) - 1 : SubSeq(s, 1, Len(s) - 1)[i] = s[i]
         /\ Head(s) \in S /\ Tail(s) \in Seq(S)
  <1>1. Len(s) \in Nat \ {0} /\ DOMAIN s = 1 .. Len(s) /\ s[Len(s)] \in S
    OBVIOUS
  <1>2. SubSeq(s, 1, Len(s) - 1) \in Seq(S) /\ Len(SubSeq(s, 1, Len(s) - 1)) = Len(s) - 1
    BY <1>1
  <1>3. \A i \in 1 .. Len(s) - 1 : SubSeq(s, 1, Len(s) - 1)[i] = s[i]
    BY <1>1
  <1>4. Head(s) \in S /\ Tail(s) \in Seq(S)
    OBVIOUS
  <1> QED BY <1>1, <1>2, <1>3, <1>4

(* One turn of resolve_node, on its work item.                              *)
LEMMA ResolveTyped ==
  ASSUME TInv, ResolveNode
  PROVE  /\ Known \subseteq Known' /\ graph' \in [Known' -> Node] /\ Known' \subseteq Name
         /\ work' \in Seq([name : Name, from : File])
  <1> DEFINE W == [name : Name, from : File]
             w == work[Len(work)]
             rest == SubSeq(work, 1, Len(work) - 1)
             path == Locate(w.name, w.from)
  <1>1. work \in Seq(W) /\ work # <<>> /\ project \in Project
        /\ graph \in [Known -> Node] /\ Known \subseteq Name
    BY DEF TInv, TypeOK, ResolveNode, Known
  <1>2. w \in W /\ rest \in Seq(W)
    <2> HIDE DEF W
    <2> QED BY <1>1, RestTyped
  <1>3. w.name \in Name /\ w.from \in File
    BY <1>2
  <1>4. path \in File \cup {NoFile}
    BY <1>1, <1>3 DEF Locate, Project
  <1>5. Resolve(w, rest)
    BY DEF ResolveNode
  <1> HIDE DEF w, rest
  <1>6. CASE w.name \in Known \/ path = NoFile
    BY <1>1, <1>2, <1>5, <1>6 DEF Resolve, Known
  <1>7. CASE ~ (w.name \in Known \/ path = NoFile)
    <2>1. path \in File /\ graph' = With(graph, w.name, NodeOf(path))
          /\ work' = rest \o Wanted(path, Known \cup {w.name})
      BY <1>4, <1>5, <1>7 DEF Resolve
    <2>2. Known' = Known \cup {w.name} /\ graph' \in [Known' -> Node]
      BY <1>1, <1>3, <2>1, NodeTyped
    <2>3. Wanted(path, Known \cup {w.name}) \in Seq(W)
      BY <1>1, <2>1, WantedIs DEF ItemsFor
    <2> HIDE DEF W, path
    <2>4. work' \in Seq(W)
      BY <1>2, <2>1, <2>3
    <2> QED BY <1>1, <1>3, <2>2, <2>4 DEF W
  <1> QED BY <1>6, <1>7

(* The import an active call is about to follow.                            *)
LEMMA FollowingTyped ==
  ASSUME TInv, calls # <<>>
  PROVE  /\ Call \in Active /\ Call.name \in Known /\ Call.next \in Nat
         /\ graph[Call.name] \in Node /\ graph[Call.name].imports \in Seq(Name)
         /\ Callers \in Seq(Active) /\ Advanced \in Seq(Active)
  <1> DEFINE k == Len(calls)
  <1>1. calls \in Seq(Active)
    BY ActiveTyped
  <1>2. k \in Nat \ {0} /\ DOMAIN calls = 1 .. k /\ Call \in Active /\ Callers \in Seq(Active)
    <2> HIDE DEF Active
    <2> QED BY <1>1, RestTyped DEF Call, Callers
  <1>3. Call.name \in Known /\ Call.next \in Nat
    BY <1>2 DEF Active
  <1>4. graph[Call.name] \in Node
    BY <1>3 DEF TInv, TypeOK, Known
  <1>5. [Call EXCEPT !.next = @ + 1] \in Active
    BY <1>2 DEF Active
  <1>6. Advanced = [calls EXCEPT ![k] = [Call EXCEPT !.next = @ + 1]]
    BY <1>2 DEF Advanced, Call
  <1> HIDE DEF Active, k
  <1>7. Advanced \in Seq(Active)
    BY <1>1, <1>2, <1>5, <1>6
  <1> QED BY <1>2, <1>3, <1>4, <1>7 DEF Node

LEMMA NextTyped ==
  ASSUME TInv, [Next]_vars
  PROVE  TInv'
  <1>1. CASE \E f \in project.entries : Build(f)
    <2>1. PICK f \in project.entries : Build(f)
      BY <1>1
    <2>2. project \in Project /\ f \in File /\ graph \in [Known -> Node] /\ Known \subseteq Name
      BY DEF TInv, TypeOK, Project, Known
    <2>3. Known' = Known \cup {Main} /\ graph' \in [Known' -> Node]
      BY <2>1, <2>2, NodeTyped, ResolverAssumption DEF Build
    <2>4. todo' \in Seq(Name)
      BY <2>1, <2>2, ScanTyped DEF Build
    <2>5. builds' \in 0 .. MaxBuilds
      BY <2>1, ResolverAssumption DEF Build, TInv, TypeOK
    <2>6. TypeOK'
      BY <2>1, <2>2, <2>3, <2>4, <2>5, ResolverAssumption DEF Build, TInv, TypeOK, sorting, Phase, Known
    <2>7. Located'
      BY <2>1, <2>2, <2>3 DEF Build, TInv, Located, sorting
    <2> QED BY <2>6, <2>7 DEF TInv
  <1>2. CASE NextImport
    <2> DEFINE W == [name : Name, from : File]
    <2>1. entry \in File /\ todo \in Seq(Name) /\ todo # <<>>
      BY <1>2 DEF NextImport, TInv, TypeOK, Located
    <2>2. Head(todo) \in Name /\ Tail(todo) \in Seq(Name)
      BY <2>1, RestTyped
    <2>3. [name |-> Head(todo), from |-> entry] \in W
      BY <2>1, <2>2
    <2>4. work' \in Seq(W)
      <3> HIDE DEF W
      <3> QED BY <1>2, <2>3 DEF NextImport
    <2>5. TypeOK'
      BY <1>2, <2>2, <2>4 DEF NextImport, TInv, TypeOK, request, sorting
    <2>6. Located'
      BY <1>2 DEF NextImport, TInv, Located, request, sorting, Known
    <2> QED BY <2>5, <2>6 DEF TInv
  <1>3. CASE ResolveNode
    <2>1. /\ Known \subseteq Known' /\ graph' \in [Known' -> Node] /\ Known' \subseteq Name
          /\ work' \in Seq([name : Name, from : File])
      BY <1>3, ResolveTyped
    <2>2. TypeOK'
      BY <1>3, <2>1 DEF ResolveNode, TInv, TypeOK, request, sorting, Known
    <2>3. Located'
      BY <1>3, <2>1 DEF ResolveNode, TInv, Located, request, sorting
    <2> QED BY <2>2, <2>3 DEF TInv
  <1>4. CASE StartOrder
    <2>1. phase # "idle" /\ Main \in Known /\ <<>> \in Seq(Active)
      BY <1>4 DEF StartOrder, TInv, Located
    <2> QED BY <1>4, <2>1, VisitTyped DEF StartOrder
  <1>5. CASE SkipMissing
    <2>1. /\ calls' = Advanced /\ calls # <<>> /\ Known' = Known
          /\ UNCHANGED <<request, phase, search, visited, onStack, order>>
      BY <1>5 DEF SkipMissing, Following, search, Known
    <2>2. calls' \in Seq(Active) /\ Known \subseteq Name
      BY <2>1, FollowingTyped DEF TInv, TypeOK, Known
    <2>3. \A i \in DOMAIN calls' : calls'[i] \in Active
      <3> HIDE DEF Active
      <3> QED BY <2>2
    <2>4. calls' \in Seq([name : Name, next : Nat])
      <3> DEFINE N == [name : Name, next : Nat]
      <3>1. Active \subseteq N
        BY <2>2 DEF Active
      <3> HIDE DEF Active, N
      <3>2. calls' \in Seq(N)
        BY <2>2, <3>1
      <3> QED BY <3>2 DEF N
    <2>5. TypeOK'
      BY <2>1, <2>4 DEF TInv, TypeOK, request, search, Known
    <2>6. Located'
      BY <2>1, <2>3 DEF TInv, Located, request, Active
    <2> QED BY <2>5, <2>6 DEF TInv
  <1>6. CASE Follow
    <2>1. phase # "idle" /\ calls # <<>> /\ Import \in Known /\ Visit(Import, Advanced)
      BY <1>6 DEF Follow, Following
    <2> QED BY <1>6, <2>1, FollowingTyped, VisitTyped DEF Follow
  <1>7. CASE Leave
    <2>1. /\ calls # <<>> /\ calls' = Callers /\ phase' \in {"done", "ordering"} /\ Known' = Known
          /\ visited' = visited \cup {Call.name} /\ onStack' \subseteq onStack
          /\ order' = Append(order, Named(Call.name)) /\ UNCHANGED <<request, search>>
          /\ phase # "idle"
      BY <1>7 DEF Leave, Answer, search, Known
    <2>2. /\ calls' \in Seq(Active) /\ Call.name \in Known /\ graph[Call.name] \in Node
          /\ Known \subseteq Name
      BY <2>1, FollowingTyped DEF TInv, TypeOK, Known
    <2>3. \A i \in DOMAIN calls' : calls'[i] \in Active
      <3> HIDE DEF Active
      <3> QED BY <2>2
    <2>4. calls' \in Seq([name : Name, next : Nat])
      <3> DEFINE N == [name : Name, next : Nat]
      <3>1. Active \subseteq N
        BY <2>2 DEF Active
      <3> HIDE DEF Active, N
      <3>2. calls' \in Seq(N)
        BY <2>2, <3>1
      <3> QED BY <3>2 DEF N
    <2>5. Named(Call.name) \in NamedNode
      BY <2>2 DEF Named, NamedNode, Node
    <2>6. order' \in Seq(NamedNode)
      BY <2>1, <2>5 DEF TInv, TypeOK
    <2>7. TypeOK'
      BY <2>1, <2>2, <2>4, <2>6 DEF TInv, TypeOK, request, search, Known, Phase
    <2>8. Located'
      BY <2>1, <2>3 DEF TInv, Located, request, Active
    <2> QED BY <2>7, <2>8 DEF TInv
  <1>8. CASE UNCHANGED vars
    BY <1>8 DEF TInv, TypeOK, Located, vars, Known
  <1> QED BY <1>1, <1>2, <1>3, <1>4, <1>5, <1>6, <1>7, <1>8 DEF Next

(* However often one resolver is used, and whatever it is used on, its      *)
(* graph, its two stacks, its marks and its order keep their types; in      *)
(* particular no name is looked up from a file there is not, and dfs never  *)
(* asks the graph for a module that has no node.                            *)
THEOREM ResolverTypesHold == Spec => []TypeOK
  <1>1. TInv => TypeOK
    BY DEF TInv
  <1> QED BY <1>1, InitialTyped, NextTyped, PTL DEF Spec

-----------------------------------------------------------------------------
(* The search overlooks nothing; its graph is the import closure.           *)

(* What is left to do and what was done: the entry's node is the file the   *)
(* call was made for; every import of a node has a node, leads nowhere from *)
(* the file that imports it, or waits on the work stack or in the entry's   *)
(* list; what waits is imported by a node; and every node but the entry's   *)
(* was found by following an import of another.                             *)
Fresh == IF phase = "idle" THEN Known = {} /\ work = <<>> /\ todo = <<>>
         ELSE Main \in Known /\ graph[Main].path = entry

SearchAhead == phase \in {"ordering", "done", "cycle"} => work = <<>> /\ todo = <<>>

ImportsTried ==
    \A m \in Known, n \in Name : Imports(m, n) =>
        \/ n \in Known
        \/ Locate(n, graph[m].path) = NoFile
        \/ \E j \in DOMAIN work : work[j] = [name |-> n, from |-> graph[m].path]
        \/ m = Main /\ \E j \in DOMAIN todo : todo[j] = n

WaitingImported ==
    /\ \A j \in DOMAIN work :
          \E m \in Known : graph[m].path = work[j].from /\ Imports(m, work[j].name)
    /\ \A j \in DOMAIN todo : Imports(Main, todo[j])

NodesImported == \A n \in Known \ {Main} : ImportedAs(n, graph[n].path)

SearchInv == Fresh /\ SearchAhead /\ ImportsTried /\ WaitingImported /\ NodesImported

(* A step that leaves the search alone, which dfs may only start once there *)
(* is nothing left to find.                                                 *)
LEMMA AfterSearch ==
  ASSUME SearchInv, UNCHANGED <<request, search>>, phase # "idle", phase' # "idle",
         phase' = phase \/ (work = <<>> /\ todo = <<>>)
         \/ phase \in {"ordering", "done", "cycle"}
  PROVE  SearchInv'
  <1>1. graph' = graph /\ Known' = Known /\ work' = work /\ todo' = todo /\ entry' = entry
        /\ project' = project
    BY DEF request, search, Known
  <1>2. \A m, n : Imports(m, n)' <=> Imports(m, n)
    BY <1>1 DEF Imports
  <1>3. \A n : ImportedAs(n, graph[n].path)' <=> ImportedAs(n, graph[n].path)
    BY <1>1 DEF ImportedAs, Imports, Locate
  <1>4. Fresh' /\ SearchAhead'
    BY <1>1 DEF SearchInv, Fresh, SearchAhead
  <1>5. ImportsTried' /\ WaitingImported'
    BY <1>1, <1>2 DEF SearchInv, ImportsTried, WaitingImported, Locate
  <1>6. NodesImported'
    BY <1>1, <1>3 DEF SearchInv, NodesImported
  <1> QED BY <1>4, <1>5, <1>6 DEF SearchInv

LEMMA BuildSearches ==
  ASSUME MaxBuilds <= 1, IInv, TInv, SearchInv, NEW f \in project.entries, Build(f)
  PROVE  SearchInv'
  <1>1. builds = 0 /\ phase = "idle"
    BY ResolverAssumption DEF Build, IInv, EntryKnown
  <1>2. Known = {} /\ work = <<>> /\ Known' = {Main} /\ graph'[Main] = NodeOf(f)
    BY <1>1 DEF SearchInv, Fresh, Build, With, Known
  <1>3. /\ entry' = f /\ todo' = Scan(f) /\ work' = <<>> /\ phase' = "resolving"
        /\ graph'[Main].path = f /\ graph'[Main].imports = Scan(f)
    BY <1>2 DEF Build, NodeOf
  <1>4. \A n : Imports(Main, n)' <=> \E i \in DOMAIN Scan(f) : Scan(f)[i] = n
    BY <1>3 DEF Imports
  <1>5. Fresh' /\ SearchAhead' /\ NodesImported'
    BY <1>2, <1>3 DEF Fresh, SearchAhead, NodesImported
  <1>6. ImportsTried'
    BY <1>2, <1>3, <1>4 DEF ImportsTried
  <1>7. WaitingImported'
    BY <1>2, <1>3, <1>4 DEF WaitingImported
  <1> QED BY <1>5, <1>6, <1>7 DEF SearchInv

LEMMA NextImportSearches ==
  ASSUME TInv, SearchInv, NextImport
  PROVE  SearchInv'
  <1>1. /\ graph' = graph /\ Known' = Known /\ entry' = entry /\ project' = project
        /\ phase' = "resolving" /\ phase = "resolving" /\ work = <<>>
    BY DEF NextImport, request, Known
  <1>2. todo \in Seq(Name) /\ todo # <<>> /\ Len(todo) \in Nat \ {0} /\ DOMAIN todo = 1 .. Len(todo)
    BY DEF NextImport, TInv, TypeOK
  <1>3. /\ DOMAIN todo' = 1 .. Len(todo) - 1
        /\ \A j \in 1 .. Len(todo) - 1 : todo'[j] = todo[j + 1]
        /\ work' = <<[name |-> todo[1], from |-> entry]>>
    BY <1>2 DEF NextImport
  <1>4. Len(work') = 1 /\ DOMAIN work' = {1} /\ work'[1] = [name |-> todo[1], from |-> entry]
    BY <1>3
  <1>5. \A m, n : Imports(m, n)' <=> Imports(m, n)
    BY <1>1 DEF Imports
  <1>6. \A n : ImportedAs(n, graph[n].path)' <=> ImportedAs(n, graph[n].path)
    BY <1>1 DEF ImportedAs, Imports, Locate
  <1>7. Fresh' /\ SearchAhead' /\ NodesImported'
    BY <1>1, <1>6 DEF SearchInv, Fresh, SearchAhead, NodesImported
  <1>8. Main \in Known /\ graph[Main].path = entry
    BY <1>1 DEF SearchInv, Fresh
  <1>9. ImportsTried'
    <2> SUFFICES ASSUME NEW m \in Known, NEW n \in Name, Imports(m, n),
                        n \notin Known, Locate(n, graph[m].path) # NoFile
                 PROVE  \/ \E j \in DOMAIN work' : work'[j] = [name |-> n, from |-> graph[m].path]
                        \/ m = Main /\ \E j \in DOMAIN todo' : todo'[j] = n
      BY <1>1, <1>5 DEF ImportsTried, Locate
    <2>1. m = Main /\ \E j \in DOMAIN todo : todo[j] = n
      BY <1>1 DEF SearchInv, ImportsTried
    <2>2. PICK j \in 1 .. Len(todo) : todo[j] = n
      BY <1>2, <2>1
    <2>3. CASE j = 1
      BY <1>4, <1>8, <2>1, <2>2, <2>3
    <2>4. CASE j # 1
      <3>1. j - 1 \in 1 .. Len(todo) - 1 /\ j - 1 + 1 = j
        BY <1>2, <2>4
      <3>2. todo'[j - 1] = n
        BY <1>3, <2>2, <3>1
      <3> QED BY <1>3, <2>1, <3>1, <3>2
    <2> QED BY <2>3, <2>4
  <1>10. WaitingImported'
    <2>1. \A j \in DOMAIN todo : Imports(Main, todo[j])
      BY DEF SearchInv, WaitingImported
    <2>2. work'[1].from = entry /\ work'[1].name = todo[1] /\ 1 \in DOMAIN todo
      BY <1>2, <1>4
    <2>3. \A j \in 1 .. Len(todo) - 1 : j + 1 \in DOMAIN todo
      BY <1>2
    <2> QED BY <1>1, <1>3, <1>4, <1>5, <1>8, <2>1, <2>2, <2>3 DEF WaitingImported
  <1> QED BY <1>7, <1>9, <1>10 DEF SearchInv

LEMMA ResolveSearches ==
  ASSUME TInv, SearchInv, ResolveNode
  PROVE  SearchInv'
  <1> DEFINE W == [name : Name, from : File]
             k == Len(work)
             w == work[k]
             rest == SubSeq(work, 1, k - 1)
             path == Locate(w.name, w.from)
             item(m, n) == [name |-> n, from |-> graph[m].path]
             Will(m, n) == \E i \in DOMAIN graph'[m].imports : graph'[m].imports[i] = n
  <1>1. work \in Seq(W) /\ work # <<>> /\ project \in Project
        /\ phase = "resolving" /\ phase' = phase /\ entry' = entry /\ project' = project
        /\ todo' = todo
    BY DEF TInv, TypeOK, ResolveNode, request
  <1>2. /\ k \in Nat \ {0} /\ DOMAIN work = 1 .. k /\ w \in W
        /\ rest \in Seq(W) /\ Len(rest) = k - 1 /\ \A i \in 1 .. k - 1 : rest[i] = work[i]
    <2> HIDE DEF W
    <2> QED BY <1>1, RestTyped
  <1>3. w.name \in Name /\ w.from \in File
    BY <1>2
  <1>4. path \in File \cup {NoFile}
    BY <1>1, <1>3 DEF Locate, Project
  <1>5. Resolve(w, rest)
    BY DEF ResolveNode
  <1>6. Main \in Known /\ graph[Main].path = entry
    BY <1>1 DEF SearchInv, Fresh
  <1> HIDE DEF rest
  (* An item that is not the one taken off is still there.                  *)
  <1>7. ASSUME NEW x, \E j \in DOMAIN work : work[j] = x, x # w
        PROVE  \E j \in 1 .. k - 1 : rest[j] = x
    <2>1. PICK j \in 1 .. k : work[j] = x
      BY <1>2, <1>7
    <2>2. j \in 1 .. k - 1
      BY <1>2, <1>7, <2>1
    <2> QED BY <1>2, <2>1, <2>2
  <1>8. ASSUME NEW m \in Known, NEW n \in Name, Imports(m, n), n \notin Known,
               Locate(n, graph[m].path) # NoFile, item(m, n) = w
        PROVE  w.name = n /\ path # NoFile
    BY <1>8
  <1>9. \A j \in 1 .. k - 1 : \E m \in Known : graph[m].path = rest[j].from /\ Imports(m, rest[j].name)
    <2>1. \A j \in 1 .. k - 1 : j \in DOMAIN work
      BY <1>2
    <2> QED BY <1>2, <2>1 DEF SearchInv, WaitingImported
  <1> HIDE DEF W, k, w, path
  <1>10. CASE w.name \in Known \/ path = NoFile
    <2>1. work' = rest /\ graph' = graph /\ Known' = Known
      BY <1>5, <1>10 DEF Resolve, path, Known
    <2>2. DOMAIN work' = 1 .. k - 1
      BY <1>2, <2>1
    <2>3. \A m, n : Imports(m, n)' <=> Imports(m, n)
      BY <2>1 DEF Imports
    <2>4. \A n : ImportedAs(n, graph[n].path)' <=> ImportedAs(n, graph[n].path)
      BY <1>1, <2>1 DEF ImportedAs, Imports, Locate
    <2>5. Fresh' /\ SearchAhead' /\ NodesImported'
      BY <1>1, <1>6, <2>1, <2>4 DEF SearchInv, Fresh, SearchAhead, NodesImported
    <2>6. ImportsTried'
      <3> SUFFICES ASSUME NEW m \in Known, NEW n \in Name, Imports(m, n),
                          n \notin Known, Locate(n, graph[m].path) # NoFile
                   PROVE  \/ \E j \in DOMAIN work' : work'[j] = item(m, n)
                          \/ m = Main /\ \E j \in DOMAIN todo : todo[j] = n
        BY <1>1, <2>1, <2>3 DEF ImportsTried, Locate
      <3>1. \/ \E j \in DOMAIN work : work[j] = item(m, n)
            \/ m = Main /\ \E j \in DOMAIN todo : todo[j] = n
        BY DEF SearchInv, ImportsTried
      <3>2. item(m, n) # w
        BY <1>8, <1>10
      <3> QED BY <1>7, <2>1, <2>2, <3>1, <3>2
    <2>7. WaitingImported'
      BY <1>1, <1>9, <2>1, <2>2, <2>3 DEF SearchInv, WaitingImported
    <2> QED BY <2>5, <2>6, <2>7 DEF SearchInv
  <1>11. CASE ~ (w.name \in Known \/ path = NoFile)
    <2> DEFINE new == Wanted(path, Known \cup {w.name})
    <2>1. path \in File /\ graph' = With(graph, w.name, NodeOf(path)) /\ work' = rest \o new
          /\ w.name \notin Known /\ w.name # Main
      BY <1>4, <1>5, <1>6, <1>11 DEF Resolve, path
    <2>2. /\ Known' = Known \cup {w.name} /\ graph'[w.name] = NodeOf(path)
          /\ \A m \in Known : graph'[m] = graph[m]
      BY <2>1 DEF With, Known
    <2>3. graph'[w.name].path = path /\ graph'[w.name].imports = Scan(path)
      BY <2>2 DEF NodeOf
    <2>4. \A m \in Known : \A n : Will(m, n) <=> Imports(m, n)
      BY <2>2 DEF Imports
    <2>5. \A n : Will(w.name, n) <=> \E i \in DOMAIN Scan(path) : Scan(path)[i] = n
      BY <2>3
    <2>6. /\ new \in Seq(W)
          /\ \A j \in DOMAIN new :
                \E i \in DOMAIN Scan(path) : new[j] = [name |-> Scan(path)[i], from |-> path]
          /\ \A i \in DOMAIN Scan(path) : Scan(path)[i] \notin Known \cup {w.name} =>
                \E j \in DOMAIN new : new[j] = [name |-> Scan(path)[i], from |-> path]
      <3>1. project \in Project /\ path \in File
        BY <1>1, <2>1
      <3>2. ItemsFor(new, path, Known \cup {w.name})
        BY <3>1, WantedIs
      <3> HIDE DEF new, Will, item
      <3> QED BY <3>2 DEF ItemsFor, W
    <2> HIDE DEF new, Will
    <2> DEFINE l == Len(new)
    <2>7. /\ l \in Nat /\ DOMAIN new = 1 .. l /\ DOMAIN work' = 1 .. k - 1 + l
          /\ \A j \in 1 .. k - 1 : work'[j] = rest[j]
          /\ \A j \in 1 .. l : work'[k - 1 + j] = new[j]
      <3>1. l \in Nat /\ DOMAIN new = 1 .. l /\ DOMAIN rest = 1 .. k - 1
        BY <1>2, <2>6
      <3>a. rest \in Seq(W) /\ new \in Seq(W)
        BY <1>2, <2>6
      <3>2. rest \o new \in Seq(W) /\ Len(rest \o new) = Len(rest) + l
        BY <3>a, GlueIs DEF Glue
      <3>3. \A j \in 1 .. Len(rest) : (rest \o new)[j] = rest[j]
        BY <3>a, GlueIs DEF Glue
      <3>4. \A j \in 1 .. l : (rest \o new)[Len(rest) + j] = new[j]
        BY <3>a, GlueIs DEF Glue
      <3> HIDE DEF l
      <3> QED BY <1>2, <2>1, <3>1, <3>2, <3>3, <3>4
    <2> HIDE DEF l
    <2>8. /\ \A j \in 1 .. k - 1 : j \in DOMAIN work'
          /\ \A j \in 1 .. l : k - 1 + j \in DOMAIN work'
          /\ \A j \in DOMAIN work' : j \in 1 .. k - 1 \/ \E i \in 1 .. l : j = k - 1 + i
      <3>1. \A j \in 1 .. k - 1 + l :
              \/ j \in 1 .. k - 1
              \/ j - (k - 1) \in 1 .. l /\ j = k - 1 + (j - (k - 1))
        BY <1>2, <2>7
      <3>2. \A j \in 1 .. k - 1 : j \in 1 .. k - 1 + l
        BY <1>2, <2>7
      <3>3. \A j \in 1 .. l : k - 1 + j \in 1 .. k - 1 + l
        BY <1>2, <2>7
      <3> QED BY <2>7, <3>1, <3>2, <3>3
    <2>9. Fresh' /\ SearchAhead'
      BY <1>1, <1>6, <2>1, <2>2 DEF Fresh, SearchAhead
    <2>10. ImportsTried'
      <3> SUFFICES ASSUME NEW m \in Known', NEW n \in Name, Will(m, n),
                          n \notin Known', Locate(n, graph'[m].path) # NoFile
                   PROVE  \/ \E j \in DOMAIN work' : work'[j] = [name |-> n, from |-> graph'[m].path]
                          \/ m = Main /\ \E j \in DOMAIN todo : todo[j] = n
        BY <1>1 DEF ImportsTried, Locate, Imports, Will
      <3>1. CASE m = w.name
        <4>1. PICK i \in DOMAIN Scan(path) : Scan(path)[i] = n
          BY <2>5, <3>1
        <4>2. PICK j \in 1 .. l : new[j] = [name |-> n, from |-> path]
          BY <2>2, <2>6, <2>7, <4>1
        <4> QED BY <2>3, <2>7, <2>8, <3>1, <4>2
      <3>2. CASE m # w.name
        <4>1. m \in Known /\ graph'[m] = graph[m] /\ Imports(m, n) /\ n \notin Known /\ n # w.name
          BY <2>2, <2>4, <3>2
        <4>2. \/ \E j \in DOMAIN work : work[j] = item(m, n)
              \/ m = Main /\ \E j \in DOMAIN todo : todo[j] = n
          BY <4>1 DEF SearchInv, ImportsTried
        <4>3. item(m, n) # w
          BY <1>8, <4>1
        <4>4. CASE \E j \in DOMAIN work : work[j] = item(m, n)
          <5>1. PICK j \in 1 .. k - 1 : rest[j] = item(m, n)
            BY <1>7, <4>3, <4>4
          <5>2. work'[j] = item(m, n) /\ j \in DOMAIN work'
            BY <2>7, <2>8, <5>1
          <5> QED BY <4>1, <5>2
        <4> QED BY <4>2, <4>4
      <3> QED BY <3>1, <3>2
    <2>11. WaitingImported'
      <3>1. ASSUME NEW j \in DOMAIN work'
            PROVE  \E m \in Known' : graph'[m].path = work'[j].from /\ Will(m, work'[j].name)
        <4>1. CASE j \in 1 .. k - 1
          <5>1. PICK m \in Known : graph[m].path = rest[j].from /\ Imports(m, rest[j].name)
            BY <1>9, <4>1
          <5> QED BY <2>2, <2>4, <2>7, <4>1, <5>1
        <4>2. CASE \E i \in 1 .. l : j = k - 1 + i
          <5>1. PICK i \in 1 .. l : j = k - 1 + i
            BY <4>2
          <5>2. PICK h \in DOMAIN Scan(path) : new[i] = [name |-> Scan(path)[h], from |-> path]
            BY <2>6, <2>7
          <5>3. work'[j].name = Scan(path)[h] /\ work'[j].from = path
            BY <2>7, <5>1, <5>2
          <5>4. Will(w.name, work'[j].name)
            BY <2>5, <5>3
          <5> QED BY <2>2, <2>3, <5>3, <5>4
        <4> QED BY <2>8, <4>1, <4>2
      <3>2. \A j \in DOMAIN todo : Will(Main, todo[j])
        BY <1>6, <2>4 DEF SearchInv, WaitingImported
      <3> QED BY <1>1, <3>1, <3>2 DEF WaitingImported, Imports, Will
    <2>12. NodesImported'
      <3> SUFFICES ASSUME NEW n \in Known' \ {Main}
                   PROVE  \E m \in Known' : /\ Will(m, n)
                                            /\ Locate(n, graph'[m].path) = graph'[n].path
        BY <1>1 DEF NodesImported, ImportedAs, Imports, Will, Locate
      <3>1. CASE n = w.name
        <4>1. PICK m \in Known : graph[m].path = w.from /\ Imports(m, w.name)
          BY <1>2 DEF SearchInv, WaitingImported, w
        <4>2. Locate(n, graph'[m].path) = path
          BY <2>2, <3>1, <4>1 DEF path
        <4> QED BY <2>2, <2>3, <2>4, <3>1, <4>1, <4>2
      <3>2. CASE n # w.name
        <4>1. n \in Known \ {Main}
          BY <2>2, <3>2
        <4>2. PICK m \in Known : Imports(m, n) /\ Locate(n, graph[m].path) = graph[n].path
          BY <4>1 DEF SearchInv, NodesImported, ImportedAs, Imports
        <4> QED BY <2>2, <2>4, <4>1, <4>2
      <3> QED BY <3>1, <3>2
    <2> QED BY <2>9, <2>10, <2>11, <2>12 DEF SearchInv
  <1> QED BY <1>10, <1>11

LEMMA NextSearches ==
  ASSUME MaxBuilds <= 1, IInv, TInv, SearchInv, [Next]_vars
  PROVE  SearchInv'
  <1>1. CASE \E f \in project.entries : Build(f)
    BY <1>1, BuildSearches
  <1>2. CASE NextImport
    BY <1>2, NextImportSearches
  <1>3. CASE ResolveNode
    BY <1>3, ResolveSearches
  <1>4. CASE StartOrder
    BY <1>4, AfterSearch DEF StartOrder, Visit, Answer
  <1>5. CASE SkipMissing \/ Follow \/ Leave
    BY <1>5, AfterSearch DEF SkipMissing, Follow, Leave, Following, Visit, Answer, request
  <1>6. CASE UNCHANGED vars
    <2>1. SearchInv' <=> SearchInv
      BY <1>6 DEF SearchInv, Fresh, SearchAhead, ImportsTried, WaitingImported, NodesImported,
                  ImportedAs, Imports, Locate, Known, vars
    <2> QED BY <2>1
  <1> QED BY <1>1, <1>2, <1>3, <1>4, <1>5, <1>6 DEF Next

(* How the graph stands to the disk, at every moment: a node has what its   *)
(* file imports, and its file is in the import closure of the entry.        *)
NodesScanned == \A n \in Known : graph[n].imports = Scan(graph[n].path)
NodesReachable == \A n \in Known : graph[n].path \in Closure
DiskInv == NodesScanned /\ NodesReachable

LEMMA InitialSearches == Init => SearchInv /\ DiskInv
  BY DEF Init, SearchInv, Fresh, SearchAhead, ImportsTried, WaitingImported, NodesImported,
         DiskInv, NodesScanned, NodesReachable, Known

(* Asked once, and whatever the project, a search that is over has          *)
(* overlooked nothing: every import of a node has a node or leads nowhere   *)
(* from each of the files that import it (one failed lookup settles nothing *)
(* for the other importers), and each node is a file one importer means.    *)
THEOREM SearchOverlooksNothing == ASSUME MaxBuilds <= 1 PROVE Spec => []NothingOverlooked
  <1>1. Init => IInv /\ TInv /\ SearchInv
    BY InitialSearches, InitialSound, InitialTyped
  <1>2. IInv /\ TInv /\ SearchInv /\ [Next]_vars => (IInv /\ TInv /\ SearchInv)'
    BY NextPreserves, StutterPreserves, NextTyped, NextSearches
  <1>3. IInv /\ TInv /\ SearchInv => NothingOverlooked
    <2> SUFFICES ASSUME TInv, SearchInv, Searched
                 PROVE  /\ \A n \in Name \ Known : Missing(n)
                        /\ \A n \in Known \ {Main} : ImportedAs(n, graph[n].path)
      BY DEF NothingOverlooked
    <2>1. DOMAIN work = {} /\ DOMAIN todo = {}
      BY DEF SearchInv, SearchAhead, Searched
    <2>2. \A n \in Name \ Known : Missing(n)
      BY <2>1 DEF SearchInv, ImportsTried, Missing, Imports
    <2> QED BY <2>2 DEF SearchInv, NodesImported
  <1> QED BY <1>1, <1>2, <1>3, PTL DEF Spec

LEMMA ClosureIs ==
  ASSUME NEW f
  PROVE  f \in Closure <=>
            /\ f \in File
            /\ \A S \in SUBSET File :
                  entry \in S /\ (\A g \in S : Imported(g) \subseteq S) => f \in S
  BY DEF Closure

LEMMA ImportReached ==
  ASSUME project \in Project, NEW f \in Closure, NEW g \in Imported(f)
  PROVE  g \in Closure
  <1>1. f \in File
    BY ClosureIs
  <1>2. Scan(f) \in Seq(Name)
    BY ScanTyped
  <1>3. \A n \in ImportedNames(f) : n \in Name
    BY <1>2 DEF ImportedNames
  <1>4. g \in File
    BY <1>1, <1>3 DEF Imported, Locate, Project
  <1>5. ASSUME NEW S \in SUBSET File, entry \in S, \A h \in S : Imported(h) \subseteq S
        PROVE  g \in S
    BY <1>5, ClosureIs
  <1> QED BY <1>4, <1>5, ClosureIs

LEMMA SameDisk ==
  ASSUME UNCHANGED <<project, entry, graph>>, DiskInv
  PROVE  DiskInv'
  <1>1. \A f : Scan(f)' = Scan(f)
    BY DEF Scan
  <1>2. \A f : Imported(f)' = Imported(f)
    BY DEF Imported, ImportedNames, Scan, Locate
  <1>3. Closure' = Closure
    BY <1>2 DEF Closure
  <1> QED BY <1>1, <1>3 DEF DiskInv, NodesScanned, NodesReachable, Known

LEMMA NextOnDisk ==
  ASSUME MaxBuilds <= 1, IInv, TInv, SearchInv, DiskInv, [Next]_vars
  PROVE  DiskInv'
  <1>1. CASE \E f \in project.entries : Build(f)
    <2>1. PICK f \in project.entries : Build(f)
      BY <1>1
    <2>2. builds = 0 /\ phase = "idle"
      BY <2>1, ResolverAssumption DEF Build, IInv, EntryKnown
    <2>3. /\ Known' = {Main} /\ graph'[Main] = NodeOf(f) /\ entry' = f /\ project' = project
          /\ f \in File
      BY <2>1, <2>2 DEF SearchInv, Fresh, Build, With, Known, TInv, TypeOK, Project
    <2>4. NodesScanned'
      BY <2>3 DEF NodesScanned, NodeOf, Scan
    <2>5. f \in Closure'
      BY <2>3 DEF Closure
    <2>6. NodesReachable'
      BY <2>3, <2>5 DEF NodesReachable, NodeOf
    <2> QED BY <2>4, <2>6 DEF DiskInv
  <1>2. CASE ResolveNode
    <2> DEFINE w == work[Len(work)]
               path == Locate(w.name, w.from)
    <2>1. /\ work \in Seq([name : Name, from : File]) /\ work # <<>> /\ project \in Project
          /\ project' = project /\ entry' = entry
          /\ Resolve(w, SubSeq(work, 1, Len(work) - 1))
      BY <1>2 DEF TInv, TypeOK, ResolveNode, request
    <2>2. Len(work) \in DOMAIN work
      BY <2>1
    <2>3. CASE UNCHANGED graph
      BY <2>1, <2>3, SameDisk
    <2>4. CASE path # NoFile /\ graph' = With(graph, w.name, NodeOf(path))
      <3>1. PICK m \in Known : graph[m].path = w.from /\ Imports(m, w.name)
        BY <2>2 DEF SearchInv, WaitingImported
      <3>2. w.from \in Closure /\ w.name \in ImportedNames(w.from)
        BY <3>1 DEF DiskInv, NodesReachable, NodesScanned, Imports, ImportedNames
      <3>3. path \in Imported(w.from)
        BY <2>4, <3>2 DEF Imported
      <3>4. path \in Closure
        BY <2>1, <3>2, <3>3, ImportReached
      <3> HIDE DEF w, path
      <3>5. /\ Known' = Known \cup {w.name} /\ graph'[w.name] = NodeOf(path)
            /\ \A n \in Known : n = w.name \/ graph'[n] = graph[n]
        BY <2>4 DEF With, Known
      <3>6. \A f : Scan(f)' = Scan(f)
        BY <2>1 DEF Scan
      <3>7. \A f : Imported(f)' = Imported(f)
        BY <2>1, <3>6 DEF Imported, ImportedNames, Locate
      <3>8. Closure' = Closure
        BY <2>1, <3>7 DEF Closure
      <3>9. graph'[w.name].path = path /\ graph'[w.name].imports = Scan(path)
        BY <3>5 DEF NodeOf
      <3>10. NodesScanned'
        BY <3>5, <3>6, <3>9 DEF DiskInv, NodesScanned
      <3>11. NodesReachable'
        BY <3>4, <3>5, <3>8, <3>9 DEF DiskInv, NodesReachable
      <3> QED BY <3>10, <3>11 DEF DiskInv
    <2> QED BY <2>1, <2>3, <2>4 DEF Resolve
  <1>3. CASE NextImport \/ StartOrder \/ SkipMissing \/ Follow \/ Leave \/ UNCHANGED vars
    <2>1. UNCHANGED <<project, entry, graph>>
      BY <1>3 DEF NextImport, StartOrder, SkipMissing, Follow, Leave, request, search, vars
    <2> QED BY <2>1, SameDisk
  <1> QED BY <1>1, <1>2, <1>3 DEF Next

(* Where names are unambiguous a name has the module its importer means.    *)
LEMMA EdgesAreOwn ==
  ASSUME TInv, SearchInv, DiskInv, Searched, Unambiguous,
         NEW m \in Known, NEW n \in Known, Imports(m, n)
  PROVE  graph[n].path = Locate(n, graph[m].path)
  <1>1. \A x \in Known : graph[x].path \in Closure
    BY DEF DiskInv, NodesReachable
  <1>2. \A x \in Known : Imports(x, n) => n \in ImportedNames(graph[x].path)
    BY DEF DiskInv, NodesScanned, Imports, ImportedNames
  <1>3. CASE n = Main
    <2>1. graph[Main].path = entry
      BY DEF SearchInv, Fresh, Searched
    <2> QED BY <1>1, <1>2, <1>3, <2>1 DEF Unambiguous
  <1>4. CASE n # Main
    <2>1. PICK x \in Known : Imports(x, n) /\ Locate(n, graph[x].path) = graph[n].path
      BY <1>4 DEF SearchInv, NodesImported, ImportedAs
    <2>2. n \in ImportedNames(graph[x].path) \cap ImportedNames(graph[m].path)
      BY <1>2, <2>1
    <2> QED BY <1>1, <2>1, <2>2 DEF Unambiguous
  <1> QED BY <1>3, <1>4

LEMMA FilesAreClosure ==
  ASSUME TInv, SearchInv, DiskInv, Searched, Unambiguous
  PROVE  {graph[n].path : n \in Known} = Closure
  <1> DEFINE P == {graph[n].path : n \in Known}
  <1>1. P \subseteq Closure
    BY DEF DiskInv, NodesReachable
  <1>2. P \in SUBSET File
    BY <1>1, ClosureIs
  <1>3. entry \in P
    <2>1. Main \in Known /\ graph[Main].path = entry
      BY DEF SearchInv, Fresh, Searched
    <2> QED BY <2>1
  <1>4. ASSUME NEW f \in P, NEW g \in Imported(f)
        PROVE  g \in P
    <2>1. PICK m \in Known : graph[m].path = f
      OBVIOUS
    <2>2. PICK n \in ImportedNames(f) : g = Locate(n, f) /\ g # NoFile
      BY DEF Imported
    <2>3. Imports(m, n)
      BY <2>1, <2>2 DEF DiskInv, NodesScanned, ImportedNames, Imports
    <2>4. n \in Name
      <3>1. Scan(f) \in Seq(Name)
        BY ScanTyped DEF TInv, TypeOK
      <3> QED BY <2>2, <3>1 DEF ImportedNames
    <2>5. DOMAIN work = {} /\ DOMAIN todo = {}
      BY DEF SearchInv, SearchAhead, Searched
    <2>6. n \in Known
      BY <2>1, <2>2, <2>3, <2>4, <2>5 DEF SearchInv, ImportsTried
    <2>7. graph[n].path = g
      BY <2>1, <2>2, <2>3, <2>6, EdgesAreOwn
    <2> QED BY <2>6, <2>7
  <1>5. \A f \in P : Imported(f) \subseteq P
    BY <1>4
  <1> HIDE DEF P
  <1>6. Closure \subseteq P
    BY <1>2, <1>3, <1>5, ClosureIs
  <1> QED BY <1>1, <1>6 DEF P

(* When the search of a resolver that is asked once is over, in a project   *)
(* of unambiguous names, the files of its graph are exactly the import      *)
(* closure of the entry on disk, and each edge of the graph leads to the    *)
(* file that its own importer means.                                        *)
THEOREM SearchFindsClosure == ASSUME MaxBuilds <= 1 PROVE Spec => []GraphIsClosure
  <1>1. Init => IInv /\ TInv /\ SearchInv /\ DiskInv
    BY InitialSearches, InitialSound, InitialTyped
  <1>2. IInv /\ TInv /\ SearchInv /\ DiskInv /\ [Next]_vars
          => (IInv /\ TInv /\ SearchInv /\ DiskInv)'
    BY NextPreserves, StutterPreserves, NextTyped, NextSearches, NextOnDisk
  <1>3. IInv /\ TInv /\ SearchInv /\ DiskInv => GraphIsClosure
    BY EdgesAreOwn, FilesAreClosure DEF GraphIsClosure, OwnModules
  <1> QED BY <1>1, <1>2, <1>3, PTL DEF Spec

-----------------------------------------------------------------------------
(* The resolver implements AstraLoadOrder.                                  *)

(* The marks on_stack_ are the active calls while dfs runs; each active     *)
(* call is at the import its callee is about; the first one is for the      *)
(* entry.  So a module found marked closes a circle of imports.             *)
StackActive ==
    phase = "ordering" => \A n \in onStack : \E i \in DOMAIN calls : calls[i].name = n

Chained ==
    \A i \in DOMAIN calls : i + 1 \in DOMAIN calls =>
        /\ calls[i].next \in DOMAIN graph[calls[i].name].imports
        /\ graph[calls[i].name].imports[calls[i].next] = calls[i + 1].name

Rooted == calls # <<>> => calls[1].name = Main

ChainInv == StackActive /\ Chained /\ Rooted

LEMMA AdvancedIs ==
  ASSUME TInv, calls # <<>>
  PROVE  /\ Len(calls) \in Nat \ {0} /\ DOMAIN calls = 1 .. Len(calls)
         /\ Len(Advanced) = Len(calls) /\ DOMAIN Advanced = 1 .. Len(calls)
         /\ Advanced \in Seq(Active) /\ calls \in Seq(Active)
         /\ \A i \in 1 .. Len(calls) - 1 : Advanced[i] = calls[i]
         /\ Advanced[Len(calls)].name = Call.name
         /\ Advanced[Len(calls)].next = Call.next + 1
         /\ Call = calls[Len(calls)]
  <1> DEFINE k == Len(calls)
  <1>1. calls \in Seq(Active) /\ Advanced \in Seq(Active) /\ Call \in Active
    BY ActiveTyped, FollowingTyped
  <1> DEFINE c == [Call EXCEPT !.next = @ + 1]
  <1>2. c.name = Call.name /\ c.next = Call.next + 1
    BY <1>1 DEF Active
  <1>3. k \in Nat \ {0} /\ DOMAIN calls = 1 .. k /\ Call = calls[k]
    <2> HIDE DEF Active
    <2> QED BY <1>1, RestTyped DEF Call
  <1>4. Advanced = [calls EXCEPT ![k] = c]
    BY <1>3 DEF Advanced
  <1> HIDE DEF Active, k, c
  <1>5. /\ Len(Advanced) = k /\ DOMAIN Advanced = 1 .. k /\ Advanced[k] = c
        /\ \A i \in 1 .. k - 1 : Advanced[i] = calls[i]
    BY <1>1, <1>3, <1>4
  <1> QED BY <1>1, <1>2, <1>3, <1>5 DEF k

(* An import that is skipped, already visited or entered keeps the chain.   *)
LEMMA AdvanceChained ==
  ASSUME TInv, ChainInv, Following, UNCHANGED graph, calls' = Advanced,
         phase' = "ordering", UNCHANGED onStack
  PROVE  ChainInv'
  <1> DEFINE k == Len(calls)
  <1>1. calls # <<>> /\ phase = "ordering"
    BY DEF Following
  <1>2. /\ k \in Nat \ {0} /\ DOMAIN calls = 1 .. k /\ DOMAIN calls' = 1 .. k
        /\ \A i \in 1 .. k - 1 : calls'[i] = calls[i]
        /\ calls'[k].name = calls[k].name
    BY <1>1, AdvancedIs
  <1> HIDE DEF k
  <1>3. \A i \in 1 .. k : (i \in 1 .. k - 1 \/ i = k) /\ calls'[i].name = calls[i].name
    BY <1>2
  <1>4. \A i \in 1 .. k : i + 1 \in 1 .. k => i \in 1 .. k - 1
    BY <1>2
  <1>5. StackActive'
    BY <1>1, <1>2, <1>3 DEF ChainInv, StackActive
  <1>6. Chained'
    BY <1>2, <1>3, <1>4 DEF ChainInv, Chained
  <1>7. Rooted'
    BY <1>1, <1>2, <1>3 DEF ChainInv, Rooted
  <1> QED BY <1>5, <1>6, <1>7 DEF ChainInv

LEMMA EnterChained ==
  ASSUME TInv, ChainInv, Following, UNCHANGED graph,
         calls' = Append(Advanced, [name |-> Import, next |-> 0]),
         phase' = "ordering", onStack' = onStack \cup {Import}
  PROVE  ChainInv'
  <1> DEFINE k == Len(calls)
             c == [name |-> Import, next |-> 0]
             imports == graph[Call.name].imports
  <1>1. calls # <<>> /\ phase = "ordering" /\ Call.next < Len(imports)
    BY DEF Following
  <1>2. /\ k \in Nat \ {0} /\ DOMAIN calls = 1 .. k
        /\ Len(Advanced) = k /\ DOMAIN Advanced = 1 .. k /\ Advanced \in Seq(Active)
        /\ \A i \in 1 .. k - 1 : Advanced[i] = calls[i]
        /\ Advanced[k].name = Call.name /\ Advanced[k].next = Call.next + 1
        /\ Call = calls[k]
    BY <1>1, AdvancedIs
  <1>3. imports \in Seq(Name) /\ Call.next \in Nat
    BY <1>1, FollowingTyped
  <1>4. Call.next + 1 \in DOMAIN imports /\ imports[Call.next + 1] = Import
    BY <1>1, <1>3 DEF Import
  <1> HIDE DEF k, c, imports, Active
  <1>5. /\ DOMAIN calls' = 1 .. k + 1 /\ calls'[k + 1] = c
        /\ \A i \in 1 .. k : calls'[i] = Advanced[i]
    <2>1. calls' = Append(Advanced, c)
      BY DEF c
    <2> QED BY <1>2, <2>1
  <1>6. /\ \A i \in 1 .. k + 1 : i + 1 \in 1 .. k + 1 => i \in 1 .. k
        /\ \A i \in 1 .. k : i = k \/ (i \in 1 .. k - 1 /\ i + 1 \in 1 .. k)
        /\ \A i \in 1 .. k : i \in 1 .. k + 1
        /\ k + 1 \in 1 .. k + 1 /\ k \in 1 .. k /\ 1 \in 1 .. k
    BY <1>2
  <1>7. \A i \in 1 .. k : calls'[i].name = calls[i].name
    BY <1>2, <1>5, <1>6
  <1>8. calls'[k + 1].name = Import
    <2>1. c.name = Import
      BY DEF c
    <2> QED BY <1>5, <2>1
  <1>9. StackActive'
    <2> SUFFICES ASSUME NEW n \in onStack \cup {Import}
                 PROVE  \E i \in 1 .. k + 1 : calls'[i].name = n
      BY <1>5 DEF StackActive
    <2>1. CASE n = Import
      BY <1>6, <1>8, <2>1
    <2>2. CASE n \in onStack
      <3>1. PICK i \in 1 .. k : calls[i].name = n
        BY <1>1, <1>2, <2>2 DEF ChainInv, StackActive
      <3> QED BY <1>6, <1>7, <3>1
    <2> QED BY <2>1, <2>2
  <1>10. Chained'
    <2> SUFFICES ASSUME NEW i \in 1 .. k
                 PROVE  /\ calls'[i].next \in DOMAIN graph[calls'[i].name].imports
                        /\ graph[calls'[i].name].imports[calls'[i].next] = calls'[i + 1].name
      BY <1>5, <1>6 DEF Chained
    <2>1. CASE i = k
      BY <1>2, <1>4, <1>5, <1>8, <2>1 DEF imports
    <2>2. CASE i # k
      <3>1. i \in 1 .. k - 1 /\ i + 1 \in 1 .. k
        BY <1>6, <2>2
      <3>2. calls'[i] = calls[i] /\ calls'[i + 1].name = calls[i + 1].name
        BY <1>2, <1>5, <1>7, <3>1
      <3> QED BY <1>2, <3>1, <3>2 DEF ChainInv, Chained
    <2> QED BY <2>1, <2>2
  <1>11. Rooted'
    BY <1>1, <1>6, <1>7 DEF ChainInv, Rooted
  <1> QED BY <1>9, <1>10, <1>11 DEF ChainInv

LEMMA LeaveChained ==
  ASSUME TInv, ChainInv, Leave
  PROVE  ChainInv'
  <1> DEFINE k == Len(calls)
  <1>1. calls # <<>> /\ calls' = Callers /\ onStack' = onStack \ {Call.name} /\ graph' = graph
        /\ phase = "ordering"
    BY DEF Leave, search
  <1>2. calls \in Seq(Active)
    BY ActiveTyped
  <1>3. /\ k \in Nat \ {0} /\ DOMAIN calls = 1 .. k /\ DOMAIN calls' = 1 .. k - 1
        /\ \A i \in 1 .. k - 1 : calls'[i] = calls[i]
        /\ Call = calls[k] /\ (calls' # <<>> => 1 \in 1 .. k - 1)
    <2> HIDE DEF Active
    <2>1. Callers \in Seq(Active) /\ Len(Callers) = k - 1 /\ k \in Nat \ {0} /\ DOMAIN calls = 1 .. k
          /\ \A i \in 1 .. k - 1 : Callers[i] = calls[i]
      BY <1>1, <1>2, RestTyped DEF Callers
    <2>2. Callers # <<>> => 1 \in 1 .. k - 1
      BY <2>1
    <2> QED BY <1>1, <2>1, <2>2 DEF Call
  <1> HIDE DEF k
  <1>4. \A i \in 1 .. k : i = k \/ i \in 1 .. k - 1
    BY <1>3
  <1>5. \A i \in 1 .. k - 1 : i \in 1 .. k
    BY <1>3
  <1>6. StackActive'
    BY <1>1, <1>3, <1>4 DEF ChainInv, StackActive
  <1>7. Chained'
    BY <1>1, <1>3, <1>5 DEF ChainInv, Chained
  <1>8. Rooted'
    BY <1>1, <1>3 DEF ChainInv, Rooted
  <1> QED BY <1>6, <1>7, <1>8 DEF ChainInv

LEMMA NextChained ==
  ASSUME MaxBuilds <= 1, IInv, TInv, ChainInv, [Next]_vars
  PROVE  ChainInv'
  <1>1. CASE (\E f \in project.entries : Build(f)) \/ NextImport \/ ResolveNode
    <2>1. calls' = calls /\ phase' = "resolving"
      BY <1>1 DEF Build, NextImport, ResolveNode, sorting
    <2>2. phase \in {"idle", "resolving"}
      BY <1>1, ResolverAssumption DEF Build, NextImport, ResolveNode, IInv, EntryKnown
    <2>3. calls = <<>>
      BY <2>2 DEF IInv, NothingOrdered
    <2> QED BY <2>1, <2>3 DEF ChainInv, StackActive, Chained, Rooted
  <1>2. CASE StartOrder
    <2>1. /\ calls = <<>> /\ onStack = {} /\ visited = {}
          /\ calls' = <<[name |-> Main, next |-> 0]>> /\ onStack' = {Main} /\ phase' = "ordering"
      BY <1>2 DEF StartOrder, Visit, IInv, NothingOrdered
    <2>2. DOMAIN calls' = {1} /\ calls'[1].name = Main
      BY <2>1
    <2> QED BY <2>1, <2>2 DEF ChainInv, StackActive, Chained, Rooted
  <1>3. CASE SkipMissing
    BY <1>3, AdvanceChained DEF SkipMissing, Following, search
  <1>4. CASE Follow
    <2>1. Following /\ calls # <<>> /\ Visit(Import, Advanced) /\ graph' = graph
      BY <1>4 DEF Follow, Following, search
    <2>2. Len(Advanced) # 0
      BY <2>1, AdvancedIs
    <2>3. Answer(Advanced) = "ordering"
      BY <2>2 DEF Answer
    <2>4. CASE Import \in visited
      BY <2>1, <2>3, <2>4, AdvanceChained DEF Visit
    <2>5. CASE Import \notin visited /\ Import \in onStack
      BY <2>1, <2>5 DEF Visit, ChainInv, StackActive, Chained, Rooted
    <2>6. CASE Import \notin visited /\ Import \notin onStack
      BY <2>1, <2>6, EnterChained DEF Visit
    <2> QED BY <2>4, <2>5, <2>6
  <1>5. CASE Leave
    BY <1>5, LeaveChained
  <1>6. CASE UNCHANGED vars
    BY <1>6 DEF ChainInv, StackActive, Chained, Rooted, vars
  <1> QED BY <1>1, <1>2, <1>3, <1>4, <1>5, <1>6 DEF Next

(* By the names of the graph a module needs at least what it needs on disk, *)
(* and exactly that where names are unambiguous.                            *)
NeedsOf(n) == {m \in Known : Imports(n, m)}
OrderNames == [i \in DOMAIN order |-> order[i].name]

(* The active calls from the one for a marked module on form a circle.      *)
LEMMA MarkedIsCircular ==
  ASSUME IInv, TInv, ChainInv, Following, Import \in Known, Import \in onStack
  PROVE  \E S \in SUBSET Known : S # {} /\ \A n \in S : NeedsOf(n) \cap S # {}
  <1> DEFINE k == Len(calls)
  <1>1. calls # <<>> /\ phase = "ordering" /\ Call.next < Len(graph[Call.name].imports)
    BY DEF Following
  <1>2. /\ k \in Nat \ {0} /\ DOMAIN calls = 1 .. k /\ Call = calls[k]
        /\ Call.next \in Nat /\ graph[Call.name].imports \in Seq(Name)
    BY <1>1, AdvancedIs, FollowingTyped
  <1> HIDE DEF k
  <1>3. Imports(Call.name, Import)
    <2>1. Call.next + 1 \in DOMAIN graph[Call.name].imports
      BY <1>1, <1>2
    <2> QED BY <2>1 DEF Import, Imports
  <1>4. PICK p \in 1 .. k : calls[p].name = Import
    BY <1>1, <1>2 DEF ChainInv, StackActive
  <1> DEFINE S == {calls[i].name : i \in p .. k}
  <1>5. \A i \in p .. k : i \in 1 .. k
    BY <1>2, <1>4
  <1>6. S \subseteq Known
    BY <1>2, <1>5 DEF TInv, Located
  <1>7. S # {}
    <2>1. p \in p .. k
      BY <1>2, <1>4
    <2> QED BY <2>1
  <1>8. ASSUME NEW i \in p .. k
        PROVE  NeedsOf(calls[i].name) \cap S # {}
    <2>1. CASE i = k
      <3>1. p \in p .. k
        BY <1>2, <1>4
      <3> QED BY <1>2, <1>3, <1>4, <2>1, <3>1 DEF NeedsOf
    <2>2. CASE i # k
      <3>1. i + 1 \in p .. k /\ i \in 1 .. k /\ i + 1 \in 1 .. k
        BY <1>2, <1>4, <2>2
      <3>2. Imports(calls[i].name, calls[i + 1].name)
        BY <1>2, <3>1 DEF ChainInv, Chained, Imports
      <3> QED BY <1>6, <3>1, <3>2 DEF NeedsOf
    <2> QED BY <2>1, <2>2
  <1>9. \A n \in S : NeedsOf(n) \cap S # {}
    BY <1>8
  <1> HIDE DEF S
  <1> QED BY <1>6, <1>7, <1>9

(* What Leave adds is a module all of whose needs are in order.             *)
LEMMA LeaveLoads ==
  ASSUME IInv, TInv, ChainInv, Leave
  PROVE  /\ Call.name \in Known
         /\ \A i \in DOMAIN order : order[i].name # Call.name
         /\ \A m \in NeedsOf(Call.name) : \E i \in DOMAIN order : order[i].name = m
         /\ OrderNames' = Append(OrderNames, Call.name)
         /\ phase' = IF Call.name = Main THEN "done" ELSE "ordering"
  <1> DEFINE k == Len(calls)
             top == Call.name
             imports == graph[top].imports
  <1>1. /\ calls # <<>> /\ Call.next >= Len(imports) /\ order' = Append(order, Named(top))
        /\ phase' = Answer(Callers)
    BY DEF Leave
  <1>2. /\ k \in Nat \ {0} /\ DOMAIN calls = 1 .. k /\ Call = calls[k] /\ calls \in Seq(Active)
        /\ Call.next \in Nat /\ imports \in Seq(Name) /\ top \in Known /\ k \in DOMAIN calls
    BY <1>1, AdvancedIs, FollowingTyped
  <1>3. top \notin visited
    BY <1>2 DEF IInv, CallsMarked
  <1>4. \A i \in DOMAIN order : order[i].name # top
    BY <1>3 DEF IInv, VisitedOrdered
  <1>5. ASSUME NEW m \in NeedsOf(top)
        PROVE  \E i \in DOMAIN order : order[i].name = m
    <2>1. PICK j \in DOMAIN imports : imports[j] = m
      BY DEF NeedsOf, Imports
    <2>2. j \in 1 .. Call.next /\ j <= Len(imports)
      BY <1>1, <1>2
    <2>3. m \in visited
      BY <1>2, <2>1, <2>2 DEF NeedsOf, IInv, PassedDone
    <2> QED BY <2>3 DEF IInv, VisitedOrdered
  <1>6. OrderNames' = Append(OrderNames, top)
    <2> DEFINE n == Len(order)
               r == [i \in 1 .. n |-> order[i].name]
    <2>1. order \in Seq(NamedNode)
      BY DEF TInv, TypeOK
    <2>2. n \in Nat /\ DOMAIN order = 1 .. n
      BY <2>1
    <2>3. /\ DOMAIN order' = 1 .. n + 1 /\ order'[n + 1] = Named(top)
          /\ \A i \in 1 .. n : order'[i] = order[i]
      BY <1>1, <2>1
    <2>4. Named(top).name = top
      BY DEF Named
    <2>5. \A i \in 1 .. n + 1 : i \in 1 .. n \/ i = n + 1
      BY <2>2
    <2> HIDE DEF n, top
    <2>6. OrderNames' = [i \in 1 .. n + 1 |-> IF i = n + 1 THEN top ELSE order[i].name]
      BY <2>2, <2>3, <2>4, <2>5 DEF OrderNames
    <2>7. OrderNames = r
      BY <2>2 DEF OrderNames
    <2>8. r \in Seq({order[i].name : i \in 1 .. n}) /\ Len(r) = n
      BY <2>2
    <2>9. Append(r, top) = [i \in 1 .. n + 1 |-> IF i = n + 1 THEN top ELSE r[i]]
      BY <2>2, <2>8
    <2>10. Append(r, top) = [i \in 1 .. n + 1 |-> IF i = n + 1 THEN top ELSE order[i].name]
      BY <2>2, <2>5, <2>9
    <2> QED BY <2>6, <2>7, <2>10
  <1>7. phase' = IF top = Main THEN "done" ELSE "ordering"
    <2>1. calls[1].name = Main /\ 1 \in DOMAIN calls
      BY <1>1, <1>2 DEF ChainInv, Rooted
    <2>2. Callers \in Seq(Active) /\ Len(Callers) = k - 1
      <3> HIDE DEF Active
      <3> QED BY <1>1, <1>2, RestTyped DEF Callers
    <2>3. Callers = <<>> <=> k = 1
      BY <1>2, <2>2
    <2>4. top = Main <=> k = 1
      BY <1>2, <2>1 DEF IInv, CallsMarked
    <2> QED BY <1>1, <2>3, <2>4 DEF Answer
  <1> QED BY <1>2, <1>4, <1>5, <1>6, <1>7

LEMMA NeedsAreNames ==
  ASSUME DiskInv, NEW n \in Known
  PROVE  Needs(n) \subseteq NeedsOf(n)
  BY DEF Needs, NeedsOf, DiskInv, NodesScanned, Imports, ImportedNames

LEMMA NamesAreNeeds ==
  ASSUME TInv, SearchInv, DiskInv, Searched, Unambiguous, NEW n \in Known
  PROVE  NeedsOf(n) \subseteq Needs(n)
  <1> SUFFICES ASSUME NEW m \in Known, Imports(n, m)
               PROVE  m \in ImportedNames(graph[n].path) /\ Locate(m, graph[n].path) = graph[m].path
    BY DEF Needs, NeedsOf
  <1>1. m \in ImportedNames(graph[n].path)
    BY DEF DiskInv, NodesScanned, Imports, ImportedNames
  <1> QED BY <1>1, EdgesAreOwn

LEMMA SameNeeds ==
  ASSUME UNCHANGED <<project, entry, graph>>
  PROVE  /\ Known' = Known
         /\ \A n : Needs(n)' = Needs(n)
         /\ Unambiguous' <=> Unambiguous
  <1>1. /\ \A f : Scan(f)' = Scan(f)
        /\ \A n, f : Locate(n, f)' = Locate(n, f)
        /\ Known' = Known
    BY DEF Scan, Locate, Known
  <1>2. \A f : ImportedNames(f)' = ImportedNames(f) /\ Imported(f)' = Imported(f)
    BY <1>1 DEF Imported, ImportedNames
  <1>3. Closure' = Closure
    BY <1>2 DEF Closure
  <1>4. \A n : Needs(n)' = Needs(n)
    BY <1>1, <1>2 DEF Needs
  <1>5. Unambiguous' <=> Unambiguous
    BY <1>1, <1>2, <1>3 DEF Unambiguous
  <1> QED BY <1>1, <1>4, <1>5

(* A step that neither orders a module nor answers is no step of            *)
(* AstraLoadOrder.                                                          *)
LEMMA QuietStep ==
  ASSUME UNCHANGED order,
         \/ ~ Searched /\ phase' \in {"idle", "resolving"}
         \/ Searched /\ phase' = phase /\ UNCHANGED <<project, entry, graph>>,
         phase \in Phase
  PROVE  UNCHANGED LoadOrder!lvars
  <1>1. CASE ~ Searched /\ phase' \in {"idle", "resolving"}
    BY <1>1 DEF Searched, LoadOrder!lvars, Phase
  <1>2. CASE Searched /\ phase' = phase /\ UNCHANGED <<project, entry, graph>>
    BY <1>2, SameNeeds DEF Searched, LoadOrder!lvars
  <1> QED BY <1>1, <1>2

LEMMA StartSurveys ==
  ASSUME IInv, TInv, StartOrder
  PROVE  LoadOrder!LNext
  <1>1. /\ phase = "resolving" /\ phase' = "ordering" /\ order' = order
        /\ Main \in Known'
    BY DEF StartOrder, Visit, IInv, NothingOrdered, EntryKnown, search, Known
  <1>2. \A n : Needs(n)' \subseteq Known'
    BY DEF Needs
  <1> QED BY <1>1, <1>2 DEF LoadOrder!LNext, LoadOrder!Survey, Searched

LEMMA NeedsAre ==
  ASSUME Searched
  PROVE  LoadOrder!Modules = Known
  BY DEF LoadOrder!Modules

LEMMA CycleComplains ==
  ASSUME IInv, TInv, ChainInv, SearchInv, DiskInv, Following, Import \in Known, Import \in onStack,
         phase' = "cycle", UNCHANGED <<project, entry, order, graph>>
  PROVE  [LoadOrder!LNext]_(LoadOrder!lvars)
  <1>1. phase = "ordering" /\ Searched /\ Searched'
    BY DEF Following, Searched
  <1>2. Known' = Known /\ (\A n : Needs(n)' = Needs(n)) /\ (Unambiguous' <=> Unambiguous)
    BY SameNeeds
  <1>3. CASE ~ Unambiguous
    BY <1>1, <1>2, <1>3 DEF LoadOrder!lvars
  <1>4. CASE Unambiguous
    <2>1. PICK S \in SUBSET Known : S # {} /\ \A n \in S : NeedsOf(n) \cap S # {}
      BY MarkedIsCircular
    <2>2. \A n \in S : Needs(n) \cap S # {}
      BY <1>1, <1>4, <2>1, NamesAreNeeds
    <2>3. LoadOrder!Circular
      BY <1>1, <2>1, <2>2 DEF LoadOrder!Circular, LoadOrder!Modules
    <2>4. LoadOrder!Complain
      BY <1>1, <1>2, <1>4, <2>3 DEF LoadOrder!Complain
    <2> QED BY <1>1, <2>4 DEF LoadOrder!LNext
  <1> QED BY <1>3, <1>4

LEMMA LeaveIsLoad ==
  ASSUME IInv, TInv, ChainInv, DiskInv, Leave
  PROVE  LoadOrder!LNext
  <1>0. PICK top : top = Call.name
    OBVIOUS
  <1>1. /\ top \in Known
        /\ \A i \in DOMAIN order : order[i].name # top
        /\ \A m \in NeedsOf(top) : \E i \in DOMAIN order : order[i].name = m
        /\ OrderNames' = Append(OrderNames, top)
        /\ phase' = IF top = Main THEN "done" ELSE "ordering"
    BY <1>0, LeaveLoads
  <1>2. phase = "ordering" /\ Searched /\ Searched' /\ UNCHANGED <<project, entry, graph>>
    BY <1>1 DEF Leave, request, search, Searched
  <1>3. LoadOrder!Loaded = {order[i].name : i \in DOMAIN order}
    BY DEF LoadOrder!Loaded
  <1>4. Needs(top) \subseteq LoadOrder!Loaded
    BY <1>1, <1>3, NeedsAreNames
  <1>5. top \notin LoadOrder!Loaded
    BY <1>1, <1>3
  <1>6. LoadOrder!Load(top)
    <2>1. /\ [i \in DOMAIN order' |-> order'[i].name]
              = Append([i \in DOMAIN order |-> order[i].name], top)
          /\ (IF phase' = "done" \/ (phase' = "cycle" /\ Unambiguous') THEN phase' ELSE "pending")
              = IF top = Main THEN "done" ELSE "pending"
      BY <1>1 DEF OrderNames
    <2>2. [n \in Known |-> Needs(n)][top] = Needs(top)
      BY <1>1
    <2>3. [n \in Known |-> Needs(n)]' = [n \in Known |-> Needs(n)]
      BY <1>2, SameNeeds
    <2> QED BY <1>2, <1>4, <1>5, <2>1, <2>2, <2>3 DEF LoadOrder!Load
  <1>7. top \in LoadOrder!Modules
    BY <1>1, <1>2, NeedsAre
  <1>8. \E n \in LoadOrder!Modules : LoadOrder!Load(n)
    BY <1>6, <1>7
  <1> QED BY <1>2, <1>8 DEF LoadOrder!LNext

LEMMA NextKeepsPromise ==
  ASSUME MaxBuilds <= 1, IInv, TInv, ChainInv, SearchInv, DiskInv, [Next]_vars
  PROVE  [LoadOrder!LNext]_(LoadOrder!lvars)
  <1>1. phase \in Phase
    BY DEF TInv, TypeOK
  <1>2. CASE (\E f \in project.entries : Build(f)) \/ NextImport \/ ResolveNode
    <2>1. phase \in {"idle", "resolving"} /\ phase' = "resolving" /\ order' = order
      BY <1>2, ResolverAssumption DEF Build, NextImport, ResolveNode, IInv, EntryKnown, sorting
    <2> QED BY <1>1, <2>1, QuietStep DEF Searched
  <1>3. CASE StartOrder
    BY <1>3, StartSurveys
  <1>4. CASE SkipMissing
    BY <1>1, <1>4, QuietStep DEF SkipMissing, Following, Searched, search, request
  <1>5. CASE Follow
    <2>1. /\ Following /\ calls # <<>> /\ phase = "ordering" /\ Import \in Known
          /\ Visit(Import, Advanced) /\ order' = order
          /\ UNCHANGED <<project, entry, graph>>
      BY <1>5 DEF Follow, Following, request, search
    <2>2. Len(Advanced) # 0
      BY <2>1, AdvancedIs
    <2>3. Answer(Advanced) = "ordering"
      BY <2>2 DEF Answer
    <2>4. CASE phase' = "ordering"
      BY <1>1, <2>1, <2>4, QuietStep DEF Searched
    <2>5. CASE phase' # "ordering"
      <3>1. Import \in onStack /\ phase' = "cycle"
        BY <2>1, <2>3, <2>5 DEF Visit
      <3> QED BY <2>1, <3>1, CycleComplains
    <2> QED BY <2>4, <2>5
  <1>6. CASE Leave
    BY <1>6, LeaveIsLoad
  <1>7. CASE UNCHANGED vars
    <2>1. UNCHANGED <<project, entry, graph, order, phase>>
      BY <1>7 DEF vars
    <2> QED BY <2>1, SameNeeds DEF Searched, LoadOrder!lvars
  <1> QED BY <1>2, <1>3, <1>4, <1>5, <1>6, <1>7 DEF Next

(* A resolver that is asked once implements AstraLoadOrder, whatever the    *)
(* project: it orders a module only after all that module needs on disk,    *)
(* each module once and the requested one last, and where names are         *)
(* unambiguous it throws only when some modules do import each other in a   *)
(* circle.                                                                  *)
THEOREM ResolverKeepsPromise == ASSUME MaxBuilds <= 1 PROVE Spec => KeepsPromise
  <1>1. Init => IInv /\ TInv /\ ChainInv /\ SearchInv /\ DiskInv
    <2>1. ASSUME Init PROVE ChainInv
      BY <2>1 DEF Init, ChainInv, StackActive, Chained, Rooted
    <2> QED BY <2>1, InitialSound, InitialTyped, InitialSearches
  <1>2. IInv /\ TInv /\ ChainInv /\ SearchInv /\ DiskInv /\ [Next]_vars
          => (IInv /\ TInv /\ ChainInv /\ SearchInv /\ DiskInv)'
    BY NextPreserves, StutterPreserves, NextTyped, NextChained, NextSearches, NextOnDisk
  <1>3. Init => LoadOrder!LInit
    BY DEF Init, LoadOrder!LInit, Searched
  <1>4. IInv /\ TInv /\ ChainInv /\ SearchInv /\ DiskInv /\ [Next]_vars
          => [LoadOrder!LNext]_(LoadOrder!lvars)
    BY NextKeepsPromise
  <1>5. KeepsPromise <=> LoadOrder!LInit /\ [][LoadOrder!LNext]_(LoadOrder!lvars)
    BY DEF KeepsPromise, LoadOrder!LSpec
  <1> QED BY <1>1, <1>2, <1>3, <1>4, <1>5, PTL DEF Spec
=============================================================================
