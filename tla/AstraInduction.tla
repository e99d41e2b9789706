--------------------------- MODULE AstraInduction ---------------------------
(***************************************************************************)
(* Induction and recursion without operator parameters.  The library's     *)
(* induction theorems are about an operator P(_), which the provers here   *)
(* cannot instantiate; the same facts about a set and about a step         *)
(* function are first-order, and follow from the well-founded order of the *)
(* naturals.  On top of them, what flattening a sequence of sequences does *)
(* to their places.                                                        *)
(***************************************************************************)
EXTENDS Integers, Sequences, SequencesExt, WellFoundedInduction, TLAPS

Less == {p \in Nat \X Nat : p[1] < p[2]}

LEMMA LessWellFounded == IsWellFoundedOn(Less, Nat)
  <1>1. IsWellFoundedOn({p \in Nat \X Nat : p[1] < p[2]}, Nat)
    BY NatLessThanWellFounded DEF OpToRel
  <1> QED BY <1>1 DEF Less

LEMMA ElementOf ==
  ASSUME NEW X, NEW s \in Seq(X), NEW i \in 1 .. Len(s)
  PROVE  s[i] \in X
  OBVIOUS

(* A set of numbers that has a member has a least one.                      *)
LEMMA LeastNumber ==
  ASSUME NEW S \in SUBSET Nat, S # {}
  PROVE  \E n \in S : \A m \in S : n <= m
  <1>1. PICK n \in S : \A m \in S : ~ (<<m, n>> \in Less)
    BY LessWellFounded, WFMin
  <1>2. ASSUME NEW m \in S PROVE n <= m
    <2>1. m \in Nat /\ n \in Nat
      OBVIOUS
    <2>2. <<m, n>> \notin Less
      BY <1>1
    <2>3. ~ (m < n)
      <3> SUFFICES ASSUME m < n PROVE FALSE
        OBVIOUS
      <3>1. <<m, n>> \in Nat \X Nat /\ <<m, n>>[1] = m /\ <<m, n>>[2] = n
        BY <2>1
      <3>2. <<m, n>> \in Less
        BY <3>1 DEF Less
      <3> QED BY <2>2, <3>2
    <2> QED BY <2>1, <2>3
  <1> QED BY <1>2

(* What holds of 0 and of the successor of each number it holds of, holds   *)
(* of all numbers up to n.                                                  *)
LEMMA InductionUpTo ==
  ASSUME NEW n \in Nat, NEW T, 0 \in T, \A i \in 0 .. n - 1 : i \in T => i + 1 \in T
  PROVE  0 .. n \subseteq T
  <1> DEFINE bad == {i \in 0 .. n : i \notin T}
  <1> SUFFICES ASSUME bad # {} PROVE FALSE
    OBVIOUS
  <1>1. bad \in SUBSET Nat
    OBVIOUS
  <1>2. PICK k \in bad : \A m \in bad : k <= m
    <2> HIDE DEF bad
    <2> QED BY <1>1, LeastNumber
  <1>3. k \in 1 .. n /\ k \notin T
    OBVIOUS
  <1>4. k - 1 \in 0 .. n - 1 /\ k - 1 \notin bad
    BY <1>2, <1>3
  <1> QED BY <1>3, <1>4

(* A recursive function along 0 .. n exists and stays in the set its step   *)
(* stays in.                                                                *)
Follows(g, n, base, step) ==
    g[0] = base /\ \A i \in 1 .. n : g[i] = step[<<i, g[i - 1]>>]

LEMMA RecursionExists ==
  ASSUME NEW n \in Nat, NEW S, NEW base \in S, NEW step \in [(1 .. n) \X S -> S]
  PROVE  \E g \in [0 .. n -> S] : Follows(g, n, base, step)
  <1> DEFINE T == {k \in 0 .. n : \E g \in [0 .. k -> S] : Follows(g, k, base, step)}
  <1>1. 0 \in T
    <2> DEFINE g == [i \in 0 .. 0 |-> base]
    <2>1. g \in [0 .. 0 -> S] /\ Follows(g, 0, base, step)
      BY DEF Follows
    <2> QED BY <2>1
  <1>2. ASSUME NEW k \in 0 .. n - 1, k \in T
        PROVE  k + 1 \in T
    <2>1. PICK g \in [0 .. k -> S] : Follows(g, k, base, step)
      BY <1>2
    <2> DEFINE h == [i \in 0 .. k + 1 |-> IF i = k + 1 THEN step[<<k + 1, g[k]>>] ELSE g[i]]
    <2>2. step[<<k + 1, g[k]>>] \in S
      <3>1. k + 1 \in 1 .. n /\ g[k] \in S
        OBVIOUS
      <3>2. <<k + 1, g[k]>> \in (1 .. n) \X S
        BY <3>1
      <3> QED BY <3>2
    <2>3. h \in [0 .. k + 1 -> S]
      BY <2>2
    <2>4. h[0] = base
      BY <2>1 DEF Follows
    <2>5. ASSUME NEW i \in 1 .. k + 1 PROVE h[i] = step[<<i, h[i - 1]>>]
      <3>1. CASE i = k + 1
        <4>1. k \in 0 .. k + 1 /\ k # k + 1 /\ k + 1 \in 0 .. k + 1 /\ i - 1 = k
          BY <3>1
        <4>2. h[k + 1] = step[<<k + 1, g[k]>>] /\ h[k] = g[k]
          BY <4>1
        <4> HIDE DEF h
        <4> QED BY <3>1, <4>1, <4>2
      <3>2. CASE i # k + 1
        <4>1. i \in 1 .. k /\ i - 1 # k + 1 /\ i - 1 \in 0 .. k + 1
          BY <3>2
        <4>2. h[i] = g[i] /\ h[i - 1] = g[i - 1]
          BY <4>1
        <4> HIDE DEF h
        <4> QED BY <2>1, <4>1, <4>2 DEF Follows
      <3> QED BY <3>1, <3>2
    <2>6. Follows(h, k + 1, base, step)
      BY <2>4, <2>5 DEF Follows
    <2> QED BY <2>3, <2>6
  <1> HIDE DEF T
  <1>3. 0 .. n \subseteq T
    BY <1>1, <1>2, InductionUpTo
  <1> QED BY <1>3 DEF T

-----------------------------------------------------------------------------
(* Where the pieces of a flattened sequence end: piece i of s fills the     *)
(* places after Ends(s)[i - 1] up to Ends(s)[i].                            *)
AreEnds(e, s) == e[0] = 0 /\ \A i \in 1 .. Len(s) : e[i] = e[i - 1] + Len(s[i])
Ends(s) == CHOOSE e \in [0 .. Len(s) -> Nat] : AreEnds(e, s)

LEMMA EndsAre ==
  ASSUME NEW X, NEW s \in Seq(Seq(X))
  PROVE  Ends(s) \in [0 .. Len(s) -> Nat] /\ AreEnds(Ends(s), s)
  <1> DEFINE n == Len(s)
             step == [p \in (1 .. n) \X Nat |-> p[2] + Len(s[p[1]])]
  <1>1. n \in Nat /\ \A i \in 1 .. n : s[i] \in Seq(X) /\ Len(s[i]) \in Nat
    OBVIOUS
  <1>2. step \in [(1 .. n) \X Nat -> Nat]
    BY <1>1
  <1> HIDE DEF n, step
  <1>3. PICK e \in [0 .. n -> Nat] : Follows(e, n, 0, step)
    BY <1>1, <1>2, RecursionExists
  <1>4. ASSUME NEW i \in 1 .. n PROVE e[i] = e[i - 1] + Len(s[i])
    <2>1. i - 1 \in 0 .. n
      BY <1>1
    <2>2. <<i, e[i - 1]>> \in (1 .. n) \X Nat /\ e[i] = step[<<i, e[i - 1]>>]
      BY <1>3, <2>1 DEF Follows
    <2> QED BY <2>2 DEF step
  <1>5. AreEnds(e, s)
    BY <1>3, <1>4 DEF AreEnds, Follows, n
  <1> QED BY <1>5 DEF Ends, n

(* Concatenation, as an operator of its own for the provers.                *)
Glue(s, t) == s \o t

LEMMA GlueIs ==
  ASSUME NEW X, NEW a \in Seq(X), NEW b \in Seq(X)
  PROVE  /\ Glue(a, b) \in Seq(X) /\ Len(Glue(a, b)) = Len(a) + Len(b)
         /\ Len(a) \in Nat /\ Len(b) \in Nat
         /\ \A j \in 1 .. Len(a) : Glue(a, b)[j] = a[j]
         /\ \A j \in 1 .. Len(b) : Glue(a, b)[Len(a) + j] = b[j]
  <1>1. Glue(a, b) \in Seq(X) /\ Len(Glue(a, b)) = Len(a) + Len(b)
    BY DEF Glue
  <1>2. \A j \in 1 .. Len(a) : Glue(a, b)[j] = a[j]
    BY DEF Glue
  <1>3. \A j \in 1 .. Len(b) : Glue(a, b)[Len(a) + j] = b[j]
    BY DEF Glue
  <1> QED BY <1>1, <1>2, <1>3

(* The same of words, one fact at a time.                                   *)
LEMMA WordsLen ==
  ASSUME NEW a \in Seq(Nat), NEW b \in Seq(Nat)
  PROVE  Glue(a, b) \in Seq(Nat) /\ Len(Glue(a, b)) = Len(a) + Len(b)
  BY GlueIs

LEMMA WordsLeft ==
  ASSUME NEW a \in Seq(Nat), NEW b \in Seq(Nat)
  PROVE  \A j \in 1 .. Len(a) : Glue(a, b)[j] = a[j]
  BY GlueIs

LEMMA WordsRight ==
  ASSUME NEW a \in Seq(Nat), NEW b \in Seq(Nat)
  PROVE  \A j \in 1 .. Len(b) : Glue(a, b)[Len(a) + j] = b[j]
  BY GlueIs

(* What FlattenSeq's recursion computes.                                    *)
LEMMA FlattenFollows ==
  ASSUME NEW X, NEW s \in Seq(Seq(X)), Len(s) # 0
  PROVE  \E g \in [0 .. Len(s) -> Seq(X)] :
            /\ g[0] = <<>> /\ \A i \in 1 .. Len(s) : g[i] = Glue(g[i - 1], s[i])
            /\ FlattenSeq(s) = g[Len(s)]
  <1> DEFINE n == Len(s)
             Body0(f) == [i \in 1 .. n |-> IF i = 1 THEN s[i] ELSE Glue(f[i - 1], s[i])]
             flatten == CHOOSE f : f = Body0(f)
             step == [p \in (1 .. n) \X Seq(X) |-> Glue(p[2], s[p[1]])]
  <1>1. /\ n \in Nat /\ n >= 1 /\ \A i \in 1 .. n : s[i] \in Seq(X)
        /\ \A u \in Seq(X), v \in Seq(X) : Glue(u, v) \in Seq(X)
        /\ \A u \in Seq(X) : Glue(<<>>, u) = u
    BY DEF Glue
  <1>2. FlattenSeq(s) = flatten[n]
    BY DEF FlattenSeq, Glue
  <1>3. step \in [(1 .. n) \X Seq(X) -> Seq(X)] /\ <<>> \in Seq(X)
    BY <1>1
  <1> HIDE DEF n, step
  <1>4. PICK g \in [0 .. n -> Seq(X)] : Follows(g, n, <<>>, step)
    BY <1>1, <1>3, RecursionExists
  <1>5. ASSUME NEW i \in 1 .. n PROVE g[i] = Glue(g[i - 1], s[i])
    <2>1. i - 1 \in 0 .. n
      BY <1>1
    <2>2. <<i, g[i - 1]>> \in (1 .. n) \X Seq(X) /\ g[i] = step[<<i, g[i - 1]>>]
      BY <1>4, <2>1 DEF Follows
    <2> QED BY <2>2 DEF step
  <1>6. g[0] = <<>>
    BY <1>4 DEF Follows
  <1> DEFINE h == [i \in 1 .. n |-> g[i]]
  <1>7. h = Body0(h)
    <2>1. ASSUME NEW i \in 1 .. n PROVE h[i] = Body0(h)[i]
      <3>1. CASE i = 1
        BY <1>1, <1>5, <1>6, <3>1
      <3>2. CASE i # 1
        <4>1. i - 1 \in 1 .. n /\ i - 1 # 0
          BY <1>1, <3>2
        <4>2. h[i] = g[i] /\ h[i - 1] = g[i - 1] /\ g[i] = Glue(g[i - 1], s[i])
          BY <1>5, <4>1
        <4> HIDE DEF h
        <4> QED BY <3>2, <4>2
      <3> QED BY <3>1, <3>2
    <2> QED BY <2>1
  <1>8. flatten = Body0(flatten)
    BY <1>7
  <1> HIDE DEF flatten, h
  <1> DEFINE T == {k \in 0 .. n : k = 0 \/ flatten[k] = g[k]}
  <1>9. 0 \in T
    BY <1>1
  <1>10. ASSUME NEW k \in 0 .. n - 1, k \in T PROVE k + 1 \in T
    <2>1. k + 1 \in 1 .. n /\ k + 1 - 1 = k /\ k + 1 \in 0 .. n
      BY <1>1
    <2>2. flatten[k + 1] = IF k = 0 THEN s[k + 1] ELSE Glue(flatten[k], s[k + 1])
      <3>1. \A i \in 1 .. n : flatten[i] = IF i = 1 THEN s[i] ELSE Glue(flatten[i - 1], s[i])
        BY <1>8
      <3>2. flatten[k + 1] = IF k + 1 = 1 THEN s[k + 1] ELSE Glue(flatten[k + 1 - 1], s[k + 1])
        BY <2>1, <3>1
      <3>3. k + 1 = 1 <=> k = 0
        BY <1>1
      <3> QED BY <2>1, <3>2, <3>3
    <2>3. g[k + 1] = Glue(g[k], s[k + 1])
      BY <1>5, <2>1
    <2>4. CASE k = 0
      <3>1. flatten[k + 1] = s[k + 1] /\ g[k + 1] = Glue(<<>>, s[k + 1])
        BY <1>6, <2>2, <2>3, <2>4
      <3>2. flatten[k + 1] = g[k + 1]
        BY <1>1, <2>1, <3>1
      <3> QED BY <2>1, <3>2
    <2>5. CASE k # 0
      <3>1. flatten[k] = g[k]
        BY <1>10, <2>5
      <3>2. flatten[k + 1] = g[k + 1]
        BY <2>2, <2>3, <2>5, <3>1
      <3> QED BY <2>1, <3>2
    <2> QED BY <2>4, <2>5
  <1> HIDE DEF T
  <1>11. 0 .. n \subseteq T
    BY <1>1, <1>9, <1>10, InductionUpTo
  <1>12. flatten[n] = g[n]
    BY <1>1, <1>11 DEF T
  <1> QED BY <1>2, <1>5, <1>6, <1>12 DEF n

(* Each piece of a flattened sequence is where its ends say.                *)
LEMMA FlattenPieces ==
  ASSUME NEW X, NEW s \in Seq(Seq(X))
  PROVE  /\ FlattenSeq(s) \in Seq(X)
         /\ Len(FlattenSeq(s)) = Ends(s)[Len(s)]
         /\ \A i \in 1 .. Len(s) :
               /\ Ends(s)[i] <= Ends(s)[Len(s)]
               /\ \A j \in 1 .. Len(s[i]) : FlattenSeq(s)[Ends(s)[i - 1] + j] = s[i][j]
  <1> DEFINE n == Len(s)
             e == Ends(s)
  <1>1. /\ n \in Nat /\ \A i \in 1 .. n : s[i] \in Seq(X) /\ Len(s[i]) \in Nat
        /\ \A u \in Seq(X), v \in Seq(X) : Glue(u, v) \in Seq(X)
        /\ e \in [0 .. n -> Nat] /\ e[0] = 0 /\ \A i \in 1 .. n : e[i] = e[i - 1] + Len(s[i])
    BY EndsAre DEF AreEnds, Glue
  <1>2. CASE n = 0
    <2>1. s = <<>> /\ FlattenSeq(s) = s
      BY <1>2 DEF FlattenSeq
    <2> QED BY <1>1, <1>2, <2>1
  <1>3. CASE n # 0
    <2>1. PICK g \in [0 .. n -> Seq(X)] :
             /\ g[0] = <<>> /\ \A i \in 1 .. n : g[i] = Glue(g[i - 1], s[i])
             /\ FlattenSeq(s) = g[n]
      BY <1>3, FlattenFollows
    <2> HIDE DEF n, e
    <2> DEFINE Piece(k, i) == e[i] <= e[k] /\ \A j \in 1 .. Len(s[i]) : g[k][e[i - 1] + j] = s[i][j]
               T == {k \in 0 .. n : Len(g[k]) = e[k] /\ \A i \in 1 .. k : Piece(k, i)}
    <2>2. 0 \in T
      BY <1>1, <2>1
    <2>3. ASSUME NEW k \in 0 .. n - 1, k \in T PROVE k + 1 \in T
      <3>1. k + 1 \in 1 .. n /\ k + 1 - 1 = k /\ k + 1 \in 0 .. n /\ k \in 0 .. n
        BY <1>1
      <3> DEFINE a == g[k]
                 b == s[k + 1]
      <3>2. a \in Seq(X) /\ b \in Seq(X) /\ Len(a) = e[k] /\ e[k] \in Nat
        BY <1>1, <2>1, <2>3, <3>1
      <3> HIDE DEF Piece
      <3>a. g[k + 1] = Glue(a, b)
        <4>1. g[k + 1] = Glue(g[k + 1 - 1], s[k + 1])
          BY <2>1, <3>1
        <4> QED BY <3>1, <4>1
      <3>b. e[k + 1] = e[k] + Len(b)
        <4>1. e[k + 1] = e[k + 1 - 1] + Len(s[k + 1])
          BY <1>1, <3>1
        <4> QED BY <3>1, <4>1
      <3> HIDE DEF a, b
      <3>3. /\ Len(Glue(a, b)) = Len(a) + Len(b) /\ Len(b) \in Nat
            /\ \A j \in 1 .. Len(a) : Glue(a, b)[j] = a[j]
            /\ \A j \in 1 .. Len(b) : Glue(a, b)[Len(a) + j] = b[j]
        <4>1. a \in Seq(X) /\ b \in Seq(X)
          BY <3>2
        <4>2. Len(Glue(a, b)) = Len(a) + Len(b) /\ Len(b) \in Nat
          BY <4>1, GlueIs
        <4>3. \A j \in 1 .. Len(a) : Glue(a, b)[j] = a[j]
          BY <4>1, GlueIs
        <4>4. \A j \in 1 .. Len(b) : Glue(a, b)[Len(a) + j] = b[j]
          BY <4>1, GlueIs
        <4> QED BY <4>2, <4>3, <4>4
      <3> USE DEF Piece
      <3>4. Len(g[k + 1]) = e[k + 1] /\ e[k] <= e[k + 1]
        BY <3>2, <3>3, <3>a, <3>b
      <3>5. ASSUME NEW i \in 1 .. k + 1 PROVE Piece(k + 1, i)
        <4>1. CASE i = k + 1
          BY <3>1, <3>2, <3>3, <3>4, <3>a, <3>b, <4>1 DEF b
        <4>2. CASE i # k + 1
          <5>1. i \in 1 .. k /\ i \in 1 .. n /\ i \in 0 .. n /\ i - 1 \in 0 .. n
            BY <1>1, <3>1, <4>2
          <5>2. Piece(k, i) /\ e[i] \in Nat /\ e[i - 1] \in Nat /\ e[i] = e[i - 1] + Len(s[i])
            BY <1>1, <2>3, <5>1
          <5>3. e[i] <= e[k + 1] /\ e[i] <= e[k]
            BY <1>1, <3>2, <3>4, <3>b, <3>3, <5>2
          <5>4. ASSUME NEW j \in 1 .. Len(s[i]) PROVE g[k + 1][e[i - 1] + j] = s[i][j]
            <6>1. e[i - 1] + j \in 1 .. Len(a)
              <7>1. Len(s[i]) \in Nat /\ e[i - 1] + Len(s[i]) <= Len(a) /\ Len(a) \in Nat
                <8>1. Len(s[i]) \in Nat
                  BY <1>1, <5>1
                <8> QED BY <3>2, <5>2, <5>3, <8>1
              <7>2. PICK x \in Nat : x = e[i - 1]
                BY <5>2
              <7>3. PICK y \in Nat, z \in Nat : y = Len(s[i]) /\ z = Len(a)
                BY <7>1
              <7>4. j \in 1 .. y /\ x + y <= z
                BY <7>1, <7>2, <7>3
              <7>5. x + j \in 1 .. z
                BY <7>4
              <7> QED BY <7>2, <7>3, <7>5
            <6>2. a[e[i - 1] + j] = s[i][j]
              BY <5>2 DEF a
            <6> QED BY <3>2, <3>3, <3>a, <6>1, <6>2
          <5> QED BY <5>3, <5>4
        <4> QED BY <4>1, <4>2
      <3> HIDE DEF Piece
      <3> QED BY <3>1, <3>4, <3>5
    <2> HIDE DEF T
    <2>4. 0 .. n \subseteq T
      BY <1>1, <2>2, <2>3, InductionUpTo
    <2>5. Len(g[n]) = e[n] /\ \A i \in 1 .. n : Piece(n, i)
      <3>1. n \in T
        BY <1>1, <2>4
      <3> HIDE DEF Piece
      <3> QED BY <3>1 DEF T
    <2> QED BY <1>1, <2>1, <2>5 DEF n, e
  <1> QED BY <1>2, <1>3
=============================================================================
