------------------------- MODULE AstraLexing_proofs -------------------------
(***************************************************************************)
(* Proofs about the lexer, on any text: where the loops of the lexer end,  *)
(* that what they skip is blanks and comments and what they take is a      *)
(* longest token, and that lines and columns are counted right.            *)
(***************************************************************************)
EXTENDS AstraLexing, AstraInduction, FiniteSetTheorems, SequenceTheorems

Text == Seq(STRING)

-----------------------------------------------------------------------------
(* Slices. *)

LEMMA TextLen == ASSUME NEW t \in Text PROVE Len(t) \in Nat
  BY DEF Text

LEMMA SliceIs ==
  ASSUME NEW t \in Text, NEW p \in 0 .. Len(t), NEW q \in p .. Len(t)
  PROVE  /\ Slice(t, p, q) \in Text /\ Len(Slice(t, p, q)) = q - p
         /\ \A i \in 1 .. q - p : Slice(t, p, q)[i] = t[p + i]
         /\ \A i \in 0 .. q - p - 1 : At(Slice(t, p, q), i) = At(t, p + i)
  <1>1. Len(t) \in Nat /\ p \in Nat /\ q \in Nat /\ p <= q /\ q <= Len(t)
    BY TextLen
  <1>2. Slice(t, p, q) = SubSeq(t, p + 1, q)
    BY <1>1 DEF Slice
  <1>3. /\ SubSeq(t, p + 1, q) \in Seq(STRING) /\ Len(SubSeq(t, p + 1, q)) = q - p
        /\ \A i \in 1 .. q - p : SubSeq(t, p + 1, q)[i] = t[p + i]
    BY <1>1 DEF Text
  <1>4. ASSUME NEW i \in 0 .. q - p - 1 PROVE At(Slice(t, p, q), i) = At(t, p + i)
    <2>1. i < q - p /\ p + i < Len(t) /\ i + 1 \in 1 .. q - p /\ p + (i + 1) = p + i + 1
      BY <1>1
    <2>2. SubSeq(t, p + 1, q)[i + 1] = t[p + i + 1]
      BY <1>3, <2>1
    <2> QED BY <1>2, <1>3, <2>1, <2>2 DEF At
  <1> QED BY <1>2, <1>3, <1>4 DEF Text

(* A slice of two is what a look at the next character compares.            *)
LEMMA TwoAre ==
  ASSUME NEW t \in Text, NEW p \in 0 .. Len(t)
  PROVE  /\ p + 2 <= Len(t) => Slice(t, p, p + 2) = <<At(t, p), At(t, p + 1)>>
         /\ p + 2 > Len(t) => Len(Slice(t, p, p + 2)) < 2
  <1>1. Len(t) \in Nat /\ p \in Nat /\ p <= Len(t)
    BY TextLen
  <1>2. CASE p + 2 <= Len(t)
    <2> DEFINE s == Slice(t, p, p + 2)
    <2>0. p + 2 \in p .. Len(t) /\ (p + 2) - p = 2 /\ 1 \in 1 .. 2 /\ 2 \in 1 .. 2
      BY <1>1, <1>2
    <2>1. s \in Seq(STRING) /\ Len(s) = 2 /\ s[1] = t[p + 1] /\ s[2] = t[p + 2]
      <3> DEFINE q == p + 2
      <3>1. q \in p .. Len(t) /\ q - p = 2
        BY <2>0
      <3> HIDE DEF q
      <3>2. /\ Slice(t, p, q) \in Text /\ Len(Slice(t, p, q)) = q - p
            /\ \A i \in 1 .. q - p : Slice(t, p, q)[i] = t[p + i]
        BY <3>1, SliceIs
      <3>3. s = Slice(t, p, q)
        BY DEF q
      <3> QED BY <2>0, <3>1, <3>2, <3>3 DEF Text
    <2>2. At(t, p) = t[p + 1] /\ At(t, p + 1) = t[p + 2]
      <3>1. p < Len(t) /\ p + 1 < Len(t) /\ (p + 1) + 1 = p + 2
        BY <1>1, <1>2
      <3> QED BY <3>1 DEF At
    <2> HIDE DEF s
    <2>3. s = <<s[1], s[2]>>
      BY <2>1
    <2> QED BY <1>1, <1>2, <2>1, <2>2, <2>3 DEF s
  <1>3. CASE p + 2 > Len(t)
    <2>1. Slice(t, p, p + 2) = Slice(t, p, Len(t))
      BY <1>1, <1>3 DEF Slice
    <2>2. Len(Slice(t, p, Len(t))) = Len(t) - p
      <3>1. Len(t) \in p .. Len(t)
        BY <1>1
      <3> QED BY <3>1, SliceIs
    <2> QED BY <1>1, <1>3, <2>1, <2>2
  <1> QED BY <1>1, <1>2, <1>3

LEMMA SliceOfSlice ==
  ASSUME NEW t \in Text, NEW p \in 0 .. Len(t), NEW q \in p .. Len(t),
         NEW i \in 0 .. q - p, NEW j \in i .. q - p
  PROVE  Slice(Slice(t, p, q), i, j) = Slice(t, p + i, p + j)
  <1> DEFINE s == Slice(t, p, q)
             u == Slice(s, i, j)
             v == Slice(t, p + i, p + j)
  <1>1. /\ Len(t) \in Nat /\ p \in Nat /\ q \in Nat /\ i \in Nat /\ j \in Nat
        /\ p <= q /\ q <= Len(t) /\ i <= j /\ j <= q - p
    BY TextLen
  <1>2. s \in Text /\ Len(s) = q - p /\ \A n \in 1 .. q - p : s[n] = t[p + n]
    BY SliceIs
  <1>3. u \in Text /\ Len(u) = j - i /\ \A n \in 1 .. j - i : u[n] = s[i + n]
    <2>1. i \in 0 .. Len(s) /\ j \in i .. Len(s)
      BY <1>1, <1>2
    <2> HIDE DEF s
    <2> QED BY <1>2, <2>1, SliceIs
  <1>4. v \in Text /\ Len(v) = j - i /\ \A n \in 1 .. j - i : v[n] = t[p + i + n]
    <2> DEFINE a == p + i
               b == p + j
    <2>1. a \in 0 .. Len(t) /\ b \in a .. Len(t) /\ b - a = j - i /\ a \in Nat
      BY <1>1
    <2>2. v = Slice(t, a, b) /\ \A n \in 1 .. j - i : p + i + n = a + n
      OBVIOUS
    <2> HIDE DEF a, b, v
    <2>3. /\ Slice(t, a, b) \in Text /\ Len(Slice(t, a, b)) = b - a
          /\ \A n \in 1 .. b - a : Slice(t, a, b)[n] = t[a + n]
      BY <2>1, SliceIs
    <2>4. v \in Text /\ Len(v) = j - i
      BY <2>1, <2>2, <2>3
    <2>5. \A n \in 1 .. j - i : v[n] = t[a + n]
      BY <2>1, <2>2, <2>3
    <2> QED BY <2>4, <2>5, <2>2
  <1> HIDE DEF s, u, v
  <1>5. \A n \in 1 .. j - i : u[n] = v[n]
    <2>1. \A n \in 1 .. j - i : i + n \in 1 .. q - p /\ p + (i + n) = p + i + n
      BY <1>1
    <2> QED BY <1>2, <1>3, <1>4, <2>1
  <1>6. u = v
    BY <1>1, <1>3, <1>4, <1>5, SeqEqual DEF Text
  <1> QED BY <1>6 DEF s, u, v

-----------------------------------------------------------------------------
(* Where loops end. *)

LEMMA Beyond ==
  ASSUME NEW m \in Int, NEW n \in Int, NEW q \in m .. n, q # m
  PROVE  q \in m + 1 .. n
  OBVIOUS

LEMMA Onward ==
  ASSUME NEW m \in Int, NEW n \in Int, NEW q \in m .. n, NEW r \in q .. n
  PROVE  r \in m .. n
  OBVIOUS

LEMMA StepBack ==
  ASSUME NEW n \in Nat, NEW k \in 0 .. n - 1
  PROVE  /\ n - (k + 1) \in 0 .. n /\ n - (k + 1) \in Nat /\ (n - (k + 1)) + 1 = n - k
         /\ k + 1 \in 0 .. n
  OBVIOUS

LEMMA FirstIs ==
  ASSUME NEW n \in Nat, NEW p \in 0 .. n, NEW hits
  PROVE  /\ First(n, p, hits) \in p .. n
         /\ First(n, p, hits) = n \/ First(n, p, hits) \in hits
         /\ \A r \in p .. First(n, p, hits) - 1 : r \notin hits
  <1> DEFINE S == {q \in p .. n : q = n \/ q \in hits}
             Is(q) == (q = n \/ q \in hits) /\ \A r \in p .. q - 1 : r \notin hits
  <1>1. S \in SUBSET Nat /\ n \in S
    OBVIOUS
  <1>2. PICK q \in S : \A m \in S : q <= m
    <2> HIDE DEF S
    <2> QED BY <1>1, LeastNumber
  <1>3. q \in p .. n /\ Is(q)
    BY <1>2
  <1>4. First(n, p, hits) \in p .. n /\ Is(First(n, p, hits))
    <2> HIDE DEF Is
    <2>1. First(n, p, hits) = CHOOSE x \in p .. n : Is(x)
      BY DEF First, Is
    <2> QED BY <1>3, <2>1
  <1> QED BY <1>4

LEMMA RunEndIs ==
  ASSUME NEW t \in Text, NEW p \in 0 .. Len(t), NEW set
  PROVE  /\ RunEnd(t, p, set) \in p .. Len(t)
         /\ RunEnd(t, p, set) < Len(t) => At(t, RunEnd(t, p, set)) \notin set
         /\ \A r \in p .. RunEnd(t, p, set) - 1 : At(t, r) \in set
  <1> DEFINE hits == {q \in p .. Len(t) - 1 : At(t, q) \notin set}
             e == First(Len(t), p, hits)
  <1>1. Len(t) \in Nat /\ p \in Nat /\ p <= Len(t) /\ RunEnd(t, p, set) = e
    BY TextLen DEF RunEnd
  <1>2. /\ e \in p .. Len(t) /\ (e = Len(t) \/ e \in hits)
        /\ \A r \in p .. e - 1 : r \notin hits
    <2> HIDE DEF hits
    <2> QED BY <1>1, FirstIs
  <1>3. \A r \in p .. e - 1 : r \in p .. Len(t) - 1
    BY <1>1, <1>2
  <1> HIDE DEF e
  <1> QED BY <1>1, <1>2, <1>3

(* A loop whose turn never goes back comes to a place where a turn goes     *)
(* nowhere, and what every turn keeps holds there.                          *)
Settles(next, n, end) ==
    \A q \in 0 .. n : end[q] = IF next[q] = q THEN q ELSE end[next[q]]

LEMMA SettleIs ==
  ASSUME NEW n \in Nat, NEW next \in [0 .. n -> 0 .. n], \A q \in 0 .. n : next[q] >= q,
         NEW T, \A q \in 0 .. n : q \in T => next[q] \in T,
         NEW p \in 0 .. n, p \in T
  PROVE  /\ Settle(next, p) \in p .. n /\ next[Settle(next, p)] = Settle(next, p)
         /\ Settle(next, p) \in T
  <1> DEFINE Partial(g, k) ==
               \A q \in n - k .. n : g[q] = IF next[q] = q THEN q ELSE g[next[q]]
             B == {k \in 0 .. n : \E g \in [n - k .. n -> 0 .. n] : Partial(g, k)}
  <1>1. 0 \in B
    <2> DEFINE g == [q \in n - 0 .. n |-> q]
    <2>1. n - 0 .. n = {n} /\ next[n] = n /\ n \in 0 .. n
      OBVIOUS
    <2>2. g \in [n - 0 .. n -> 0 .. n]
      BY <2>1
    <2>3. Partial(g, 0)
      BY <2>1
    <2>4. 0 \in 0 .. n
      OBVIOUS
    <2> HIDE DEF Partial, g
    <2> QED BY <2>2, <2>3, <2>4
  <1>2. ASSUME NEW k \in 0 .. n - 1, k \in B PROVE k + 1 \in B
    <2>1. PICK g \in [n - k .. n -> 0 .. n] : Partial(g, k)
      BY <1>2
    <2> DEFINE m == n - (k + 1)
               value == IF next[m] = m THEN m ELSE g[next[m]]
               h == [q \in m .. n |-> IF q = m THEN value ELSE g[q]]
    <2>2. m \in 0 .. n /\ m \in Nat /\ m + 1 = n - k /\ next[m] \in m .. n
      <3>1. m \in 0 .. n /\ m \in Nat /\ m + 1 = n - k
        BY StepBack
      <3> HIDE DEF m
      <3>2. next[m] \in 0 .. n /\ next[m] >= m
        BY <3>1
      <3> QED BY <3>1, <3>2
    <2>3. value \in 0 .. n
      <3>1. CASE next[m] = m
        BY <2>2, <3>1
      <3>2. CASE next[m] # m
        <4>1. next[m] \in n - k .. n
          <5>1. m \in Int /\ n \in Int
            BY <2>2
          <5> HIDE DEF m
          <5>2. next[m] \in m + 1 .. n
            BY <2>2, <3>2, <5>1, Beyond
          <5> QED BY <2>2, <5>2
        <4>2. g[next[m]] \in 0 .. n
          BY <2>1, <4>1
        <4> QED BY <3>2, <4>2
      <3> QED BY <3>1, <3>2
    <2>4. h \in [m .. n -> 0 .. n]
      <3>1. \A q \in m .. n : q # m => q \in n - k .. n
        <4>1. m \in Int /\ n \in Int
          BY <2>2
        <4> HIDE DEF m
        <4>2. \A q \in m .. n : q # m => q \in m + 1 .. n
          BY <4>1, Beyond
        <4> QED BY <2>2, <4>2
      <3>2. \A q \in m .. n : q # m => g[q] \in 0 .. n
        BY <2>1, <3>1
      <3> HIDE DEF m, value
      <3> QED BY <2>3, <3>2
    <2>5. ASSUME NEW q \in m .. n PROVE h[q] = IF next[q] = q THEN q ELSE h[next[q]]
      <3>1. next[q] \in q .. n /\ q \in 0 .. n
        BY <2>2
      <3>2. CASE q = m
        <4>1. h[q] = value
          BY <3>2
        <4>2. CASE next[m] = m
          BY <3>2, <4>1, <4>2
        <4>3. CASE next[m] # m
          <5>1. next[m] \in m .. n /\ h[next[m]] = g[next[m]]
            BY <2>2, <4>3
          <5> QED BY <3>2, <4>1, <4>3, <5>1
        <4> QED BY <4>2, <4>3
      <3>3. CASE q # m
        <4>1. q \in n - k .. n /\ next[q] \in m .. n /\ next[q] # m
          <5>1. m \in Int /\ n \in Int
            BY <2>2
          <5>2. q \in m + 1 .. n /\ next[q] \in m .. n
            BY <3>1, <3>3, <5>1, Beyond, Onward
          <5> HIDE DEF m
          <5>3. q \in Int /\ next[q] \in Int /\ q > m /\ next[q] >= q
            BY <3>1, <5>1, <5>2
          <5>4. next[q] # m
            BY <5>1, <5>3
          <5> QED BY <2>2, <5>2, <5>4
        <4>2. h[q] = g[q] /\ h[next[q]] = g[next[q]]
          BY <3>3, <4>1
        <4>3. g[q] = IF next[q] = q THEN q ELSE g[next[q]]
          BY <2>1, <4>1
        <4> HIDE DEF h
        <4> QED BY <4>2, <4>3
      <3> QED BY <3>2, <3>3
    <2>6. h \in [n - (k + 1) .. n -> 0 .. n] /\ Partial(h, k + 1)
      BY <2>4, <2>5
    <2>7. k + 1 \in 0 .. n
      OBVIOUS
    <2> HIDE DEF Partial, h
    <2> QED BY <2>6, <2>7
  <1>3. n \in B
    <2> HIDE DEF B
    <2>1. 0 .. n \subseteq B
      BY <1>1, <1>2, InductionUpTo
    <2> QED BY <2>1
  <1>4. PICK g \in [0 .. n -> 0 .. n] : Settles(next, n, g)
    <2>1. n - n = 0
      OBVIOUS
    <2> QED BY <1>3, <2>1 DEF Settles
  <1> DEFINE Body(f) == [q \in DOMAIN next |-> IF next[q] = q THEN q ELSE f[next[q]]]
             end == CHOOSE f : f = Body(f)
  <1>5. Settle(next, p) = end[p]
    BY DEF Settle
  <1>6. DOMAIN next = 0 .. n
    OBVIOUS
  <1>7. g = Body(g)
    BY <1>4, <1>6 DEF Settles
  <1>8. end = Body(end)
    <2> HIDE DEF Body
    <2> QED BY <1>7
  <1>9. Settles(next, n, end)
    <2> HIDE DEF end
    <2> QED BY <1>6, <1>8 DEF Settles
  <1> HIDE DEF end
  <1> DEFINE Good(q) == end[q] \in q .. n /\ next[end[q]] = end[q] /\ (q \in T => end[q] \in T)
             C == {k \in 0 .. n : \A q \in n - k .. n : Good(q)}
  <1>10. 0 \in C
    <2>1. n - 0 .. n = {n} /\ next[n] = n /\ n \in 0 .. n
      OBVIOUS
    <2>2. end[n] = n
      BY <1>9, <2>1 DEF Settles
    <2>3. n \in n .. n
      OBVIOUS
    <2>4. Good(n)
      BY <2>1, <2>2, <2>3
    <2> HIDE DEF Good
    <2> QED BY <2>1, <2>4
  <1>11. ASSUME NEW k \in 0 .. n - 1, k \in C PROVE k + 1 \in C
    <2> DEFINE m == n - (k + 1)
    <2>1. m \in 0 .. n /\ m \in Nat /\ m + 1 = n - k /\ next[m] \in m .. n /\ k + 1 \in 0 .. n
      <3>1. m \in 0 .. n /\ m \in Nat /\ m + 1 = n - k /\ k + 1 \in 0 .. n
        BY StepBack
      <3> HIDE DEF m
      <3>2. next[m] \in 0 .. n /\ next[m] >= m
        BY <3>1
      <3> QED BY <3>1, <3>2
    <2>2. \A q \in n - k .. n : Good(q)
      BY <1>11
    <2>3. end[m] = IF next[m] = m THEN m ELSE end[next[m]]
      BY <1>9, <2>1 DEF Settles
    <2>4. Good(m)
      <3>1. CASE next[m] = m
        BY <2>1, <2>3, <3>1
      <3>2. CASE next[m] # m
        <4>1. next[m] \in n - k .. n
          <5>1. m \in Int /\ n \in Int
            BY <2>1
          <5> HIDE DEF m
          <5>2. next[m] \in m + 1 .. n
            BY <2>1, <3>2, <5>1, Beyond
          <5> QED BY <2>1, <5>2
        <4>2. Good(next[m])
          BY <2>2, <4>1
        <4>3. end[m] = end[next[m]] /\ (m \in T => next[m] \in T)
          BY <2>1, <2>3, <3>2
        <4>4. end[m] \in m .. n
          <5>1. end[m] \in next[m] .. n
            BY <4>2, <4>3
          <5>2. n \in Int /\ m \in Int
            BY <2>1
          <5> HIDE DEF m
          <5> QED BY <2>1, <5>1, <5>2, Onward
        <4> QED BY <4>2, <4>3, <4>4
      <3> QED BY <3>1, <3>2
    <2>5. \A q \in n - (k + 1) .. n : q = m \/ q \in n - k .. n
      BY <2>1
    <2> HIDE DEF Good, m
    <2> QED BY <2>1, <2>2, <2>4, <2>5
  <1>12. p \in n - n .. n /\ n \in C
    <2> HIDE DEF C
    <2>1. 0 .. n \subseteq C
      BY <1>10, <1>11, InductionUpTo
    <2> QED BY <2>1
  <1>13. Good(p)
    <2> HIDE DEF Good
    <2> QED BY <1>12
  <1> QED BY <1>5, <1>13

-----------------------------------------------------------------------------
(* Blanks and comments. *)

LEMMA CloserInside ==
  ASSUME NEW t \in Text, NEW q \in 0 .. Len(t), CloserAt(t, q)
  PROVE  q + 2 <= Len(t)
  <1>1. Len(t) \in Nat /\ Len(<<"*", "/">>) = 2
    BY TextLen
  <1> QED BY <1>1, TwoAre DEF CloserAt

LEMMA SignInside ==
  ASSUME NEW t \in Text, NEW q \in 0 .. Len(t), Slice(t, q, q + 2) \in {LineSign, BlockSign}
  PROVE  /\ q + 2 <= Len(t) /\ At(t, q) = "/"
         /\ Slice(t, q, q + 2) = LineSign => At(t, q + 1) = "/"
         /\ Slice(t, q, q + 2) = BlockSign => At(t, q + 1) = "*"
  <1>1. Len(t) \in Nat /\ q \in Nat /\ Len(Slice(t, q, q + 2)) = 2
    BY TextLen DEF LineSign, BlockSign
  <1>2. q + 2 <= Len(t)
    <2> DEFINE n == Len(t)
               size == Len(Slice(t, q, q + 2))
    <2>1. q + 2 > n => size < 2
      BY TwoAre
    <2>2. n \in Nat /\ q \in Nat /\ size = 2
      BY <1>1
    <2>3. q + 2 <= n
      <3> HIDE DEF n, size
      <3> QED BY <2>1, <2>2
    <2> QED BY <2>3
  <1>3. Slice(t, q, q + 2) = <<At(t, q), At(t, q + 1)>>
    BY <1>2, TwoAre
  <1> QED BY <1>2, <1>3 DEF LineSign, BlockSign

LEMMA CommentEndIs ==
  ASSUME NEW t \in Text, NEW p \in 0 .. Len(t), p + 2 <= Len(t)
  PROVE  /\ CommentEnd(t, p) \in p + 2 .. Len(t)
         /\ \/ /\ CommentEnd(t, p) >= p + 4 /\ CloserAt(t, CommentEnd(t, p) - 2)
               /\ \A r \in p + 2 .. CommentEnd(t, p) - 3 : ~CloserAt(t, r)
            \/ CommentEnd(t, p) = Len(t) /\ \A r \in p + 2 .. Len(t) : ~CloserAt(t, r)
  <1> DEFINE n == Len(t)
             hits == {r \in p + 2 .. n - 1 : CloserAt(t, r)}
             q == First(n, p + 2, hits)
  <1>1. n \in Nat /\ p \in Nat /\ p + 2 <= n /\ p + 2 \in 0 .. n
    BY TextLen
  <1>2. CommentEnd(t, p) = IF q + 2 <= n THEN q + 2 ELSE n
    BY DEF CommentEnd
  <1>3. /\ q \in p + 2 .. n /\ (q = n \/ q \in hits)
        /\ \A r \in p + 2 .. q - 1 : r \notin hits
    <2> HIDE DEF hits, n
    <2> QED BY <1>1, FirstIs
  <1> HIDE DEF q, n
  <1>4. q \in Nat /\ q >= p + 2 /\ q <= n /\ \A r \in p + 2 .. q - 1 : r \in p + 2 .. n - 1
    BY <1>1, <1>3
  <1>5. \A r \in p + 2 .. q - 1 : ~CloserAt(t, r)
    BY <1>3, <1>4
  <1> USE DEF n
  <1>6. CASE q = n
    <2>1. \A r \in p + 2 .. n : r = n \/ r \in p + 2 .. q - 1
      BY <1>1, <1>6
    <2>2. ~CloserAt(t, n)
      <3>1. n \in 0 .. Len(t) /\ ~(n + 2 <= Len(t)) /\ n = Len(t)
        BY <1>1
      <3> QED BY <3>1, CloserInside
    <2>3. CommentEnd(t, p) = n /\ n \in p + 2 .. n
      BY <1>1, <1>2, <1>6
    <2>4. \A r \in p + 2 .. n : ~CloserAt(t, r)
      BY <1>5, <2>1, <2>2
    <2> QED BY <2>3, <2>4
  <1>7. CASE q \in hits
    <2>1. CloserAt(t, q) /\ q \in 0 .. Len(t)
      BY <1>1, <1>4, <1>7
    <2>2. q + 2 <= n
      BY <2>1, CloserInside
    <2>3. CommentEnd(t, p) = q + 2
      BY <1>2, <2>2
    <2>4. (q + 2) - 2 = q /\ (q + 2) - 3 = q - 1 /\ q + 2 >= p + 4 /\ q + 2 \in p + 2 .. n
      BY <1>1, <1>4, <2>2
    <2> QED BY <1>5, <2>1, <2>3, <2>4
  <1> QED BY <1>3, <1>6, <1>7

LEMMA GapEmpty ==
  ASSUME NEW t, NEW p \in Nat
  PROVE  IsGap(t, p, p)
  <1>1. {p} \in SUBSET (p .. p)
    OBVIOUS
  <1> QED BY <1>1 DEF IsGap

LEMMA GapGrows ==
  ASSUME NEW t, NEW p \in Nat, NEW c \in Nat, NEW d \in Nat, p <= c, c < d,
         IsGap(t, p, c), IsPiece(t, c, d)
  PROVE  IsGap(t, p, d)
  <1>1. PICK cuts \in SUBSET (p .. c) :
           /\ {p, c} \subseteq cuts
           /\ \A i \in cuts \ {c} : \E j \in cuts :
                 i < j /\ IsPiece(t, i, j) /\ \A k \in cuts : k <= i \/ j <= k
    BY DEF IsGap
  <1> DEFINE more == cuts \cup {d}
  <1>2. more \in SUBSET (p .. d) /\ {p, d} \subseteq more
    BY <1>1
  <1>3. ASSUME NEW i \in more \ {d}
        PROVE  \E j \in more : i < j /\ IsPiece(t, i, j) /\ \A k \in more : k <= i \/ j <= k
    <2>1. CASE i = c
      <3>1. \A k \in more : k <= c \/ d <= k
        OBVIOUS
      <3> QED BY <2>1, <3>1
    <2>2. CASE i # c
      <3>1. PICK j \in cuts :
               i < j /\ IsPiece(t, i, j) /\ \A k \in cuts : k <= i \/ j <= k
        BY <1>1, <2>2
      <3>2. j <= d
        OBVIOUS
      <3> QED BY <3>1, <3>2
    <2> QED BY <2>1, <2>2
  <1> HIDE DEF more
  <1> QED BY <1>2, <1>3 DEF IsGap

(* What a slice opens with, and what ends in it, in places of the text.     *)
LEMMA OpensIs ==
  ASSUME NEW t \in Text, NEW c \in 0 .. Len(t), NEW d \in c .. Len(t), c + 2 <= d
  PROVE  Opens(Slice(t, c, d)) = Slice(t, c, c + 2)
  <1>1. 0 \in 0 .. d - c /\ 2 \in 0 .. d - c /\ c + 0 = c
    BY TextLen
  <1>2. Slice(Slice(t, c, d), 0, 2) = Slice(t, c + 0, c + 2)
    BY <1>1, SliceOfSlice
  <1> QED BY <1>1, <1>2 DEF Opens

LEMMA LineEndsAre ==
  ASSUME NEW t \in Text, NEW c \in 0 .. Len(t), NEW d \in c .. Len(t)
  PROVE  LineEnds(Slice(t, c, d)) = {i \in 0 .. d - c - 1 : At(t, c + i) = "\n"}
  <1>1. Len(Slice(t, c, d)) = d - c
    BY SliceIs
  <1>2. \A i \in 0 .. d - c - 1 : At(Slice(t, c, d), i) = At(t, c + i)
    BY SliceIs
  <1> QED BY <1>1, <1>2 DEF LineEnds

LEMMA BlockEndsAre ==
  ASSUME NEW t \in Text, NEW c \in 0 .. Len(t), NEW d \in c .. Len(t)
  PROVE  BlockEnds(Slice(t, c, d)) = {i \in 2 .. d - c - 2 : CloserAt(t, c + i)}
  <1> DEFINE s == Slice(t, c, d)
             n == d - c
  <1>1. s \in Text /\ Len(s) = n /\ n \in Nat
    BY SliceIs, TextLen
  <1>2. ASSUME NEW i \in 2 .. n, i + 2 > n PROVE ~CloserAt(s, i)
    <2>1. i \in 0 .. Len(s) /\ ~(i + 2 <= Len(s))
      BY <1>1, <1>2
    <2> HIDE DEF s
    <2> QED BY <1>1, <2>1, CloserInside
  <1>3. ASSUME NEW i \in 2 .. n, i + 2 <= n PROVE CloserAt(s, i) <=> CloserAt(t, c + i)
    <2>1. i \in 0 .. d - c /\ i + 2 \in i .. d - c /\ c + (i + 2) = (c + i) + 2
      BY <1>1, <1>3
    <2>2. Slice(s, i, i + 2) = Slice(t, c + i, c + (i + 2))
      BY <2>1, SliceOfSlice
    <2> QED BY <2>1, <2>2 DEF CloserAt
  <1>4. \A i \in 2 .. n : i + 2 <= n <=> i \in 2 .. n - 2
    BY <1>1
  <1>5. \A i \in 2 .. n - 2 : i \in 2 .. n
    BY <1>1
  <1>6. BlockEnds(s) = {i \in 2 .. n : CloserAt(s, i)}
    BY <1>1 DEF BlockEnds, CloserAt
  <1>7. \A i \in 2 .. n : i + 2 > n \/ i + 2 <= n
    BY <1>1
  <1> HIDE DEF s, n
  <1>8. \A i : i \in BlockEnds(s) <=> i \in 2 .. n - 2 /\ CloserAt(t, c + i)
    BY <1>2, <1>3, <1>4, <1>5, <1>6, <1>7
  <1> QED BY <1>8 DEF s, n

(* One turn of the loop: from p up to q there are blanks and comments, or a *)
(* line comment of which the line end is still to come.                     *)
LineUpTo(t, c, q) ==
    /\ c + 2 <= q /\ Slice(t, c, c + 2) = LineSign
    /\ \A r \in c .. q - 1 : At(t, r) # "\n"
Skipped(t, p, q) ==
    \/ IsGap(t, p, q)
    \/ At(t, q) = "\n" /\ \E c \in p .. q : IsGap(t, p, c) /\ LineUpTo(t, c, q)

LEMMA LineIsPiece ==
  ASSUME NEW t \in Text, NEW c \in 0 .. Len(t), NEW q \in c .. Len(t), LineUpTo(t, c, q)
  PROVE  /\ At(t, q) = "\n" /\ q < Len(t) => IsPiece(t, c, q + 1)
         /\ q = Len(t) => IsPiece(t, c, q)
  <1>1. Len(t) \in Nat /\ c \in Nat /\ q \in Nat /\ c + 2 <= q /\ q <= Len(t)
    BY TextLen DEF LineUpTo
  <1>2. \A i \in 0 .. q - c - 1 : At(t, c + i) # "\n"
    <2>1. \A i \in 0 .. q - c - 1 : c + i \in c .. q - 1
      BY <1>1
    <2> QED BY <2>1 DEF LineUpTo
  <1>3. CASE At(t, q) = "\n" /\ q < Len(t)
    <2> DEFINE d == q + 1
               s == Slice(t, c, d)
    <2>1. d \in c .. Len(t) /\ c + 2 <= d /\ d - c = q - c + 1
      BY <1>1, <1>3
    <2>2. Opens(s) = LineSign
      <3> HIDE DEF d
      <3> QED BY <2>1, OpensIs DEF LineUpTo
    <2>3. LineEnds(s) = {i \in 0 .. d - c - 1 : At(t, c + i) = "\n"} /\ Len(s) = d - c
      <3> HIDE DEF d
      <3> QED BY <2>1, LineEndsAre, SliceIs
    <2>4. \A i \in 0 .. d - c - 1 : i = q - c \/ i \in 0 .. q - c - 1
      BY <1>1
    <2>5. q - c \in 0 .. d - c - 1 /\ c + (q - c) = q /\ q - c = (d - c) - 1
      BY <1>1
    <2>6. LineEnds(s) = {Len(s) - 1}
      <3> HIDE DEF d
      <3> QED BY <1>2, <1>3, <2>3, <2>4, <2>5
    <2> QED BY <1>1, <1>3, <2>2, <2>6 DEF IsPiece, IsComment
  <1>4. CASE q = Len(t)
    <2>1. Opens(Slice(t, c, q)) = LineSign
      BY <1>1, OpensIs DEF LineUpTo
    <2>2. LineEnds(Slice(t, c, q)) = {}
      BY <1>2, LineEndsAre
    <2> QED BY <1>1, <1>4, <2>1, <2>2 DEF IsPiece, IsOpenComment
  <1> QED BY <1>1, <1>3, <1>4

LEMMA BlockIsPiece ==
  ASSUME NEW t \in Text, NEW c \in 0 .. Len(t), Slice(t, c, c + 2) = BlockSign
  PROVE  /\ CommentEnd(t, c) \in c + 2 .. Len(t) /\ IsPiece(t, c, CommentEnd(t, c))
  <1> DEFINE d == CommentEnd(t, c)
             s == Slice(t, c, d)
  <1>1. Len(t) \in Nat /\ c \in Nat /\ c + 2 <= Len(t)
    BY TextLen, SignInside
  <1>2. /\ d \in c + 2 .. Len(t)
        /\ \/ /\ d >= c + 4 /\ CloserAt(t, d - 2)
              /\ \A r \in c + 2 .. d - 3 : ~CloserAt(t, r)
           \/ d = Len(t) /\ \A r \in c + 2 .. Len(t) : ~CloserAt(t, r)
    BY <1>1, CommentEndIs
  <1> HIDE DEF d
  <1>3. d \in Nat /\ d \in c .. Len(t) /\ c + 2 <= d /\ d <= Len(t)
    BY <1>1, <1>2
  <1>4. Opens(s) = BlockSign
    BY <1>3, OpensIs
  <1>5. BlockEnds(s) = {i \in 2 .. d - c - 2 : CloserAt(t, c + i)} /\ Len(s) = d - c
    BY <1>3, BlockEndsAre, SliceIs
  <1> HIDE DEF s
  <1>6. CASE d >= c + 4 /\ CloserAt(t, d - 2) /\ \A r \in c + 2 .. d - 3 : ~CloserAt(t, r)
    <2>1. \A i \in 2 .. d - c - 2 : i = d - c - 2 \/ c + i \in c + 2 .. d - 3
      BY <1>1, <1>3
    <2>2. d - c - 2 \in 2 .. d - c - 2 /\ c + (d - c - 2) = d - 2
      BY <1>1, <1>3, <1>6
    <2>3. BlockEnds(s) = {Len(s) - 2}
      BY <1>5, <1>6, <2>1, <2>2
    <2> QED BY <1>2, <1>4, <2>3 DEF IsPiece, IsComment, s, d
  <1>7. CASE d = Len(t) /\ \A r \in c + 2 .. Len(t) : ~CloserAt(t, r)
    <2>1. \A i \in 2 .. d - c - 2 : c + i \in c + 2 .. Len(t)
      BY <1>1, <1>3
    <2>2. BlockEnds(s) = {}
      BY <1>5, <1>7, <2>1
    <2> QED BY <1>2, <1>4, <1>7, <2>2 DEF IsPiece, IsOpenComment, s, d
  <1> QED BY <1>2, <1>6, <1>7

LEMMA SkipKeeps ==
  ASSUME NEW t \in Text, NEW p \in 0 .. Len(t), NEW q \in p .. Len(t), Skipped(t, p, q)
  PROVE  Skip(t, q) \in q .. Len(t) /\ Skipped(t, p, Skip(t, q))
  <1>1. Len(t) \in Nat /\ p \in Nat /\ q \in Nat /\ p <= q /\ q <= Len(t) /\ q \in 0 .. Len(t)
    BY TextLen
  <1>2. CASE At(t, q) \in Blanks
    <2>1. q < Len(t) /\ Skip(t, q) = q + 1 /\ q + 1 \in q .. Len(t)
      <3>1. q < Len(t)
        BY <1>1, <1>2 DEF At, Blanks
      <3>2. Skip(t, q) = q + 1
        BY <1>2 DEF Skip
      <3> QED BY <1>1, <3>1, <3>2
    <2>2. CASE IsGap(t, p, q)
      <3>1. IsPiece(t, q, q + 1)
        BY <1>2 DEF IsPiece
      <3> QED BY <1>1, <2>1, <2>2, <3>1, GapGrows DEF Skipped
    <2>3. ASSUME At(t, q) = "\n", NEW c \in p .. q, IsGap(t, p, c), LineUpTo(t, c, q)
          PROVE  Skipped(t, p, Skip(t, q))
      <3>1. c \in 0 .. Len(t) /\ q \in c .. Len(t) /\ c \in Nat /\ p <= c /\ c < q + 1
        BY <1>1
      <3>2. IsPiece(t, c, q + 1)
        BY <2>1, <2>3, <3>1, LineIsPiece
      <3> QED BY <1>1, <2>1, <2>3, <3>1, <3>2, GapGrows DEF Skipped
    <2> QED BY <2>1, <2>2, <2>3 DEF Skipped
  <1>3. CASE At(t, q) \notin Blanks
    <2>1. IsGap(t, p, q)
      BY <1>3 DEF Skipped, Blanks
    <2>2. CASE Slice(t, q, q + 2) = LineSign
      <3> DEFINE hits == {r \in q .. Len(t) - 1 : At(t, r) = "\n"}
                 e == First(Len(t), q, hits)
      <3>1. Skip(t, q) = e
        BY <1>3, <2>2 DEF Skip, LineSign
      <3>2. /\ e \in q .. Len(t) /\ (e = Len(t) \/ e \in hits)
            /\ \A r \in q .. e - 1 : r \notin hits
        <4> HIDE DEF hits
        <4> QED BY <1>1, FirstIs
      <3>3. q + 2 <= Len(t) /\ At(t, q) = "/" /\ At(t, q + 1) = "/"
        BY <2>2, SignInside
      <3> HIDE DEF e
      <3>4. e \in Nat /\ \A r \in q .. e - 1 : r \in q .. Len(t) - 1
        BY <1>1, <3>2
      <3>5. e # q /\ e # q + 1
        BY <1>1, <3>2, <3>3
      <3>6. LineUpTo(t, q, e)
        BY <1>1, <2>2, <3>2, <3>4, <3>5 DEF LineUpTo
      <3>7. CASE e = Len(t)
        <4>1. IsPiece(t, q, e)
          BY <1>1, <3>2, <3>6, <3>7, LineIsPiece
        <4> QED BY <1>1, <2>1, <3>1, <3>2, <3>4, <3>6, <4>1, GapGrows DEF Skipped, LineUpTo
      <3>8. CASE e \in hits
        <4>1. At(t, e) = "\n" /\ q \in p .. e
          BY <1>1, <3>2, <3>8
        <4> QED BY <2>1, <3>1, <3>2, <3>6, <4>1 DEF Skipped
      <3> QED BY <3>2, <3>7, <3>8
    <2>3. CASE Slice(t, q, q + 2) = BlockSign
      <3>1. Skip(t, q) = CommentEnd(t, q)
        BY <1>3, <2>3 DEF Skip, LineSign, BlockSign
      <3>2. CommentEnd(t, q) \in q + 2 .. Len(t) /\ IsPiece(t, q, CommentEnd(t, q))
        BY <1>1, <2>3, BlockIsPiece
      <3>3. CommentEnd(t, q) \in Nat /\ q < CommentEnd(t, q) /\ CommentEnd(t, q) \in q .. Len(t)
        BY <1>1, <3>2
      <3> QED BY <1>1, <2>1, <3>1, <3>2, <3>3, GapGrows DEF Skipped
    <2>4. CASE Slice(t, q, q + 2) \notin {LineSign, BlockSign}
      <3>1. Skip(t, q) = q
        BY <1>3, <2>4 DEF Skip, LineSign, BlockSign
      <3> QED BY <1>1, <2>1, <3>1 DEF Skipped
    <2> QED BY <2>2, <2>3, <2>4
  <1> QED BY <1>2, <1>3

(* skip_whitespace_and_comments skips a gap, and all of it.                 *)
LEMMA SkipToIs ==
  ASSUME NEW t \in Text, NEW p \in 0 .. Len(t)
  PROVE  /\ SkipTo(t, p) \in p .. Len(t) /\ IsGap(t, p, SkipTo(t, p))
         /\ At(t, SkipTo(t, p)) \notin Blanks
         /\ Slice(t, SkipTo(t, p), SkipTo(t, p) + 2) \notin {LineSign, BlockSign}
  <1> DEFINE n == Len(t)
             next == [q \in 0 .. n |-> Skip(t, q)]
             T == {q \in p .. n : Skipped(t, p, q)}
             e == SkipTo(t, p)
  <1>1. n \in Nat /\ p \in Nat /\ p <= n
    BY TextLen
  <1>2. \A q \in 0 .. n : Skip(t, q) \in q .. n
    <2>1. \A q \in 0 .. n : Skipped(t, q, q) /\ q \in q .. n
      BY <1>1, GapEmpty DEF Skipped
    <2> QED BY <2>1, SkipKeeps
  <1>3. next \in [0 .. n -> 0 .. n] /\ \A q \in 0 .. n : next[q] >= q
    BY <1>1, <1>2
  <1>4. \A q \in 0 .. n : q \in T => next[q] \in T
    <2> SUFFICES ASSUME NEW q \in p .. n, Skipped(t, p, q) PROVE next[q] \in T
      OBVIOUS
    <2>1. Skip(t, q) \in q .. n /\ Skipped(t, p, Skip(t, q))
      BY SkipKeeps
    <2>2. next[q] = Skip(t, q) /\ Skip(t, q) \in p .. n
      BY <1>1, <2>1
    <2> QED BY <2>1, <2>2
  <1>5. p \in T /\ p \in 0 .. n
    BY <1>1, GapEmpty DEF Skipped
  <1>6. e \in p .. n /\ next[e] = e /\ e \in T
    <2>1. e = Settle(next, p)
      BY DEF SkipTo
    <2> HIDE DEF next, T, n, e
    <2> QED BY <1>1, <1>3, <1>4, <1>5, <2>1, SettleIs
  <1> HIDE DEF e
  <1>7. Skip(t, e) = e /\ Skipped(t, p, e) /\ e \in 0 .. n /\ e \in Nat
    BY <1>1, <1>6
  <1>8. At(t, e) \notin Blanks
    BY <1>7 DEF Skip
  <1>9. Slice(t, e, e + 2) # BlockSign
    <2> SUFFICES ASSUME Slice(t, e, e + 2) = BlockSign PROVE FALSE
      OBVIOUS
    <2>1. Skip(t, e) = CommentEnd(t, e)
      BY <1>8 DEF Skip, BlockSign
    <2>2. CommentEnd(t, e) \in e + 2 .. n
      BY <1>7, BlockIsPiece
    <2>3. e \in e + 2 .. n
      BY <1>7, <2>1, <2>2
    <2> QED BY <1>1, <1>7, <2>3
  <1>10. Slice(t, e, e + 2) # LineSign
    <2> SUFFICES ASSUME Slice(t, e, e + 2) = LineSign PROVE FALSE
      OBVIOUS
    <2> DEFINE hits == {r \in e .. n - 1 : At(t, r) = "\n"}
    <2>1. First(n, e, hits) = e
      BY <1>7, <1>8 DEF Skip, LineSign
    <2>2. e = n \/ e \in hits
      <3> HIDE DEF hits, n
      <3> QED BY <1>1, <1>7, <2>1, FirstIs
    <2>3. e + 2 <= n /\ At(t, e) = "/"
      BY <1>7, SignInside
    <2> QED BY <1>1, <1>7, <2>2, <2>3
  <1>11. IsGap(t, p, e)
    BY <1>7, <1>8 DEF Skipped, Blanks
  <1> QED BY <1>6, <1>8, <1>9, <1>10, <1>11 DEF e

-----------------------------------------------------------------------------
(* What a lexeme is follows from its first character.                       *)

LEMMA CharactersDiffer ==
  /\ Letters \cap Digits = {} /\ Quote \notin Letters \cup Digits /\ Quote # Backslash
  /\ "." \notin Digits /\ "e" \notin Digits /\ "E" \notin Digits
  /\ "." \notin {"e", "E"} /\ "+" \notin Digits /\ "-" \notin Digits /\ "" \notin Digits
  BY DEF Letters, Digits, Quote, Backslash

LEMMA LexiconIs ==
  /\ DOMAIN Lexicon = KeywordTexts \cup OperatorTexts
  /\ \A s \in DOMAIN Lexicon : Lexicon[s] \in Keywords \cup Operators
  /\ {"eof", "error", "ident", "int", "float", "string"} \cap (Keywords \cup Operators) = {}
  <1>1. DOMAIN Lexicon = KeywordTexts \cup OperatorTexts
    BY DEF Lexicon
  <1>2. ASSUME NEW s \in KeywordTexts \cup OperatorTexts
        PROVE  Lexicon[s] \in Keywords \cup Operators
    <2>1. PICK w \in Keywords \cup Operators : Spell(w) = s
      BY DEF KeywordTexts, OperatorTexts
    <2>2. Lexicon[s] = CHOOSE v \in Keywords \cup Operators : Spell(v) = s
      BY DEF Lexicon
    <2> QED BY <2>1, <2>2
  <1>3. {"eof", "error", "ident", "int", "float", "string"} \cap (Keywords \cup Operators) = {}
    BY DEF Keywords, Operators, PrimitiveWords
  <1> QED BY <1>1, <1>2, <1>3

LEMMA DigitsAreNumber ==
  ASSUME NEW s \in Text, IsDigits(s)
  PROVE  At(s, 0) \in Digits /\ IsNumber(s)
  <1>1. Len(s) \in Nat /\ Len(s) # 0 /\ AreDigits(s, 0, Len(s))
    BY TextLen DEF IsDigits, Text
  <1>2. Len(s) \in {n \in 1 .. Len(s) : AreDigits(s, 0, n)} /\ Len(s) \in Len(s) .. Len(s)
    BY <1>1
  <1>3. IsNumber(s)
    BY <1>2 DEF IsNumber, ExponentDigits
  <1>4. 0 \in 0 .. Len(s) - 1
    BY <1>1
  <1> QED BY <1>1, <1>3, <1>4 DEF AreDigits

LEMMA NumberOpens ==
  ASSUME NEW s \in Text, IsNumber(s)
  PROVE  At(s, 0) \in Digits
  <1>1. PICK i \in 1 .. Len(s) : AreDigits(s, 0, i)
    BY DEF IsNumber, ExponentDigits
  <1>2. 0 \in 0 .. i - 1
    BY TextLen
  <1> QED BY <1>1, <1>2 DEF AreDigits

LEMMA LexemesAreTaken ==
  ASSUME NEW s \in Text
  PROVE  (IsFloat(s) => IsNumber(s)) /\ (IsString(s) => IsQuoted(s))
  <1>1. ASSUME IsFloat(s) PROVE IsNumber(s)
    <2>1. PICK i \in {n \in 1 .. Len(s) : AreDigits(s, 0, n)} : \E j \in i + 2 .. Len(s) :
             /\ At(s, i) = "." /\ AreDigits(s, i + 1, j)
             /\ j # Len(s) => /\ At(s, j) \in {"e", "E"} /\ ExponentDigits(s, j) < Len(s)
                              /\ AreDigits(s, ExponentDigits(s, j), Len(s))
      BY <1>1 DEF IsFloat
    <2>2. PICK j \in i + 2 .. Len(s) :
             /\ At(s, i) = "." /\ AreDigits(s, i + 1, j)
             /\ j # Len(s) => /\ At(s, j) \in {"e", "E"}
                              /\ AreDigits(s, ExponentDigits(s, j), Len(s))
      BY <2>1
    <2>3. Len(s) \in Nat /\ i \in Nat /\ j \in i .. Len(s) /\ i + 2 <= j
      BY <2>1, <2>2, TextLen
    <2> QED BY <2>1, <2>2, <2>3 DEF IsNumber
  <1> QED BY <1>1 DEF IsString

LEMMA LexemeOpens ==
  ASSUME NEW s \in Text, TypesTaken(s) # {}
  PROVE  \/ At(s, 0) \in Letters /\ IsWord(s)
         \/ At(s, 0) \in Digits /\ IsNumber(s)
         \/ At(s, 0) = Quote /\ IsQuoted(s)
         \/ s \in OperatorTexts /\ At(s, 0) \notin Letters \cup Digits \cup {Quote}
  <1>1. \/ s \in KeywordTexts \cup OperatorTexts
        \/ IsWord(s) \/ IsDigits(s) \/ IsNumber(s) \/ IsQuoted(s)
    BY LexiconIs, LexemesAreTaken DEF TypesTaken, TypesOfLexeme
  <1>2. s \in KeywordTexts => IsWord(s)
    BY LexiconAssumption
  <1>3. s \in OperatorTexts => At(s, 0) \notin Letters \cup Digits \cup {Quote}
    BY LexiconAssumption
  <1>4. IsWord(s) => At(s, 0) \in Letters
    BY DEF IsWord
  <1>5. IsDigits(s) => IsNumber(s)
    BY DigitsAreNumber
  <1>6. IsNumber(s) => At(s, 0) \in Digits
    BY NumberOpens
  <1>7. IsQuoted(s) => At(s, 0) = Quote
    BY DEF IsQuoted
  <1> QED BY <1>1, <1>2, <1>3, <1>4, <1>5, <1>6, <1>7

(* What the lexer must find at p: the token up to q, of type x.             *)
Longest(t, p, q) == \A r \in q + 1 .. Len(t) : TypesTaken(Slice(t, p, r)) = {}
TokenAt(t, p, q, x) ==
    /\ q \in p + 1 .. Len(t) /\ x # "eof"
    /\ \/ x # "error" /\ x \in TypesTaken(Slice(t, p, q)) /\ Longest(t, p, q)
       \/ x = "string" /\ q = Len(t) /\ IsOpenString(Slice(t, p, q))
       \/ /\ x = "error" /\ q = p + 1
          /\ TypesTaken(Slice(t, p, q)) = {} /\ Longest(t, p, q)

LEMMA SliceOpens ==
  ASSUME NEW t \in Text, NEW p \in 0 .. Len(t), NEW r \in p + 1 .. Len(t)
  PROVE  /\ Slice(t, p, r) \in Text /\ Len(Slice(t, p, r)) = r - p /\ r \in p .. Len(t)
         /\ At(Slice(t, p, r), 0) = At(t, p)
  <1>1. Len(t) \in Nat /\ p \in Nat /\ r \in p .. Len(t) /\ 0 \in 0 .. r - p - 1 /\ p + 0 = p
    BY TextLen
  <1>2. At(Slice(t, p, r), 0) = At(t, p + 0)
    BY <1>1, SliceIs
  <1> QED BY <1>1, <1>2, SliceIs

-----------------------------------------------------------------------------
(* Words. *)

LEMMA WordToken ==
  ASSUME NEW t \in Text, NEW p \in 0 .. Len(t), p < Len(t), At(t, p) \in Letters
  PROVE  TokenAt(t, p, TokenEnd(t, p), TypeOfToken(t, p, TokenEnd(t, p)))
  <1> DEFINE C == Letters \cup Digits
             q == RunEnd(t, p, C)
             s == Slice(t, p, q)
  <1>1. TokenEnd(t, p) = q
    BY CharactersDiffer DEF TokenEnd
  <1>2. /\ q \in p .. Len(t) /\ (q < Len(t) => At(t, q) \notin C)
        /\ \A r \in p .. q - 1 : At(t, r) \in C
    BY RunEndIs
  <1> HIDE DEF q
  <1>3. Len(t) \in Nat /\ p \in Nat /\ q \in p + 1 .. Len(t)
    BY <1>2, TextLen
  <1>4. s \in Text /\ Len(s) = q - p /\ At(s, 0) = At(t, p)
    BY <1>3, SliceOpens
  <1>5. IsWord(s)
    <2>1. \A i \in 1 .. q - p : s[i] = t[p + i] /\ At(t, p + i - 1) = t[p + i]
      <3>1. \A i \in 1 .. q - p : p + i - 1 < Len(t) /\ p + i - 1 + 1 = p + i
        BY <1>3
      <3>2. \A i \in 1 .. q - p : s[i] = t[p + i]
        BY <1>2, SliceIs
      <3> QED BY <3>1, <3>2 DEF At
    <2>2. \A i \in 1 .. q - p : p + i - 1 \in p .. q - 1
      BY <1>3
    <2>3. \A i \in 1 .. q - p : s[i] \in C
      BY <1>2, <2>1, <2>2
    <2>4. DOMAIN s = 1 .. q - p
      BY <1>4 DEF Text
    <2>5. Chars(s) \subseteq C
      BY <2>3, <2>4 DEF Chars
    <2> QED BY <1>4, <2>5 DEF IsWord
  <1>6. Longest(t, p, q)
    <2> SUFFICES ASSUME NEW r \in q + 1 .. Len(t), TypesTaken(Slice(t, p, r)) # {}
                 PROVE  FALSE
      BY DEF Longest
    <2>1. r \in p + 1 .. Len(t) /\ q < Len(t) /\ q - p \in 0 .. r - p - 1 /\ p + (q - p) = q
      BY <1>3
    <2>2. Slice(t, p, r) \in Text /\ r \in p .. Len(t) /\ At(Slice(t, p, r), 0) = At(t, p)
          /\ Len(Slice(t, p, r)) = r - p
      BY <2>1, SliceOpens
    <2>3. IsWord(Slice(t, p, r))
      BY <2>2, LexemeOpens, CharactersDiffer
    <2>4. At(Slice(t, p, r), q - p) = At(t, p + (q - p))
      BY <2>1, <2>2, SliceIs
    <2>5. At(Slice(t, p, r), q - p) \in Chars(Slice(t, p, r))
      <3> DEFINE u == Slice(t, p, r)
                 k == q - p
      <3>1. u \in Text /\ Len(u) = r - p /\ k \in 0 .. r - p - 1 /\ p \in Nat /\ r \in Nat
        BY <1>3, <2>1, <2>2
      <3> HIDE DEF u, k
      <3>2. Len(u) = r - p
        BY <2>2 DEF u
      <3>3. k < Len(u) /\ k + 1 \in 1 .. Len(u)
        BY <3>1, <3>2
      <3>4. DOMAIN u = 1 .. Len(u)
        BY <3>1 DEF Text
      <3>5. k + 1 \in DOMAIN u /\ At(u, k) = u[k + 1]
        BY <3>3, <3>4 DEF At
      <3>6. At(u, k) \in Chars(u)
        BY <3>5 DEF Chars
      <3> QED BY <3>6 DEF u, k
    <2> QED BY <1>2, <2>1, <2>3, <2>4, <2>5 DEF IsWord
  <1>7. TypeOfToken(t, p, q) = IF s \in DOMAIN Lexicon THEN Lexicon[s] ELSE "ident"
    <2>0. p # Len(t)
      BY TextLen
    <2>1. p # Len(t) /\ At(t, p) \notin Digits /\ At(t, p) # Quote
      BY <2>0, CharactersDiffer
    <2> QED BY <2>1 DEF TypeOfToken
  <1>8. CASE s \in DOMAIN Lexicon
    <2>1. Lexicon[s] \notin {"eof", "error"}
      BY <1>8, LexiconIs
    <2>2. Lexicon[s] \in TypesTaken(s)
      BY <1>8 DEF TypesTaken, TypesOfLexeme
    <2> QED BY <1>1, <1>3, <1>6, <1>7, <1>8, <2>1, <2>2 DEF TokenAt
  <1>9. CASE s \notin DOMAIN Lexicon
    <2>1. "ident" \in TypesTaken(s)
      BY <1>5, <1>9, LexiconIs DEF TypesTaken, TypesOfLexeme
    <2> QED BY <1>1, <1>3, <1>6, <1>7, <1>9, <2>1 DEF TokenAt
  <1> QED BY <1>8, <1>9

-----------------------------------------------------------------------------
(* Operators, and what is no token. *)

LEMMA SignToken ==
  ASSUME NEW t \in Text, NEW p \in 0 .. Len(t), p < Len(t),
         At(t, p) \notin Letters \cup Digits \cup {Quote}
  PROVE  TokenAt(t, p, TokenEnd(t, p), TypeOfToken(t, p, TokenEnd(t, p)))
  <1> DEFINE q == TokenEnd(t, p)
             s == Slice(t, p, q)
  <1>1. q = IF p + 2 <= Len(t) /\ Slice(t, p, p + 2) \in OperatorTexts THEN p + 2 ELSE p + 1
    BY DEF TokenEnd
  <1> HIDE DEF q
  <1>2. Len(t) \in Nat /\ p \in Nat /\ q \in p + 1 .. Len(t) /\ q \in {p + 1, p + 2}
    BY <1>1, TextLen
  <1>3. s \in Text /\ Len(s) = q - p /\ At(s, 0) = At(t, p)
    BY <1>2, SliceOpens
  <1>4. Longest(t, p, q)
    <2> SUFFICES ASSUME NEW r \in q + 1 .. Len(t), TypesTaken(Slice(t, p, r)) # {}
                 PROVE  FALSE
      BY DEF Longest
    <2>1. r \in p + 1 .. Len(t)
      BY <1>2
    <2>2. Slice(t, p, r) \in Text /\ At(Slice(t, p, r), 0) = At(t, p) /\ Len(Slice(t, p, r)) = r - p
      BY <2>1, SliceOpens
    <2>3. Slice(t, p, r) \in OperatorTexts
      BY <2>2, LexemeOpens
    <2>4. r - p \in {1, 2}
      BY <2>2, <2>3, LexiconAssumption
    <2>5. r = p + 2 /\ q = p + 1 /\ p + 2 <= Len(t)
      BY <1>2, <2>4
    <2> QED BY <1>1, <1>2, <2>3, <2>5
  <1>5. TypeOfToken(t, p, q) = IF s \in DOMAIN Lexicon THEN Lexicon[s] ELSE "error"
    BY DEF TypeOfToken
  <1>6. CASE s \in DOMAIN Lexicon
    <2>1. Lexicon[s] \notin {"eof", "error"}
      BY <1>6, LexiconIs
    <2>2. Lexicon[s] \in TypesTaken(s)
      BY <1>6 DEF TypesTaken, TypesOfLexeme
    <2> QED BY <1>2, <1>4, <1>5, <1>6, <2>1, <2>2 DEF TokenAt, q
  <1>7. CASE s \notin DOMAIN Lexicon
    <2>1. q = p + 1
      BY <1>1, <1>7, LexiconIs
    <2>2. TypesTaken(s) = {}
      BY <1>3, <1>7, LexemeOpens, LexiconIs
    <2> QED BY <1>2, <1>4, <1>5, <1>7, <2>1, <2>2 DEF TokenAt, q
  <1> QED BY <1>6, <1>7

-----------------------------------------------------------------------------
(* Numbers. *)

LEMMA AtSlice ==
  ASSUME NEW t \in Text, NEW p \in 0 .. Len(t), NEW r \in p .. Len(t), NEW x \in Nat
  PROVE  At(Slice(t, p, r), x) = IF p + x < r THEN At(t, p + x) ELSE ""
  <1>1. Len(t) \in Nat /\ p \in Nat /\ r \in Nat /\ Len(Slice(t, p, r)) = r - p
    BY TextLen, SliceIs
  <1>2. CASE p + x < r
    <2>1. x \in 0 .. r - p - 1
      BY <1>1, <1>2
    <2> QED BY <1>2, <2>1, SliceIs
  <1>3. CASE ~(p + x < r)
    <2>1. ~(x < r - p)
      BY <1>1, <1>3
    <2> QED BY <1>1, <1>3, <2>1 DEF At
  <1> QED BY <1>2, <1>3

LEMMA DigitsOfSlice ==
  ASSUME NEW t \in Text, NEW p \in 0 .. Len(t), NEW r \in p .. Len(t),
         NEW x \in Nat, NEW y \in Nat, p + y <= r
  PROVE  AreDigits(Slice(t, p, r), x, y) <=> AreDigits(t, p + x, p + y)
  <1>1. Len(t) \in Nat /\ p \in Nat /\ r \in Nat
    BY TextLen
  <1>2. ASSUME NEW k \in x .. y - 1
        PROVE  At(Slice(t, p, r), k) = At(t, p + k) /\ p + k \in p + x .. p + y - 1
    <2>1. k \in Nat /\ p + k < r /\ p + k \in p + x .. p + y - 1
      BY <1>1
    <2> QED BY <2>1, AtSlice
  <1>3. ASSUME NEW k \in p + x .. p + y - 1
        PROVE  k - p \in x .. y - 1 /\ p + (k - p) = k
    BY <1>1
  <1> QED BY <1>2, <1>3 DEF AreDigits

(* Where the whole part, the fraction and the number end.                   *)
ExponentAt(t, b) == IF At(t, b + 1) \in {"+", "-"} THEN b + 2 ELSE b + 1
NumberParts(t, p, a, b, q) ==
    /\ a \in p + 1 .. Len(t) /\ b \in a .. Len(t) /\ q \in b .. Len(t)
    /\ AreDigits(t, p, a) /\ At(t, a) \notin Digits /\ At(t, b) \notin Digits
    /\ \/ b = a /\ ~(At(t, a) = "." /\ At(t, a + 1) \in Digits)
       \/ b >= a + 2 /\ At(t, a) = "." /\ AreDigits(t, a + 1, b)
    /\ \/ q = b /\ At(t, b) \notin {"e", "E"}
       \/ /\ At(t, b) \in {"e", "E"} /\ q >= ExponentAt(t, b)
          /\ AreDigits(t, ExponentAt(t, b), q) /\ At(t, q) \notin Digits

LEMMA DigitsEnd ==
  ASSUME NEW t \in Text, NEW p \in 0 .. Len(t)
  PROVE  /\ RunEnd(t, p, Digits) \in p .. Len(t) /\ AreDigits(t, p, RunEnd(t, p, Digits))
         /\ At(t, RunEnd(t, p, Digits)) \notin Digits
         /\ At(t, p) \in Digits => RunEnd(t, p, Digits) \in p + 1 .. Len(t)
  <1> DEFINE e == RunEnd(t, p, Digits)
  <1>1. /\ e \in p .. Len(t) /\ (e < Len(t) => At(t, e) \notin Digits)
        /\ \A r \in p .. e - 1 : At(t, r) \in Digits
    BY RunEndIs
  <1> HIDE DEF e
  <1>2. Len(t) \in Nat /\ p \in Nat /\ e \in Nat
    BY <1>1, TextLen
  <1>3. At(t, e) \notin Digits
    <2>1. CASE e < Len(t)
      BY <1>1, <2>1
    <2>2. CASE ~(e < Len(t))
      BY <2>2, CharactersDiffer DEF At
    <2> QED BY <2>1, <2>2
  <1>4. At(t, p) \in Digits => e \in p + 1 .. Len(t)
    BY <1>1, <1>2, <1>3
  <1> QED BY <1>1, <1>3, <1>4 DEF AreDigits, e

LEMMA NumberPartsAre ==
  ASSUME NEW t \in Text, NEW p \in 0 .. Len(t), At(t, p) \in Digits
  PROVE  \E b \in Nat : NumberParts(t, p, WholeEnd(t, p), b, NumberEnd(t, p))
  <1> DEFINE a == WholeEnd(t, p)
             f == RunEnd(t, a + 1, Digits)
             b == IF At(t, a) = "." /\ At(t, a + 1) \in Digits THEN f ELSE a
             c == ExponentAt(t, b)
             q == IF At(t, b) \in {"e", "E"} THEN RunEnd(t, c, Digits) ELSE b
  <1>0. NumberEnd(t, p) = q
    BY DEF NumberEnd, ExponentAt
  <1>1. a \in p + 1 .. Len(t) /\ AreDigits(t, p, a) /\ At(t, a) \notin Digits
    BY DigitsEnd DEF WholeEnd
  <1> HIDE DEF a
  <1>2. Len(t) \in Nat /\ p \in Nat /\ a \in Nat /\ a <= Len(t) /\ p < a
    BY <1>1, TextLen
  <1>3. /\ b \in a .. Len(t) /\ At(t, b) \notin Digits
        /\ \/ b = a /\ ~(At(t, a) = "." /\ At(t, a + 1) \in Digits)
           \/ b >= a + 2 /\ At(t, a) = "." /\ AreDigits(t, a + 1, b)
    <2>1. CASE At(t, a) = "." /\ At(t, a + 1) \in Digits
      <3>1. a + 1 \in 0 .. Len(t)
        <4>1. a < Len(t)
          BY <2>1 DEF At
        <4> QED BY <1>2, <4>1
      <3> DEFINE d == a + 1
      <3>2. d \in 0 .. Len(t) /\ At(t, d) \in Digits
        BY <2>1, <3>1
      <3>3. f = RunEnd(t, d, Digits)
        OBVIOUS
      <3> HIDE DEF d, f
      <3>4. f \in d + 1 .. Len(t) /\ AreDigits(t, d, f) /\ At(t, f) \notin Digits
        BY <3>2, <3>3, DigitsEnd
      <3>5. f \in a .. Len(t) /\ f >= a + 2
        BY <1>2, <3>4 DEF d
      <3>6. b = f
        BY <2>1
      <3> QED BY <2>1, <3>4, <3>5, <3>6 DEF d
    <2>2. CASE ~(At(t, a) = "." /\ At(t, a + 1) \in Digits)
      BY <1>1, <1>2, <2>2
    <2> QED BY <2>1, <2>2
  <1> HIDE DEF b
  <1>4. b \in Nat /\ b <= Len(t)
    BY <1>2, <1>3
  <1>5. /\ q \in b .. Len(t)
        /\ \/ q = b /\ At(t, b) \notin {"e", "E"}
           \/ /\ At(t, b) \in {"e", "E"} /\ q >= c
              /\ AreDigits(t, c, q) /\ At(t, q) \notin Digits
    <2>1. CASE At(t, b) \in {"e", "E"}
      <3>1. b < Len(t)
        BY <2>1 DEF At
      <3>2. At(t, b + 1) \in {"+", "-"} => b + 1 < Len(t)
        BY DEF At
      <3>3. c \in 0 .. Len(t) /\ c > b
        BY <1>2, <1>4, <3>1, <3>2 DEF ExponentAt
      <3>4. q = RunEnd(t, c, Digits)
        BY <2>1
      <3> HIDE DEF c, q
      <3>5. q \in c .. Len(t) /\ AreDigits(t, c, q) /\ At(t, q) \notin Digits
        BY <3>3, <3>4, DigitsEnd
      <3>6. q >= c /\ q \in b .. Len(t)
        BY <1>2, <1>4, <3>3, <3>5
      <3> QED BY <2>1, <3>5, <3>6
    <2>2. CASE At(t, b) \notin {"e", "E"}
      BY <1>2, <1>4, <2>2
    <2> QED BY <2>1, <2>2
  <1> HIDE DEF q
  <1>6. NumberParts(t, p, a, b, q)
    BY <1>1, <1>3, <1>5 DEF NumberParts
  <1> QED BY <1>0, <1>4, <1>6 DEF a

LEMMA NumberIsLexeme ==
  ASSUME NEW t \in Text, NEW p \in 0 .. Len(t), NEW a, NEW b \in Nat, NEW q,
         NumberParts(t, p, a, b, q)
  PROVE  /\ IsNumber(Slice(t, p, q)) /\ q \in p + 1 .. Len(t)
         /\ IsDigits(Slice(t, p, q)) <=> q = a
  <1> DEFINE s == Slice(t, p, q)
             i == a - p
             j == b - p
             digits == IF At(s, j + 1) \in {"+", "-"} THEN j + 2 ELSE j + 1
  <1>1. /\ Len(t) \in Nat /\ p \in Nat /\ a \in Nat /\ q \in Nat
        /\ p < a /\ a <= b /\ b <= q /\ q <= Len(t)
    BY TextLen DEF NumberParts
  <1>2. q \in p + 1 .. Len(t) /\ q \in p .. Len(t) /\ i \in Nat /\ j \in Nat /\ q - p \in Nat
    BY <1>1
  <1>3. s \in Text /\ Len(s) = q - p /\ s # <<>>
    <2>1. s \in Text /\ Len(s) = q - p
      BY <1>2, SliceIs
    <2> QED BY <1>1, <2>1
  <1>4. p + i = a /\ p + j = b /\ p + 0 = p /\ p + (q - p) = q /\ j + 1 \in Nat /\ i + 1 \in Nat
        /\ p + (i + 1) = a + 1 /\ p + (j + 1) = b + 1 /\ p + (j + 2) = b + 2 /\ j + 2 \in Nat
    BY <1>1, <1>2
  <1> HIDE DEF s, i, j
  <1>5. AreDigits(s, 0, i)
    <2>1. 0 \in Nat /\ p + i <= q
      BY <1>1, <1>4
    <2>2. AreDigits(s, 0, i) <=> AreDigits(t, p + 0, p + i)
      BY <1>2, <2>1, DigitsOfSlice DEF s
    <2> QED BY <1>4, <2>2 DEF NumberParts
  <1>6. i # j => At(s, i) = "." /\ i + 2 <= j /\ AreDigits(s, i + 1, j)
    <2> SUFFICES ASSUME i # j PROVE At(s, i) = "." /\ i + 2 <= j /\ AreDigits(s, i + 1, j)
      OBVIOUS
    <2>1. b >= a + 2 /\ At(t, a) = "." /\ AreDigits(t, a + 1, b)
      BY <1>4 DEF NumberParts, i, j
    <2>2. i + 2 <= j /\ p + i < q
      BY <1>1, <1>2, <1>4, <2>1
    <2>3. At(s, i) = At(t, a)
      BY <1>2, <1>4, <2>2, AtSlice DEF s
    <2>4. AreDigits(s, i + 1, j)
      BY <1>1, <1>2, <1>4, <2>1, DigitsOfSlice DEF s
    <2> QED BY <2>1, <2>2, <2>3, <2>4
  <1>7. j # Len(s) => At(s, j) \in {"e", "E"} /\ AreDigits(s, digits, Len(s))
    <2> SUFFICES ASSUME j # Len(s)
                 PROVE  At(s, j) \in {"e", "E"} /\ AreDigits(s, digits, Len(s))
      OBVIOUS
    <2>1. b < q
      BY <1>1, <1>3 DEF j
    <2>2. At(t, b) \in {"e", "E"} /\ q >= ExponentAt(t, b) /\ AreDigits(t, ExponentAt(t, b), q)
      BY <1>1, <2>1 DEF NumberParts
    <2>3. At(s, j) = At(t, b)
      BY <1>2, <1>4, <2>1, AtSlice DEF s
    <2>4. digits \in Nat /\ p + digits = ExponentAt(t, b)
      <3>1. At(s, j + 1) = IF b + 1 < q THEN At(t, b + 1) ELSE ""
        <4> DEFINE y == j + 1
        <4>1. y \in Nat /\ p + y = b + 1
          BY <1>4
        <4> HIDE DEF y
        <4>2. At(s, y) = IF p + y < q THEN At(t, p + y) ELSE ""
          BY <1>2, <4>1, AtSlice DEF s
        <4> QED BY <4>1, <4>2 DEF y
      <3>2. b + 1 < q \/ At(t, b + 1) \notin {"+", "-"}
        BY <1>1, <2>1, <2>2 DEF ExponentAt
      <3> QED BY <1>4, <3>1, <3>2 DEF ExponentAt
    <2> HIDE DEF digits
    <2>5. AreDigits(s, digits, q - p)
      BY <1>1, <1>2, <1>4, <2>2, <2>4, DigitsOfSlice DEF s
    <2> QED BY <1>3, <2>2, <2>3, <2>5
  <1>8. i \in 1 .. Len(s) /\ j \in i .. Len(s)
    BY <1>1, <1>3 DEF i, j
  <1>9. IsNumber(s)
    <2>1. i \in {n \in 1 .. Len(s) : AreDigits(s, 0, n)}
      BY <1>5, <1>8
    <2> QED BY <1>6, <1>7, <1>8, <2>1 DEF IsNumber, ExponentDigits
  <1>10. IsDigits(s) <=> AreDigits(t, p, q)
    <2>1. AreDigits(s, 0, q - p) <=> AreDigits(t, p, q)
      BY <1>1, <1>2, <1>4, DigitsOfSlice DEF s
    <2> QED BY <1>3, <2>1 DEF IsDigits
  <1>11. AreDigits(t, p, q) <=> q = a
    <2>1. q = a => AreDigits(t, p, q)
      BY DEF NumberParts
    <2>2. a < q => a \in p .. q - 1
      BY <1>1
    <2> QED BY <1>1, <2>1, <2>2 DEF NumberParts, AreDigits
  <1> QED BY <1>2, <1>9, <1>10, <1>11 DEF s

LEMMA NumberIsLongest ==
  ASSUME NEW t \in Text, NEW p \in 0 .. Len(t), NEW a, NEW b \in Nat, NEW q,
         NumberParts(t, p, a, b, q), NEW r \in q + 1 .. Len(t)
  PROVE  ~IsNumber(Slice(t, p, r))
  <1> DEFINE u == Slice(t, p, r)
  <1>1. /\ Len(t) \in Nat /\ p \in Nat /\ a \in Nat /\ q \in Nat /\ r \in Nat
        /\ p < a /\ a <= b /\ b <= q /\ q < r /\ r <= Len(t)
    BY TextLen DEF NumberParts
  <1>2. r \in p .. Len(t) /\ Len(u) = r - p
    BY <1>1, SliceIs
  <1> SUFFICES ASSUME IsNumber(u) PROVE FALSE
    OBVIOUS
  <1> HIDE DEF u
  <1> DEFINE Parts(i, j) ==
               /\ i # j => At(u, i) = "." /\ i + 2 <= j /\ AreDigits(u, i + 1, j)
               /\ j # Len(u) =>
                     /\ At(u, j) \in {"e", "E"}
                     /\ AreDigits(u, IF At(u, j + 1) \in {"+", "-"} THEN j + 2 ELSE j + 1, Len(u))
  <1>0. PICK i \in 1 .. Len(u) : AreDigits(u, 0, i) /\ \E j \in i .. Len(u) : Parts(i, j)
    BY DEF IsNumber, ExponentDigits
  <1>3. PICK j \in i .. Len(u) : Parts(i, j)
    BY <1>0
  <1> DEFINE I == p + i
             J == p + j
  <1>4. I \in Nat /\ J \in Nat /\ i \in Nat /\ j \in Nat /\ p < I /\ I <= J /\ J <= r
        /\ p + 0 = p /\ p + (i + 1) = I + 1 /\ p + (j + 1) = J + 1 /\ p + (j + 2) = J + 2
        /\ i + 1 \in Nat /\ j + 1 \in Nat /\ j + 2 \in Nat /\ (j # Len(u) <=> J < r)
        /\ p + Len(u) = r /\ Len(u) \in Nat
    BY <1>1, <1>2
  <1>5. p + i = I /\ p + j = J /\ (i # j <=> I # J) /\ (i + 2 <= j <=> I + 2 <= J)
    BY <1>1, <1>4
  <1> HIDE DEF I, J
  <1>6. AreDigits(t, p, I)
    <2>1. 0 \in Nat /\ p + i <= r
      BY <1>4, <1>5
    <2>2. AreDigits(u, 0, i) <=> AreDigits(t, p + 0, p + i)
      BY <1>2, <1>4, <2>1, DigitsOfSlice DEF u
    <2> QED BY <1>0, <1>4, <1>5, <2>2
  <1>7. I # J => At(t, I) = "." /\ I + 2 <= J /\ AreDigits(t, I + 1, J)
    <2> SUFFICES ASSUME I # J PROVE At(t, I) = "." /\ I + 2 <= J /\ AreDigits(t, I + 1, J)
      OBVIOUS
    <2>1. At(u, i) = "." /\ I + 2 <= J /\ AreDigits(u, i + 1, j)
      BY <1>3, <1>5
    <2>2. I < r
      BY <1>4
    <2>3. At(u, i) = At(t, I)
      BY <1>2, <1>4, <1>5, <2>2, AtSlice DEF u
    <2>4. AreDigits(t, I + 1, J)
      BY <1>2, <1>4, <1>5, <2>1, DigitsOfSlice DEF u
    <2> QED BY <2>1, <2>3, <2>4
  <1>8. J < r => At(t, J) \in {"e", "E"}
    <2>1. J < r => At(u, j) = At(t, J)
      BY <1>2, <1>4, <1>5, AtSlice DEF u
    <2> QED BY <1>3, <1>4, <2>1
  <1>9. I = a
    <2>1. ~(a < I)
      <3>1. a < I => a \in p .. I - 1
        BY <1>1, <1>4
      <3> QED BY <1>6, <3>1 DEF AreDigits, NumberParts
    <2>2. I < a => At(t, I) \in Digits /\ I < r
      <3>1. I < a => I \in p .. a - 1 /\ I < r
        BY <1>1, <1>4
      <3> QED BY <3>1 DEF AreDigits, NumberParts
    <2>3. ~(I < a)
      BY <1>7, <1>8, <2>2, CharactersDiffer
    <2> QED BY <1>1, <1>4, <2>1, <2>3
  <1>10. J = b
    <2>1. I # J => a # b
      <3>1. I # J => At(t, a + 1) \in Digits /\ At(t, a) = "."
        <4>1. I # J => a + 1 \in a + 1 .. J - 1
          BY <1>1, <1>4, <1>7, <1>9
        <4> QED BY <1>7, <1>9, <4>1 DEF AreDigits
      <3> QED BY <1>1, <3>1 DEF NumberParts
    <2>2. I = J => a = b
      <3> SUFFICES ASSUME I = J, a # b PROVE FALSE
        OBVIOUS
      <3>1. At(t, a) = "."
        BY DEF NumberParts
      <3>2. At(t, a) \in {"e", "E"}
        BY <1>1, <1>8, <1>9
      <3> QED BY <3>1, <3>2, CharactersDiffer
    <2>3. CASE I # J
      <3>1. AreDigits(t, a + 1, J) /\ AreDigits(t, a + 1, b) /\ J >= a + 2 /\ b >= a + 2
        BY <1>7, <1>9, <2>1, <2>3 DEF NumberParts
      <3>2. ~(b < J)
        <4>1. b < J => b \in a + 1 .. J - 1
          BY <1>1, <1>4, <3>1
        <4> QED BY <3>1, <4>1 DEF AreDigits, NumberParts
      <3>3. ~(J < b)
        <4>1. J < b => J \in a + 1 .. b - 1 /\ J < r
          BY <1>1, <1>4, <3>1
        <4> QED BY <1>8, <3>1, <4>1, CharactersDiffer DEF AreDigits
      <3> QED BY <1>1, <1>4, <3>2, <3>3
    <2>4. CASE I = J
      BY <1>9, <2>2, <2>4
    <2> QED BY <2>3, <2>4
  <1> DEFINE d == IF At(u, j + 1) \in {"+", "-"} THEN j + 2 ELSE j + 1
  <1>11. /\ AreDigits(u, d, Len(u)) /\ d \in Nat /\ At(t, q) \notin Digits
         /\ q >= ExponentAt(t, b) /\ p + d <= ExponentAt(t, b)
    <2>1. J < r /\ j # Len(u)
      BY <1>1, <1>4, <1>10
    <2>2. AreDigits(u, d, Len(u))
      BY <1>3, <2>1
    <2>3. At(t, b) \in {"e", "E"}
      BY <1>8, <1>10, <2>1
    <2>4. At(t, q) \notin Digits /\ q >= ExponentAt(t, b)
      BY <2>3 DEF NumberParts
    <2>5. At(u, j + 1) = IF b + 1 < r THEN At(t, b + 1) ELSE ""
      <3> DEFINE y == j + 1
      <3>1. y \in Nat /\ p + y = b + 1
        BY <1>4, <1>10
      <3> HIDE DEF y
      <3>2. At(u, y) = IF p + y < r THEN At(t, p + y) ELSE ""
        BY <1>2, <3>1, AtSlice DEF u
      <3> QED BY <3>1, <3>2 DEF y
    <2>6. d \in Nat /\ p + d <= ExponentAt(t, b)
      <3>1. At(u, j + 1) \in {"+", "-"} => At(t, b + 1) \in {"+", "-"}
        BY <2>5
      <3>2. p + (j + 1) = b + 1 /\ p + (j + 2) = b + 2
        BY <1>4, <1>10
      <3>3. CASE At(u, j + 1) \in {"+", "-"}
        <4>1. d = j + 2 /\ ExponentAt(t, b) = b + 2
          BY <3>1, <3>3 DEF ExponentAt
        <4> HIDE DEF d
        <4> QED BY <1>4, <3>2, <4>1
      <3>4. CASE At(u, j + 1) \notin {"+", "-"}
        <4>1. d = j + 1 /\ ExponentAt(t, b) \in {b + 1, b + 2}
          BY <3>4 DEF ExponentAt
        <4> HIDE DEF d
        <4> QED BY <1>4, <3>2, <4>1
      <3> QED BY <3>3, <3>4
    <2> QED BY <2>2, <2>4, <2>6
  <1> HIDE DEF d
  <1>12. AreDigits(t, p + d, r)
    BY <1>1, <1>2, <1>4, <1>11, DigitsOfSlice DEF u
  <1>13. ExponentAt(t, b) \in Nat
    BY DEF ExponentAt
  <1>14. q \in p + d .. r - 1
    BY <1>1, <1>11, <1>13
  <1> QED BY <1>11, <1>12, <1>14 DEF AreDigits

LEMMA NumberToken ==
  ASSUME NEW t \in Text, NEW p \in 0 .. Len(t), p < Len(t), At(t, p) \in Digits
  PROVE  TokenAt(t, p, TokenEnd(t, p), TypeOfToken(t, p, TokenEnd(t, p)))
  <1> DEFINE q == NumberEnd(t, p)
             a == WholeEnd(t, p)
             s == Slice(t, p, q)
  <1>1. TokenEnd(t, p) = q
    BY CharactersDiffer DEF TokenEnd
  <1>2. PICK b \in Nat : NumberParts(t, p, a, b, q)
    BY NumberPartsAre
  <1> HIDE DEF q, a
  <1>3. IsNumber(s) /\ q \in p + 1 .. Len(t) /\ (IsDigits(s) <=> q = a)
    BY <1>2, NumberIsLexeme
  <1>4. s \in Text /\ At(s, 0) = At(t, p)
    BY <1>3, SliceOpens
  <1>5. Longest(t, p, q)
    <2> SUFFICES ASSUME NEW r \in q + 1 .. Len(t), TypesTaken(Slice(t, p, r)) # {}
                 PROVE  FALSE
      BY DEF Longest
    <2>1. r \in p + 1 .. Len(t)
      BY <1>3, TextLen
    <2>2. Slice(t, p, r) \in Text /\ At(Slice(t, p, r), 0) = At(t, p)
      BY <2>1, SliceOpens
    <2>3. IsNumber(Slice(t, p, r))
      BY <2>2, LexemeOpens, CharactersDiffer
    <2> QED BY <1>2, <2>3, NumberIsLongest
  <1>6. s \notin DOMAIN Lexicon
    <2>1. s \notin KeywordTexts
      <3>1. s \in KeywordTexts => At(s, 0) \in Letters
        BY LexiconAssumption DEF IsWord
      <3> QED BY <1>4, <3>1, CharactersDiffer
    <2>2. s \notin OperatorTexts
      <3>1. s \in OperatorTexts => At(s, 0) \notin Digits
        BY LexiconAssumption
      <3> QED BY <1>4, <3>1
    <2> QED BY <2>1, <2>2, LexiconIs
  <1>7. TypeOfToken(t, p, q) = IF q = a THEN "int" ELSE "float"
    <2>0. p # Len(t)
      BY TextLen
    <2>1. p # Len(t) /\ At(t, p) \notin Letters /\ At(t, p) # Quote
      BY <2>0, CharactersDiffer
    <2> QED BY <1>6, <2>1 DEF TypeOfToken, a
  <1>8. TypeOfToken(t, p, q) \in TypesTaken(s)
    <2>1. CASE q = a
      BY <1>3, <1>7, <2>1 DEF TypesTaken, TypesOfLexeme
    <2>2. CASE q # a
      BY <1>3, <1>7, <2>2 DEF TypesTaken, TypesOfLexeme
    <2> QED BY <2>1, <2>2
  <1>9. TypeOfToken(t, p, q) \notin {"eof", "error"}
    BY <1>7
  <1> QED BY <1>1, <1>3, <1>5, <1>8, <1>9 DEF TokenAt

-----------------------------------------------------------------------------
(* Strings: whether the backslashes before a place of the string that opens *)
(* at p are an odd or an even number.                                       *)

Backslashes(t, p, x, k) ==
    /\ k \in 0 .. x - p - 1 /\ At(t, x - k - 1) # Backslash
    /\ \A i \in x - k .. x - 1 : At(t, i) = Backslash
OddAt(t, p, x) == \E k \in Nat : k % 2 = 1 /\ Backslashes(t, p, x, k)
EvenAt(t, p, x) == \E k \in Nat : k % 2 = 0 /\ Backslashes(t, p, x, k)

LEMMA OddOrEven ==
  ASSUME NEW t \in Text, NEW p \in Nat, NEW x \in Nat, OddAt(t, p, x), EvenAt(t, p, x)
  PROVE  FALSE
  <1>1. PICK k \in Nat : k % 2 = 1 /\ Backslashes(t, p, x, k)
    BY DEF OddAt
  <1>2. PICK m \in Nat : m % 2 = 0 /\ Backslashes(t, p, x, m)
    BY DEF EvenAt
  <1>3. m # k
    BY <1>1, <1>2
  <1>4. m < k => x - m - 1 \in x - k .. x - 1
    OBVIOUS
  <1>5. k < m => x - k - 1 \in x - m .. x - 1
    OBVIOUS
  <1>6. m < k \/ k < m
    BY <1>3
  <1> QED BY <1>1, <1>2, <1>4, <1>5, <1>6 DEF Backslashes

LEMMA EscapedIs ==
  ASSUME NEW t \in Text, NEW p \in 0 .. Len(t), NEW r \in p .. Len(t),
         NEW x \in Nat, p + x < r
  PROVE  Escaped(Slice(t, p, r), x) <=> OddAt(t, p, p + x)
  <1> DEFINE s == Slice(t, p, r)
             y == p + x
  <1>1. Len(t) \in Nat /\ p \in Nat /\ r \in Nat /\ y \in Nat /\ y - p = x
    BY TextLen
  <1>2. \A i \in 0 .. x : At(s, i) = At(t, p + i)
    <2> SUFFICES ASSUME NEW i \in 0 .. x PROVE At(s, i) = At(t, p + i)
      OBVIOUS
    <2>1. i \in Nat /\ p + i < r
      BY <1>1
    <2> QED BY <2>1, AtSlice
  <1> HIDE DEF s
  <1>3. ASSUME NEW k \in Nat, k <= x - 1
        PROVE  (/\ At(s, x - k - 1) # Backslash
                /\ \A i \in x - k .. x - 1 : At(s, i) = Backslash)
               <=> Backslashes(t, p, y, k)
    <2>1. At(s, x - k - 1) = At(t, y - k - 1) /\ k \in 0 .. y - p - 1
      <3>1. x - k - 1 \in 0 .. x /\ p + (x - k - 1) = y - k - 1 /\ k \in 0 .. y - p - 1
        BY <1>1, <1>3
      <3> HIDE DEF y
      <3>2. At(s, x - k - 1) = At(t, p + (x - k - 1))
        BY <1>2, <3>1
      <3> QED BY <3>1, <3>2
    <2>2. ASSUME NEW i \in x - k .. x - 1
          PROVE  p + i \in y - k .. y - 1 /\ At(s, i) = At(t, p + i)
      <3>1. i \in 0 .. x /\ p + i \in y - k .. y - 1
        BY <1>1, <1>3
      <3> QED BY <1>2, <3>1
    <2>3. ASSUME NEW i \in y - k .. y - 1
          PROVE  i - p \in x - k .. x - 1 /\ p + (i - p) = i
      BY <1>1
    <2> HIDE DEF y
    <2> QED BY <2>1, <2>2, <2>3 DEF Backslashes
  <1>4. ASSUME NEW k \in 1 .. x - 1 PROVE k \in Nat /\ k <= x - 1
    BY <1>1
  <1>5. ASSUME NEW k \in Nat, k % 2 = 1, Backslashes(t, p, y, k) PROVE k \in 1 .. x - 1 /\ k <= x - 1
    <2>1. k # 0
      BY <1>5
    <2>2. k \in 0 .. y - p - 1
      BY <1>5 DEF Backslashes
    <2> QED BY <1>1, <2>1, <2>2
  <1> HIDE DEF y
  <1>6. ASSUME Escaped(s, x) PROVE OddAt(t, p, y)
    <2>1. PICK k \in 1 .. x - 1 : /\ k % 2 = 1 /\ At(s, x - k - 1) # Backslash
                                  /\ \A i \in x - k .. x - 1 : At(s, i) = Backslash
      BY <1>6 DEF Escaped
    <2> QED BY <1>3, <1>4, <2>1 DEF OddAt
  <1>7. ASSUME OddAt(t, p, y) PROVE Escaped(s, x)
    <2>1. PICK k \in Nat : k % 2 = 1 /\ Backslashes(t, p, y, k)
      BY <1>7 DEF OddAt
    <2> QED BY <1>3, <1>5, <2>1 DEF Escaped
  <1> QED BY <1>6, <1>7 DEF s, y

(* One turn of the loop: the place it comes to is not escaped, and every    *)
(* quote it passed is.                                                      *)
InStringAt(t, p, q) ==
    /\ q \in p + 1 .. Len(t) /\ (q < Len(t) => EvenAt(t, p, q))
    /\ \A x \in p + 1 .. q - 1 : At(t, x) = Quote => OddAt(t, p, x)

LEMMA PlainIsEven ==
  ASSUME NEW t \in Text, NEW p \in Nat, NEW x \in Nat, p < x, At(t, x - 1) # Backslash
  PROVE  EvenAt(t, p, x)
  <1>1. 0 \in Nat /\ 0 % 2 = 0 /\ 0 \in 0 .. x - p - 1 /\ x - 0 - 1 = x - 1
        /\ \A i \in x - 0 .. x - 1 : FALSE
    OBVIOUS
  <1>2. Backslashes(t, p, x, 0)
    BY <1>1 DEF Backslashes
  <1> QED BY <1>1, <1>2 DEF EvenAt

LEMMA BackslashAfter ==
  ASSUME NEW t \in Text, NEW p \in Nat, NEW x \in Nat, NEW k \in Nat,
         Backslashes(t, p, x, k), At(t, x) = Backslash
  PROVE  Backslashes(t, p, x + 1, k + 1)
  <1>1. k + 1 \in 0 .. (x + 1) - p - 1 /\ (x + 1) - (k + 1) - 1 = x - k - 1
    BY DEF Backslashes
  <1>2. \A i \in (x + 1) - (k + 1) .. (x + 1) - 1 : i = x \/ i \in x - k .. x - 1
    OBVIOUS
  <1> QED BY <1>1, <1>2 DEF Backslashes

LEMMA InStringKeeps ==
  ASSUME NEW t \in Text, NEW p \in 0 .. Len(t), NEW q, InStringAt(t, p, q)
  PROVE  InStringAt(t, p, InString(t, q))
  <1>1. Len(t) \in Nat /\ p \in Nat /\ q \in Nat /\ p < q /\ q <= Len(t)
    BY TextLen DEF InStringAt
  <1>2. CASE q = Len(t) \/ At(t, q) = Quote
    BY <1>2 DEF InString
  <1>3. CASE q # Len(t) /\ At(t, q) # Quote /\ At(t, q) = Backslash /\ q + 2 <= Len(t)
    <2>1. InString(t, q) = q + 2
      BY <1>3 DEF InString
    <2>2. PICK k \in Nat : k % 2 = 0 /\ Backslashes(t, p, q, k)
      BY <1>1, <1>3 DEF InStringAt, EvenAt
    <2>3. Backslashes(t, p, q + 1, k + 1)
      BY <1>1, <1>3, <2>2, BackslashAfter
    <2>4. OddAt(t, p, q + 1)
      <3>1. k + 1 \in Nat /\ (k + 1) % 2 = 1
        BY <2>2
      <3> QED BY <2>3, <3>1 DEF OddAt
    <2>5. EvenAt(t, p, q + 2)
      <3>1. CASE At(t, q + 1) = Backslash
        <4>1. q + 1 \in Nat /\ k + 1 \in Nat /\ (q + 1) + 1 = q + 2 /\ (k + 1) + 1 = k + 2
          BY <1>1
        <4>2. Backslashes(t, p, q + 2, k + 2)
          <5> DEFINE x == q + 1
                     m == k + 1
          <5>1. x \in Nat /\ m \in Nat /\ Backslashes(t, p, x, m) /\ At(t, x) = Backslash
            BY <2>3, <3>1, <4>1
          <5> HIDE DEF x, m
          <5>2. Backslashes(t, p, x + 1, m + 1)
            BY <1>1, <5>1, BackslashAfter
          <5> QED BY <4>1, <5>2 DEF x, m
        <4>3. k + 2 \in Nat /\ (k + 2) % 2 = 0
          BY <2>2
        <4> QED BY <4>2, <4>3 DEF EvenAt
      <3>2. CASE At(t, q + 1) # Backslash
        <4>1. q + 2 \in Nat /\ p < q + 2 /\ (q + 2) - 1 = q + 1
          BY <1>1
        <4> DEFINE x == q + 2
        <4>2. x \in Nat /\ p < x /\ At(t, x - 1) # Backslash
          BY <3>2, <4>1
        <4> HIDE DEF x
        <4>3. EvenAt(t, p, x)
          BY <1>1, <4>2, PlainIsEven
        <4> QED BY <4>3 DEF x
      <3> QED BY <3>1, <3>2
    <2>6. \A x \in p + 1 .. (q + 2) - 1 : x \in p + 1 .. q - 1 \/ x = q \/ x = q + 1
      BY <1>1
    <2>7. q + 2 \in p + 1 .. Len(t)
      BY <1>1, <1>3
    <2> QED BY <1>3, <2>1, <2>4, <2>5, <2>6, <2>7 DEF InStringAt
  <1>4. CASE q # Len(t) /\ At(t, q) # Quote /\ ~(At(t, q) = Backslash /\ q + 2 <= Len(t))
    <2>1. InString(t, q) = q + 1
      BY <1>4 DEF InString
    <2>2. q + 1 \in p + 1 .. Len(t) /\ q + 1 \in Nat /\ p < q + 1 /\ (q + 1) - 1 = q
      BY <1>1, <1>4
    <2>3. q + 1 < Len(t) => EvenAt(t, p, q + 1)
      <3> SUFFICES ASSUME q + 1 < Len(t) PROVE EvenAt(t, p, q + 1)
        OBVIOUS
      <3>1. At(t, q) # Backslash
        BY <1>1, <1>4
      <3> QED BY <1>1, <2>2, <3>1, PlainIsEven
    <2>4. \A x \in p + 1 .. (q + 1) - 1 : x \in p + 1 .. q - 1 \/ x = q
      BY <1>1
    <2> QED BY <1>4, <2>1, <2>2, <2>3, <2>4 DEF InStringAt
  <1> QED BY <1>2, <1>3, <1>4

LEMMA InStringGoesOn ==
  ASSUME NEW t \in Text, NEW q \in 0 .. Len(t)
  PROVE  /\ InString(t, q) \in q .. Len(t)
         /\ InString(t, q) = q => q = Len(t) \/ At(t, q) = Quote
  <1>1. Len(t) \in Nat /\ q \in Nat /\ q <= Len(t)
    BY TextLen
  <1> QED BY <1>1 DEF InString

(* lex_string stops at a quote that is not escaped, or at the end.          *)
LEMMA StringEndIs ==
  ASSUME NEW t \in Text, NEW p \in 0 .. Len(t), p < Len(t), At(t, p) = Quote
  PROVE  \E q \in p + 1 .. Len(t) :
            /\ InStringAt(t, p, q) /\ (q = Len(t) \/ At(t, q) = Quote)
            /\ StringEnd(t, p + 1) = IF q < Len(t) THEN q + 1 ELSE q
  <1> DEFINE n == Len(t)
             next == [r \in 0 .. n |-> InString(t, r)]
             T == {r \in p + 1 .. n : InStringAt(t, p, r)}
             b == p + 1
             q == Settle(next, b)
  <1>1. n \in Nat /\ p \in Nat /\ p < n /\ b \in p + 1 .. n /\ b \in 0 .. n
    BY TextLen
  <1>2. \A r \in 0 .. n : InString(t, r) \in r .. n
    BY InStringGoesOn
  <1>3. next \in [0 .. n -> 0 .. n] /\ \A r \in 0 .. n : next[r] >= r
    <2>1. \A r \in 0 .. n : InString(t, r) \in 0 .. n /\ InString(t, r) >= r
      <3> HIDE DEF n
      <3> QED BY <1>1, <1>2
    <2> HIDE DEF n
    <2> QED BY <2>1
  <1>4. \A r \in 0 .. n : r \in T => next[r] \in T
    <2> SUFFICES ASSUME NEW r \in 0 .. n, r \in T PROVE next[r] \in T
      OBVIOUS
    <2>1. InStringAt(t, p, InString(t, r))
      BY InStringKeeps
    <2>2. InString(t, r) \in p + 1 .. n
      BY <2>1 DEF InStringAt
    <2> QED BY <2>1, <2>2
  <1>5. b \in T
    <2>1. EvenAt(t, p, b)
      <3>1. b \in Nat /\ p < b /\ b - 1 = p
        BY <1>1
      <3> HIDE DEF b
      <3> QED BY <1>1, <3>1, PlainIsEven, CharactersDiffer
    <2>2. \A x \in p + 1 .. b - 1 : FALSE
      BY <1>1
    <2>3. InStringAt(t, p, b)
      BY <1>1, <2>1, <2>2 DEF InStringAt
    <2> QED BY <1>1, <2>3
  <1>6. q \in b .. n /\ next[q] = q /\ q \in T
    <2> HIDE DEF next, T, n, b
    <2> QED BY <1>1, <1>3, <1>4, <1>5, SettleIs
  <1>7. StringEnd(t, p + 1) = IF q < Len(t) THEN q + 1 ELSE q
    BY DEF StringEnd
  <1> HIDE DEF q
  <1>8. InString(t, q) = q /\ q \in 0 .. n
    BY <1>1, <1>6
  <1>9. q = n \/ At(t, q) = Quote
    BY <1>8, InStringGoesOn
  <1> QED BY <1>6, <1>7, <1>9

LEMMA QuotesOfSlice ==
  ASSUME NEW t \in Text, NEW p \in 0 .. Len(t), NEW r \in p + 1 .. Len(t)
  PROVE  Quotes(Slice(t, p, r)) = {x \in 1 .. r - p - 1 : At(t, p + x) = Quote
                                                            /\ ~OddAt(t, p, p + x)}
  <1> DEFINE s == Slice(t, p, r)
  <1>1. Len(t) \in Nat /\ p \in Nat /\ r \in p .. Len(t) /\ Len(s) = r - p
    BY TextLen, SliceOpens
  <1>2. ASSUME NEW x \in 1 .. r - p - 1
        PROVE  At(s, x) = At(t, p + x) /\ (Escaped(s, x) <=> OddAt(t, p, p + x))
    <2>1. x \in Nat /\ p + x < r
      BY <1>1
    <2> QED BY <1>1, <2>1, AtSlice, EscapedIs
  <1> HIDE DEF s
  <1>3. Quotes(s) = {x \in 1 .. r - p - 1 : At(s, x) = Quote /\ ~Escaped(s, x)}
    BY <1>1 DEF Quotes
  <1> QED BY <1>2, <1>3 DEF s

LEMMA StringToken ==
  ASSUME NEW t \in Text, NEW p \in 0 .. Len(t), p < Len(t), At(t, p) = Quote
  PROVE  TokenAt(t, p, TokenEnd(t, p), TypeOfToken(t, p, TokenEnd(t, p)))
  <1> DEFINE e == TokenEnd(t, p)
             s == Slice(t, p, e)
  <1>1. e = StringEnd(t, p + 1)
    BY CharactersDiffer DEF TokenEnd
  <1>2. PICK q \in p + 1 .. Len(t) :
           /\ InStringAt(t, p, q) /\ (q = Len(t) \/ At(t, q) = Quote)
           /\ e = IF q < Len(t) THEN q + 1 ELSE q
    BY <1>1, StringEndIs
  <1> HIDE DEF e
  <1>3. Len(t) \in Nat /\ p \in Nat /\ q \in Nat /\ p < q /\ e \in p + 1 .. Len(t)
    BY <1>2, TextLen
  <1>4. s \in Text /\ Len(s) = e - p /\ At(s, 0) = Quote
    BY <1>3, SliceOpens
  <1>5. s \notin DOMAIN Lexicon
    <2>1. s \notin KeywordTexts
      <3>1. s \in KeywordTexts => At(s, 0) \in Letters
        BY LexiconAssumption DEF IsWord
      <3> QED BY <1>4, <3>1, CharactersDiffer
    <2>2. s \notin OperatorTexts
      <3>1. s \in OperatorTexts => At(s, 0) # Quote
        BY LexiconAssumption
      <3> QED BY <1>4, <3>1
    <2> QED BY <2>1, <2>2, LexiconIs
  <1>6. TypeOfToken(t, p, e) = "string"
    <2>0. p # Len(t)
      BY TextLen
    <2>1. p # Len(t) /\ At(t, p) \notin Letters /\ At(t, p) \notin Digits
      BY <2>0, CharactersDiffer
    <2> QED BY <1>5, <2>1 DEF TypeOfToken
  <1> DEFINE I(r) == {x \in 1 .. r - p - 1 : At(t, p + x) = Quote /\ ~OddAt(t, p, p + x)}
  <1>7. \A r \in p + 1 .. Len(t) : Quotes(Slice(t, p, r)) = I(r)
    BY QuotesOfSlice
  <1>8. \A x \in 1 .. q - p - 1 : ~(At(t, p + x) = Quote /\ ~OddAt(t, p, p + x))
    <2>1. \A x \in 1 .. q - p - 1 : p + x \in p + 1 .. q - 1
      BY <1>3
    <2> QED BY <1>2, <2>1 DEF InStringAt
  <1>9. CASE q < Len(t)
    <2>1. e = q + 1 /\ At(t, q) = Quote /\ p + (q - p) = q
      BY <1>2, <1>3, <1>9
    <2>2. ~OddAt(t, p, q)
      BY <1>2, <1>3, <1>9, OddOrEven DEF InStringAt
    <2>3. \A r \in q + 1 .. Len(t) : q - p \in I(r)
      <3>1. \A r \in q + 1 .. Len(t) : q - p \in 1 .. r - p - 1
        BY <1>3
      <3> QED BY <2>1, <2>2, <3>1
    <2>4. IsQuoted(s)
      <3>1. q - p = Len(s) - 1 /\ e \in q + 1 .. Len(t)
        BY <1>3, <1>4, <2>1
      <3>2. \A x \in 1 .. e - p - 1 : x = q - p \/ x \in 1 .. q - p - 1
        BY <1>3, <2>1
      <3>3. \A x \in I(e) : x = q - p
        BY <1>8, <3>2
      <3>4. Quotes(s) = I(e) /\ q - p \in I(e)
        BY <1>3, <1>7, <2>3, <3>1
      <3> HIDE DEF I
      <3>5. Quotes(s) = {q - p}
        BY <3>3, <3>4
      <3> QED BY <1>4, <3>1, <3>5 DEF IsQuoted
    <2>5. Longest(t, p, e)
      <3> SUFFICES ASSUME NEW r \in e + 1 .. Len(t), TypesTaken(Slice(t, p, r)) # {}
                   PROVE  FALSE
        BY DEF Longest
      <3>1. r \in p + 1 .. Len(t) /\ r \in q + 1 .. Len(t) /\ r - p - 1 # q - p
        BY <1>3, <2>1
      <3>2. Slice(t, p, r) \in Text /\ At(Slice(t, p, r), 0) = Quote /\ Len(Slice(t, p, r)) = r - p
        BY <3>1, SliceOpens
      <3>3. IsQuoted(Slice(t, p, r))
        BY <3>2, LexemeOpens, CharactersDiffer
      <3>4. q - p \in I(r) /\ Quotes(Slice(t, p, r)) = I(r)
        BY <1>7, <2>3, <3>1
      <3> HIDE DEF I
      <3>5. q - p \in {r - p - 1}
        BY <3>2, <3>3, <3>4 DEF IsQuoted
      <3> QED BY <3>1, <3>5
    <2>6. "string" \in TypesTaken(s)
      BY <2>4 DEF TypesTaken, TypesOfLexeme
    <2> QED BY <1>3, <1>6, <2>5, <2>6 DEF TokenAt, e
  <1>10. CASE q = Len(t)
    <2>1. e = q
      BY <1>2, <1>3, <1>10
    <2>2. I(e) = {}
      BY <1>8, <2>1
    <2>3. Quotes(s) = {}
      <3>1. Quotes(s) = I(e)
        BY <1>3, <1>7
      <3> HIDE DEF I
      <3> QED BY <2>2, <3>1
    <2> QED BY <1>3, <1>4, <1>6, <1>10, <2>1, <2>3 DEF TokenAt, IsOpenString, e
  <1> QED BY <1>2, <1>3, <1>9, <1>10

-----------------------------------------------------------------------------
(* Every token the lexer finds is a token. *)

LEMMA TokenFound ==
  ASSUME NEW t \in Text, NEW p \in 0 .. Len(t)
  PROVE  /\ p < Len(t) => TokenAt(t, p, TokenEnd(t, p), TypeOfToken(t, p, TokenEnd(t, p)))
         /\ p = Len(t) => TokenEnd(t, p) = p /\ TypeOfToken(t, p, TokenEnd(t, p)) = "eof"
         /\ TokenEnd(t, p) \in p .. Len(t)
  <1>1. Len(t) \in Nat /\ p \in Nat /\ p <= Len(t)
    BY TextLen
  <1>2. CASE p < Len(t)
    <2>1. TokenAt(t, p, TokenEnd(t, p), TypeOfToken(t, p, TokenEnd(t, p)))
      BY <1>2, WordToken, NumberToken, StringToken, SignToken
    <2>2. TokenEnd(t, p) \in p + 1 .. Len(t)
      BY <2>1 DEF TokenAt
    <2> QED BY <1>1, <1>2, <2>1, <2>2
  <1>3. CASE p = Len(t)
    <2>0. ~(p < Len(t)) /\ ~(p + 2 <= Len(t)) /\ p \in p .. Len(t)
      BY <1>1, <1>3
    <2>1. At(t, p) = ""
      BY <2>0 DEF At
    <2>2. "" \notin Letters /\ "" \notin Digits /\ "" # Quote
      BY DEF Letters, Digits, Quote
    <2>3. TokenEnd(t, p) = p
      BY <2>0, <2>1, <2>2 DEF TokenEnd
    <2> DEFINE s == Slice(t, p, p)
    <2>4. s \in Text /\ Len(s) = 0
      BY <1>1, <2>0, SliceIs
    <2>5. At(s, 0) = ""
      BY <2>4 DEF At
    <2>6. s \notin DOMAIN Lexicon
      <3> HIDE DEF s
      <3>1. s \notin KeywordTexts
        BY <2>2, <2>5, LexiconAssumption DEF IsWord
      <3>2. s \notin OperatorTexts
        BY <2>4, LexiconAssumption
      <3> QED BY <3>1, <3>2, LexiconIs
    <2>7. TypeOfToken(t, p, p) = "eof"
      BY <1>3, <2>1, <2>2, <2>6 DEF TypeOfToken
    <2> QED BY <1>3, <2>0, <2>3, <2>7
  <1> QED BY <1>1, <1>2, <1>3

-----------------------------------------------------------------------------
(* Lines and columns. *)

LineEndsIn(t, p, q) == {r \in p .. q - 1 : At(t, r) = "\n"}
RightPlace(t, p, line, col) ==
    /\ line = 1 + Cardinality(LineEndsIn(t, 0, p))
    /\ col = p - Max(LineEndsIn(t, 0, p) \cup {-1})

LEMMA MaxIs ==
  ASSUME NEW S \in SUBSET Int, NEW m \in S, \A x \in S : x <= m
  PROVE  Max(S) = m
  <1> DEFINE Is(x) == \A y \in S : x >= y
  <1>1. m \in S /\ Is(m)
    OBVIOUS
  <1>2. Max(S) \in S /\ Is(Max(S))
    <2> HIDE DEF Is
    <2>1. Max(S) = CHOOSE x \in S : Is(x)
      BY DEF Max, Is
    <2> QED BY <1>1, <2>1
  <1>3. Max(S) \in Int /\ m \in Int /\ Max(S) >= m /\ Max(S) <= m
    BY <1>1, <1>2
  <1> QED BY <1>3

LEMMA MaxOfNone == Max({-1}) = -1
  <1> DEFINE S == {-1}
             m == -1
  <1>1. S \in SUBSET Int /\ m \in S /\ \A x \in S : x <= m
    OBVIOUS
  <1> HIDE DEF S, m
  <1>2. Max(S) = m
    BY <1>1, MaxIs
  <1> QED BY <1>2 DEF S, m

LEMMA GreatestIn ==
  ASSUME NEW p \in Nat, NEW q \in Nat, NEW S \in SUBSET (p .. q), S # {}
  PROVE  \E m \in S : \A x \in S : x <= m
  <1> DEFINE D == {x \in Nat : \E y \in S : x = q - y}
  <1>1. \A y \in S : y \in Nat /\ q - y \in D
    OBVIOUS
  <1>2. D \in SUBSET Nat /\ D # {}
    BY <1>1
  <1>3. PICK d \in D : \A x \in D : d <= x
    <2> HIDE DEF D
    <2> QED BY <1>2, LeastNumber
  <1>4. PICK m \in S : d = q - m
    BY <1>3
  <1>5. ASSUME NEW x \in S PROVE x <= m
    <2>1. d <= q - x /\ x \in Nat /\ m \in Nat
      BY <1>1, <1>3, <1>4
    <2> QED BY <1>4, <2>1
  <1> QED BY <1>5

LEMMA LineEndsFinite ==
  ASSUME NEW t, NEW p \in Nat, NEW q \in Nat
  PROVE  IsFiniteSet(LineEndsIn(t, p, q)) /\ Cardinality(LineEndsIn(t, p, q)) \in Nat
  <1>1. IsFiniteSet(p .. q - 1) /\ LineEndsIn(t, p, q) \in SUBSET (p .. q - 1)
    BY FS_Interval DEF LineEndsIn
  <1> QED BY <1>1, FS_Subset, FS_CardinalityType

LEMMA PlaceOfFirst ==
  ASSUME NEW t
  PROVE  RightPlace(t, 0, 1, 1)
  <1>1. LineEndsIn(t, 0, 0) = {}
    BY DEF LineEndsIn
  <1>2. Max({-1}) = -1
    BY MaxOfNone
  <1> QED BY <1>1, <1>2, FS_EmptySet DEF RightPlace

Lexers(K) == [pos : Nat, line : Int, col : Int, peeked : SUBSET K]

(* advance() counts line ends, and columns from the last of them.           *)
LEMMA MoveIs ==
  ASSUME NEW K, NEW t \in Text, NEW l \in Lexers(K), NEW q \in l.pos .. Len(t),
         RightPlace(t, l.pos, l.line, l.col)
  PROVE  /\ Move(l, t, q) \in Lexers(K)
         /\ Move(l, t, q).pos = q /\ Move(l, t, q).peeked = l.peeked
         /\ RightPlace(t, q, Move(l, t, q).line, Move(l, t, q).col)
  <1> DEFINE p == l.pos
             newlines == LineEndsIn(t, p, q)
             last == CHOOSE x \in newlines : \A r \in newlines : r <= x
             line == l.line + Cardinality(newlines)
             col == IF newlines = {} THEN l.col + q - p ELSE q - last
             before == LineEndsIn(t, 0, p)
             after == LineEndsIn(t, 0, q)
  <1>1. p \in Nat /\ q \in Nat /\ p <= q /\ l.line \in Int /\ l.col \in Int /\ l.peeked \in SUBSET K
    BY TextLen DEF Lexers
  <1>2. Move(l, t, q) = [l EXCEPT !.pos = q, !.line = line, !.col = col]
    BY DEF Move, LineEndsIn
  <1>3. after = before \cup newlines /\ before \cap newlines = {}
    BY <1>1 DEF LineEndsIn
  <1>4. /\ newlines \in SUBSET (p .. q) /\ before \in SUBSET (0 .. p - 1)
        /\ \A x \in newlines : x \in Nat /\ x >= p
        /\ \A x \in before : x \in Nat /\ x < p
    BY <1>1 DEF LineEndsIn
  <1>5. /\ IsFiniteSet(before) /\ IsFiniteSet(newlines)
        /\ Cardinality(before) \in Nat /\ Cardinality(newlines) \in Nat
    <2> HIDE DEF p
    <2> QED BY <1>1, LineEndsFinite
  <1>6. l.line = 1 + Cardinality(before) /\ l.col = p - Max(before \cup {-1})
    BY DEF RightPlace
  <1> HIDE DEF p, newlines, before, after
  <1>7. line = 1 + Cardinality(after) /\ line \in Int
    <2>1. Cardinality(after) = Cardinality(before) + Cardinality(newlines) - 0
      BY <1>3, <1>5, FS_Union, FS_EmptySet
    <2> QED BY <1>5, <1>6, <2>1
  <1>8. col = q - Max(after \cup {-1}) /\ col \in Int
    <2>1. CASE newlines = {}
      <3>1. after = before
        BY <1>3, <2>1
      <3>2. col = l.col + q - p
        BY <2>1
      <3>3. Max(before \cup {-1}) \in Int
        <4>1. CASE before = {}
          <5>1. Max({-1}) = -1
            BY MaxOfNone
          <5> QED BY <4>1, <5>1
        <4>2. CASE before # {}
          <5>1. PICK m \in before : \A x \in before : x <= m
            <6>1. before \in SUBSET (0 .. p)
              BY <1>1, <1>4
            <6> QED BY <1>1, <4>2, <6>1, GreatestIn
          <5>2. before \cup {-1} \in SUBSET Int /\ \A x \in before \cup {-1} : x <= m
            BY <1>4, <5>1
          <5>3. Max(before \cup {-1}) = m
            BY <5>1, <5>2, MaxIs
          <5> QED BY <1>4, <5>3
        <4> QED BY <4>1, <4>2
      <3> QED BY <1>1, <1>6, <3>1, <3>2, <3>3
    <2>2. CASE newlines # {}
      <3>1. PICK m \in newlines : \A r \in newlines : r <= m
        BY <1>1, <1>4, <2>2, GreatestIn
      <3>2. last \in newlines /\ \A r \in newlines : r <= last
        BY <3>1
      <3> HIDE DEF last
      <3>3. after \cup {-1} \in SUBSET Int /\ last \in after \cup {-1} /\ last \in Nat
        BY <1>3, <1>4, <3>2
      <3>4. \A x \in after \cup {-1} : x <= last
        BY <1>1, <1>3, <1>4, <3>2
      <3>5. Max(after \cup {-1}) = last
        BY <3>3, <3>4, MaxIs
      <3> QED BY <1>1, <2>2, <3>3, <3>5
    <2> QED BY <2>1, <2>2
  <1> HIDE DEF line, col
  <1>9. /\ Move(l, t, q) \in Lexers(K) /\ Move(l, t, q).pos = q /\ Move(l, t, q).peeked = l.peeked
        /\ Move(l, t, q).line = line /\ Move(l, t, q).col = col
    BY <1>1, <1>2, <1>7, <1>8 DEF Lexers
  <1> QED BY <1>7, <1>8, <1>9 DEF RightPlace, after

-----------------------------------------------------------------------------
(* The inductive invariant.  A token is good when it is what must be found  *)
(* in t after the place from; the lexer is where the last token ends, or    *)
(* where the one it peeked at ends, which is good after the last token.     *)

TokenTypes == Keywords \cup Operators \cup {"eof", "error", "ident", "int", "float", "string"}
Token == [type : TokenTypes, text : Text, start : Nat, line : Int, col : Int]

GoodToken(t, k, from) ==
    /\ k.start \in from .. Len(t) /\ IsGap(t, from, k.start)
    /\ Opens(Slice(t, k.start, Len(t))) \notin {LineSign, BlockSign}
    /\ EndOf(k) \in k.start .. Len(t) /\ k.text = Slice(t, k.start, EndOf(k))
    /\ \/ k.type = "eof" /\ k.start = Len(t)
       \/ TokenAt(t, k.start, EndOf(k), k.type)
    /\ RightPlace(t, k.start, k.line, k.col)

LexerOK ==
    /\ lexer.pos \in 0 .. Len(text) /\ RightPlace(text, lexer.pos, lexer.line, lexer.col)
    /\ lexer.peeked = {} => lexer.pos = ReadTo(tokens)
PeekedOK ==
    lexer.peeked # {} =>
        \E k \in lexer.peeked : /\ lexer.peeked = {k} /\ lexer.pos = EndOf(k)
                                /\ GoodToken(text, k, ReadTo(tokens))
LastOK ==
    tokens # <<>> =>
        GoodToken(text, tokens[Len(tokens)], ReadTo(SubSeq(tokens, 1, Len(tokens) - 1)))
ReadOK ==
    /\ ReadTo(tokens) \in 0 .. Len(text)
    /\ Lexing => Len(tokens) <= ReadTo(tokens)

LInv ==
    /\ text \in Text /\ lexer \in Lexers(Token) /\ tokens \in Seq(Token)
    /\ LexerOK /\ PeekedOK /\ LastOK /\ ReadOK

LEMMA LexOneIs ==
  ASSUME NEW t \in Text, NEW l \in Lexers(Token), l.pos \in 0 .. Len(t),
         RightPlace(t, l.pos, l.line, l.col)
  PROVE  /\ LexOne(l, t).lexer \in Lexers(Token) /\ LexOne(l, t).token \in Token
         /\ LexOne(l, t).lexer.peeked = l.peeked
         /\ LexOne(l, t).lexer.pos = EndOf(LexOne(l, t).token)
         /\ RightPlace(t, LexOne(l, t).lexer.pos, LexOne(l, t).lexer.line, LexOne(l, t).lexer.col)
         /\ GoodToken(t, LexOne(l, t).token, l.pos)
  <1> DEFINE p == SkipTo(t, l.pos)
             at == Move(l, t, p)
             q == TokenEnd(t, p)
             x == TypeOfToken(t, p, q)
             k == [type |-> x, text |-> Slice(t, p, q), start |-> p,
                   line |-> at.line, col |-> at.col]
             to == Move(at, t, q)
  <1>1. /\ p \in l.pos .. Len(t) /\ IsGap(t, l.pos, p)
        /\ Slice(t, p, p + 2) \notin {LineSign, BlockSign}
    BY SkipToIs
  <1> HIDE DEF p
  <1>2. Len(t) \in Nat /\ l.pos \in Nat /\ p \in Nat /\ p <= Len(t) /\ p \in 0 .. Len(t)
    BY <1>1, TextLen
  <1>3. /\ at \in Lexers(Token) /\ at.pos = p /\ at.peeked = l.peeked
        /\ RightPlace(t, p, at.line, at.col)
    BY <1>1, MoveIs
  <1> HIDE DEF at
  <1>4. LexOne(l, t) = [lexer |-> to, token |-> k]
    BY <1>3 DEF LexOne, p, at
  <1>5. /\ p < Len(t) => TokenAt(t, p, q, x)
        /\ p = Len(t) => q = p /\ x = "eof"
        /\ q \in p .. Len(t)
    BY <1>2, TokenFound
  <1>6. x \in TokenTypes
    <2>1. Slice(t, p, q) \in DOMAIN Lexicon => Lexicon[Slice(t, p, q)] \in Keywords \cup Operators
      BY LexiconIs
    <2> QED BY <2>1 DEF TypeOfToken, TokenTypes
  <1> HIDE DEF q, x
  <1>7. /\ to \in Lexers(Token) /\ to.pos = q /\ to.peeked = l.peeked
        /\ RightPlace(t, to.pos, to.line, to.col)
    BY <1>3, <1>5, MoveIs
  <1> HIDE DEF to
  <1>8. Slice(t, p, q) \in Text /\ Len(Slice(t, p, q)) = q - p
    BY <1>2, <1>5, SliceIs
  <1>9. k \in Token /\ EndOf(k) = q
    BY <1>2, <1>3, <1>5, <1>6, <1>8 DEF Token, EndOf, Lexers
  <1>10. Opens(Slice(t, p, Len(t))) \notin {LineSign, BlockSign}
    <2>1. Len(t) \in p .. Len(t)
      BY <1>2
    <2>2. CASE p + 2 <= Len(t)
      BY <1>1, <1>2, <2>1, <2>2, OpensIs
    <2>3. CASE ~(p + 2 <= Len(t))
      <3> DEFINE u == Slice(t, p, Len(t))
                 z == 0
      <3>1. u \in Text /\ Len(u) = Len(t) - p
        BY <1>2, <2>1, SliceIs
      <3>2. z \in 0 .. Len(u) /\ z + 2 > Len(u) /\ z + 2 = 2
        BY <1>2, <2>3, <3>1
      <3> HIDE DEF u, z
      <3>3. Slice(u, z, z + 2) \notin {LineSign, BlockSign}
        <4> SUFFICES ASSUME Slice(u, z, z + 2) \in {LineSign, BlockSign} PROVE FALSE
          OBVIOUS
        <4>1. z + 2 <= Len(u)
          BY <3>1, <3>2, SignInside
        <4> QED BY <3>1, <3>2, <4>1, TextLen
      <3> QED BY <3>2, <3>3 DEF Opens, u, z
    <2> QED BY <2>2, <2>3
  <1>11. GoodToken(t, k, l.pos)
    <2>1. k.start = p /\ k.text = Slice(t, p, q) /\ k.type = x /\ k.line = at.line /\ k.col = at.col
      OBVIOUS
    <2> HIDE DEF k
    <2>2. p < Len(t) \/ p = Len(t)
      BY <1>2
    <2> QED BY <1>1, <1>3, <1>5, <1>9, <1>10, <2>1, <2>2 DEF GoodToken
  <1> QED BY <1>4, <1>7, <1>9, <1>11

LEMMA LInvInit == LInit => LInv
  <1> SUFFICES ASSUME LInit PROVE LInv
    OBVIOUS
  <1>1. text \in Text /\ lexer = [pos |-> 0, line |-> 1, col |-> 1, peeked |-> {}] /\ tokens = <<>>
    BY DEF LInit, NewLexer, Text
  <1>2. lexer \in Lexers(Token) /\ tokens \in Seq(Token) /\ Len(text) \in Nat
    BY <1>1, TextLen DEF Lexers
  <1>3. LexerOK
    BY <1>1, <1>2, PlaceOfFirst DEF LexerOK, ReadTo
  <1>4. PeekedOK /\ LastOK /\ ReadOK
    BY <1>1, <1>2 DEF PeekedOK, LastOK, ReadOK, ReadTo
  <1> QED BY <1>1, <1>2, <1>3, <1>4 DEF LInv

LEMMA AppendIs ==
  ASSUME NEW K, NEW s \in Seq(K), NEW k \in K
  PROVE  /\ Append(s, k) \in Seq(K) /\ Append(s, k) # <<>> /\ Len(Append(s, k)) = Len(s) + 1
         /\ Append(s, k)[Len(s) + 1] = k /\ SubSeq(Append(s, k), 1, Len(s)) = s
         /\ \A i \in DOMAIN s : i \in DOMAIN Append(s, k) /\ Append(s, k)[i] = s[i]
  <1>1. Append(s, k) \in Seq(K) /\ Append(s, k) # <<>> /\ Len(Append(s, k)) = Len(s) + 1
        /\ Append(s, k)[Len(s) + 1] = k /\ Len(s) \in Nat
        /\ \A i \in 1 .. Len(s) : Append(s, k)[i] = s[i]
    OBVIOUS
  <1>2. SubSeq(Append(s, k), 1, Len(s)) = s
    <2> DEFINE u == SubSeq(Append(s, k), 1, Len(s))
    <2>1. u \in Seq(K) /\ Len(u) = Len(s) /\ \A i \in 1 .. Len(s) : u[i] = s[i]
      BY <1>1
    <2> HIDE DEF u
    <2>2. u = s
      BY <2>1, SeqEqual
    <2> QED BY <2>2 DEF u
  <1>3. DOMAIN s = 1 .. Len(s) /\ DOMAIN Append(s, k) = 1 .. Len(s) + 1
    BY <1>1
  <1> QED BY <1>1, <1>2, <1>3

(* A token that is good after what was read may be the next.                *)
LEMMA NextTokenKeeps ==
  ASSUME LInv, NEW k \in Token, GoodToken(text, k, ReadTo(tokens)), Lexing,
         text' = text, tokens' = Append(tokens, k),
         lexer' \in Lexers(Token), lexer'.peeked = {}, lexer'.pos = EndOf(k),
         RightPlace(text, lexer'.pos, lexer'.line, lexer'.col)
  PROVE  LInv'
  <1>1. /\ text \in Text /\ tokens \in Seq(Token) /\ Len(text) \in Nat /\ Len(tokens) \in Nat
        /\ ReadTo(tokens) \in 0 .. Len(text) /\ Len(tokens) <= ReadTo(tokens)
    BY TextLen DEF LInv, ReadOK
  <1>2. /\ tokens' \in Seq(Token) /\ tokens' # <<>> /\ Len(tokens') = Len(tokens) + 1
        /\ tokens'[Len(tokens')] = k /\ SubSeq(tokens', 1, Len(tokens') - 1) = tokens
    <2>1. (Len(tokens) + 1) - 1 = Len(tokens)
      BY <1>1
    <2> QED BY <1>1, <2>1, AppendIs
  <1>3. ReadTo(tokens') = EndOf(k)
    BY <1>2 DEF ReadTo
  <1>4. /\ k.start \in ReadTo(tokens) .. Len(text) /\ EndOf(k) \in k.start .. Len(text)
        /\ k.type # "eof" => EndOf(k) \in k.start + 1 .. Len(text)
    BY DEF GoodToken, TokenAt
  <1>5. ReadTo(tokens') \in 0 .. Len(text)
    BY <1>1, <1>3, <1>4
  <1>6. LexerOK'
    BY <1>3, <1>5 DEF LexerOK
  <1>7. PeekedOK'
    BY DEF PeekedOK
  <1>8. LastOK'
    BY <1>2 DEF LastOK
  <1>9. ReadOK'
    <2> SUFFICES ASSUME Lexing' PROVE Len(tokens') <= ReadTo(tokens')
      BY <1>5 DEF ReadOK
    <2>1. Len(tokens') \in DOMAIN tokens'
      BY <1>1, <1>2
    <2>2. k.type # "eof"
      BY <1>2, <2>1 DEF Lexing
    <2> QED BY <1>1, <1>2, <1>3, <1>4, <2>2
  <1> QED BY <1>1, <1>2, <1>6, <1>7, <1>8, <1>9 DEF LInv

LEMMA LInvStep == LInv /\ [LNext]_lvars => LInv'
  <1> SUFFICES ASSUME LInv, [LNext]_lvars PROVE LInv'
    OBVIOUS
  <1>1. /\ text \in Text /\ lexer \in Lexers(Token) /\ tokens \in Seq(Token)
        /\ lexer.pos \in 0 .. Len(text) /\ RightPlace(text, lexer.pos, lexer.line, lexer.col)
        /\ lexer.peeked \in SUBSET Token
    BY DEF LInv, LexerOK, Lexers
  <1> DEFINE r == LexOne(lexer, text)
  <1>2. /\ r.lexer \in Lexers(Token) /\ r.token \in Token
        /\ r.lexer.peeked = lexer.peeked /\ r.lexer.pos = EndOf(r.token)
        /\ RightPlace(text, r.lexer.pos, r.lexer.line, r.lexer.col)
        /\ GoodToken(text, r.token, lexer.pos)
    BY <1>1, LexOneIs
  <1> HIDE DEF r
  <1>3. CASE NextToken
    <2>1. CASE lexer.peeked = {}
      <3>1. lexer' = r.lexer /\ tokens' = Append(tokens, r.token) /\ text' = text /\ Lexing
        BY <1>3, <2>1 DEF NextToken, LexerNext, r
      <3>2. lexer.pos = ReadTo(tokens)
        BY <2>1 DEF LInv, LexerOK
      <3> QED BY <1>2, <2>1, <3>1, <3>2, NextTokenKeeps
    <2>2. CASE lexer.peeked # {}
      <3>1. PICK k \in lexer.peeked : /\ lexer.peeked = {k} /\ lexer.pos = EndOf(k)
                                      /\ GoodToken(text, k, ReadTo(tokens))
        BY <2>2 DEF LInv, PeekedOK
      <3>0. k \in Token
        BY <1>1, <3>1
      <3>2. (CHOOSE x \in lexer.peeked : TRUE) = k
        BY <3>1
      <3>3. /\ lexer' = [lexer EXCEPT !.peeked = {}] /\ tokens' = Append(tokens, k)
            /\ text' = text /\ Lexing
        BY <1>3, <2>2, <3>2 DEF NextToken, LexerNext
      <3>4. /\ lexer' \in Lexers(Token) /\ lexer'.peeked = {} /\ lexer'.pos = lexer.pos
            /\ lexer'.line = lexer.line /\ lexer'.col = lexer.col
        BY <1>1, <3>3 DEF Lexers
      <3> QED BY <1>1, <3>0, <3>1, <3>3, <3>4, NextTokenKeeps
    <2> QED BY <2>1, <2>2
  <1>4. CASE Peek
    <2>1. /\ lexer.peeked = {} /\ lexer' = [r.lexer EXCEPT !.peeked = {r.token}]
          /\ text' = text /\ tokens' = tokens
      BY <1>4 DEF Peek, LexerPeek, r
    <2>2. /\ lexer' \in Lexers(Token) /\ lexer'.peeked = {r.token} /\ lexer'.pos = r.lexer.pos
          /\ lexer'.line = r.lexer.line /\ lexer'.col = r.lexer.col
      BY <1>2, <2>1 DEF Lexers
    <2>3. GoodToken(text, r.token, ReadTo(tokens))
      BY <1>2, <2>1 DEF LInv, LexerOK
    <2>4. lexer'.pos \in 0 .. Len(text)
      BY <1>1, <1>2, <2>2, <2>3, TextLen DEF GoodToken
    <2>5. LexerOK'
      BY <1>2, <2>1, <2>2, <2>4 DEF LexerOK
    <2>6. PeekedOK'
      BY <1>2, <2>1, <2>2, <2>3 DEF PeekedOK
    <2>7. LastOK' /\ ReadOK'
      BY <2>1 DEF LInv, LastOK, ReadOK, Lexing
    <2> QED BY <1>1, <2>1, <2>2, <2>5, <2>6, <2>7 DEF LInv
  <1>5. CASE UNCHANGED lvars
    BY <1>5 DEF lvars, LInv, LexerOK, PeekedOK, LastOK, ReadOK, Lexing
  <1> QED BY <1>3, <1>4, <1>5 DEF LNext

LEMMA LexerKeeps == LSpec => []LInv
  BY LInvInit, LInvStep, PTL DEF LSpec

-----------------------------------------------------------------------------
(* A good token is one in the sense of RFC 001.                             *)
LEMMA GoodIsToken ==
  ASSUME text \in Text, NEW k \in Token, NEW from \in Nat, GoodToken(text, k, from)
  PROVE  IsToken(k)
  <1> DEFINE p == k.start
             e == EndOf(k)
  <1>1. /\ p \in from .. Len(text) /\ e \in p .. Len(text) /\ k.text = Slice(text, p, e)
        /\ Opens(Slice(text, p, Len(text))) \notin {LineSign, BlockSign}
        /\ (k.type = "eof" /\ p = Len(text)) \/ TokenAt(text, p, e, k.type)
    BY DEF GoodToken
  <1>2. Len(text) \in Nat /\ p \in Nat /\ p \in 0 .. Len(text)
    BY <1>1, TextLen DEF Token
  <1>3. Len(k.text) = e - p
    <2> HIDE DEF p, e
    <2> QED BY <1>1, <1>2, SliceIs
  <1>4. Longest(text, p, e) <=> LongestAt(k)
    BY DEF Longest, LongestAt
  <1>5. CASE k.type = "eof"
    BY <1>1, <1>5 DEF TokenAt, IsToken
  <1>6. CASE k.type = "error"
    <2>1. e = p + 1 /\ TypesTaken(k.text) = {} /\ LongestAt(k)
      BY <1>1, <1>4, <1>6 DEF TokenAt
    <2>2. Len(k.text) = 1
      BY <1>2, <1>3, <2>1
    <2> QED BY <1>6, <2>1, <2>2 DEF IsToken
  <1>7. CASE k.type \notin {"eof", "error"}
    <2>1. \/ k.type \in TypesTaken(k.text) /\ LongestAt(k)
          \/ k.type = "string" /\ e = Len(text) /\ IsOpenString(k.text)
      BY <1>1, <1>4, <1>7 DEF TokenAt
    <2>2. Rest(k) = Slice(text, p, Len(text))
      BY DEF Rest
    <2> QED BY <1>1, <1>7, <2>1, <2>2 DEF IsToken
  <1> QED BY <1>5, <1>6, <1>7

LEMMA LastToken ==
  ASSUME LInv, tokens # <<>>
  PROVE  /\ tokens[Len(tokens)] \in Token
         /\ ReadTo(SubSeq(tokens, 1, Len(tokens) - 1)) \in Nat
         /\ GoodToken(text, tokens[Len(tokens)], ReadTo(SubSeq(tokens, 1, Len(tokens) - 1)))
  <1> DEFINE front == SubSeq(tokens, 1, Len(tokens) - 1)
             n == Len(front)
  <1>1. tokens \in Seq(Token) /\ Len(tokens) \in Nat /\ Len(tokens) \in 1 .. Len(tokens)
    BY DEF LInv
  <1>2. tokens[Len(tokens)] \in Token
    BY <1>1, ElementOf
  <1>3. front \in Seq(Token)
    BY <1>1
  <1>4. ReadTo(front) \in Nat
    <2> HIDE DEF front
    <2>1. CASE front = <<>>
      BY <2>1 DEF ReadTo
    <2>2. CASE front # <<>>
      <3>1. n \in 1 .. Len(front)
        BY <1>3, <2>2
      <3>2. front[n] \in Token
        BY <1>3, <3>1, ElementOf
      <3>3. front[n].start \in Nat /\ Len(front[n].text) \in Nat
        BY <3>2, TextLen DEF Token
      <3> QED BY <2>2, <3>3 DEF ReadTo, EndOf
    <2> QED BY <2>1, <2>2
  <1> QED BY <1>2, <1>4 DEF LInv, LastOK

(* On any text, whatever calls of lexer_peek come between: the token list   *)
(* covers the text with longest tokens of the right type, with nothing but  *)
(* blanks and comments between them.                                        *)
THEOREM TokensCoverText == LSpec => []TokensTile
  <1>1. LInv => TokensTile
    <2> SUFFICES ASSUME LInv, tokens # <<>>
                 PROVE  LET k == tokens[Len(tokens)]
                            from == ReadTo(SubSeq(tokens, 1, Len(tokens) - 1))
                        IN  /\ k.text = Slice(text, k.start, EndOf(k)) /\ IsToken(k)
                            /\ IsGap(text, from, k.start)
      BY DEF TokensTile
    <2> DEFINE k == tokens[Len(tokens)]
               from == ReadTo(SubSeq(tokens, 1, Len(tokens) - 1))
    <2>1. text \in Text /\ k \in Token /\ from \in Nat /\ GoodToken(text, k, from)
      BY LastToken DEF LInv
    <2> HIDE DEF k, from
    <2>2. IsToken(k)
      BY <2>1, GoodIsToken
    <2>3. k.text = Slice(text, k.start, EndOf(k)) /\ IsGap(text, from, k.start)
      BY <2>1 DEF GoodToken
    <2> QED BY <2>2, <2>3 DEF k, from
  <1> QED BY <1>1, LexerKeeps, PTL

(* On any text: the line and the column of a token are the ones of the      *)
(* place it starts at, however many line ends comments and strings before   *)
(* it hold, and whether it was peeked at or not.                            *)
THEOREM PlacesAreRight == LSpec => []PositionsRight
  <1>1. LInv => PositionsRight
    <2> SUFFICES ASSUME LInv, tokens # <<>>
                 PROVE  LET k == tokens[Len(tokens)]
                            ends == {p \in 0 .. k.start - 1 : At(text, p) = "\n"}
                        IN  k.line = 1 + Cardinality(ends) /\ k.col = k.start - Max(ends \cup {-1})
      BY DEF PositionsRight
    <2>1. GoodToken(text, tokens[Len(tokens)], ReadTo(SubSeq(tokens, 1, Len(tokens) - 1)))
      BY LastToken
    <2> QED BY <2>1 DEF GoodToken, RightPlace, LineEndsIn
  <1> QED BY <1>1, LexerKeeps, PTL

(* On any text: every token but the end takes a character at least, so that *)
(* lex_all comes to the end of the text.                                    *)
THEOREM LexerComesToEnd == LSpec => []LexingEnds
  <1>1. LInv => LexingEnds
    <2> SUFFICES ASSUME LInv, Lexing PROVE Len(tokens) <= Len(text)
      BY DEF LexingEnds
    <2>1. text \in Text /\ tokens \in Seq(Token)
      BY DEF LInv
    <2>2. ReadTo(tokens) \in 0 .. Len(text) /\ Len(tokens) <= ReadTo(tokens)
      BY DEF LInv, ReadOK
    <2> QED BY <2>1, <2>2, TextLen
  <1> QED BY <1>1, LexerKeeps, PTL
=============================================================================
