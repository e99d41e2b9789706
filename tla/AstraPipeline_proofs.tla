------------------------ MODULE AstraPipeline_proofs ------------------------
(***************************************************************************)
(* For any programs, chunks, losses and interrupts: the file, the places   *)
(* in it and the loaders keep their types; and one command at a time finds *)
(* nothing but its own program's beginning in the shared file, and runs    *)
(* its own program, whole.                                                 *)
(***************************************************************************)
EXTENDS AstraPipeline, AstraInduction, TLAPS, SequenceTheorems, FiniteSetTheorems

Matches(f, o) == Len(f) <= Len(o) /\ \A i \in 1 .. Len(f) : f[i] = o[i]

(* FileIsOwnPrefix is not inductive: the next chunk extends the prefix only *)
(* because it goes where the file ends, and only because nobody else has    *)
(* opened the file since.                                                   *)
Shape ==
    /\ file \in Seq(Nat)
    /\ pc \in [User -> {"idle"} \cup Busy]
    /\ prog \in [User -> Compiled \cup {NoModule}]
    /\ pos \in [User -> Nat]

Alone == \A u, v \in User : pc[u] \in Busy /\ pc[v] \in Busy => u = v

IdleForgets == \A u \in User : pc[u] = "idle" => prog[u] = NoModule /\ pos[u] = 0

AtItsEnd ==
    \A u \in User : pc[u] = "writing" =>
        /\ prog[u] # NoModule
        /\ pos[u] <= Len(Output[prog[u]])
        /\ pos[u] < Len(Output[prog[u]]) => Len(file) = pos[u]

OwnPart == \A u \in User : prog[u] # NoModule => Matches(file, Output[prog[u]])

IInv == Shape /\ Alone /\ IdleForgets /\ AtItsEnd /\ OwnPart

-----------------------------------------------------------------------------
LEMMA OutputType == \A m \in Compiled \cup {NoModule} : Output[m] \in Seq(Nat)
  <1> TAKE m \in Compiled \cup {NoModule}
  <1>1. <<>> \in Seq(Nat)
    OBVIOUS
  <1> QED BY <1>1, PipelineAssumption DEF Output

LEMMA MatchesPrefix ==
  ASSUME NEW f \in Seq(Nat), NEW o \in Seq(Nat), Matches(f, o)
  PROVE  IsPrefix(f, o)
  <1>1. SubSeq(f, 1, Len(f)) = SubSeq(o, 1, Len(f))
    BY DEF Matches
  <1> QED BY <1>1 DEF Matches, IsPrefix

LEMMA OverlayExtends ==
  ASSUME NEW f \in Seq(Nat), NEW o \in Seq(Nat), Matches(f, o),
         NEW n \in Nat, Len(f) + n <= Len(o)
  PROVE  LET g == Overlay(f, Len(f), SubSeq(o, Len(f) + 1, Len(f) + n))
         IN  g \in Seq(Nat) /\ Len(g) = Len(f) + n /\ Matches(g, o)
  <1> DEFINE k == Len(f)
             words == SubSeq(o, k + 1, k + n)
             g == Overlay(f, k, words)
  <1>1. k \in Nat /\ Len(o) \in Nat
    OBVIOUS
  <1>2. Len(words) = n /\ \A i \in 1 .. n : words[i] = o[k + i]
    BY <1>1
  <1>3. /\ (IF k + Len(words) > k THEN k + Len(words) ELSE k) = k + n
        /\ k + n \in Nat
    BY <1>1, <1>2
  <1>4. g = [i \in 1 .. k + n |->
               IF i > k /\ i <= k + n THEN words[i - k]
               ELSE IF i <= k THEN f[i] ELSE 0]
    <2> DEFINE Cells(top, end) ==
                  [i \in 1 .. top |-> IF i > k /\ i <= end THEN words[i - k]
                                      ELSE IF i <= k THEN f[i] ELSE 0]
               end == k + Len(words)
    <2>1. g = Cells(IF end > k THEN end ELSE k, end)
      BY DEF Overlay
    <2>2. end = k + n /\ (IF end > k THEN end ELSE k) = k + n
      BY <1>2, <1>3
    <2> HIDE DEF Cells, end, g
    <2>3. g = Cells(k + n, k + n)
      BY <2>1, <2>2
    <2> QED BY <2>3 DEF Cells
  <1> HIDE DEF g, words
  <1>5. \A i \in 1 .. k + n : g[i] = o[i]
    <2> TAKE i \in 1 .. k + n
    <2>1. CASE i <= k
      <3>1. i \in 1 .. k /\ g[i] = f[i]
        BY <1>1, <1>4, <2>1
      <3> QED BY <3>1 DEF Matches
    <2>2. CASE i > k
      <3>1. i - k \in 1 .. n /\ k + (i - k) = i
        BY <1>1, <2>2
      <3>2. words[i - k] = o[i]
        BY <1>2, <3>1
      <3>3. g[i] = words[i - k]
        BY <1>1, <1>4, <2>2
      <3> QED BY <3>2, <3>3
    <2> QED BY <1>1, <2>1, <2>2
  <1>6. \A i \in 1 .. k + n : g[i] \in Nat
    BY <1>1, <1>5
  <1>7. g \in [1 .. k + n -> Nat]
    BY <1>4, <1>6
  <1>8. g \in Seq(Nat) /\ Len(g) = k + n
    <2>1. g \in Seq(Nat)
      BY <1>3, <1>7, SeqDef
    <2>2. DOMAIN g = 1 .. k + n
      BY <1>7
    <2> QED BY <1>3, <2>1, <2>2, LenProperties
  <1> QED BY <1>1, <1>5, <1>8 DEF Matches, g, words

(* With room for one command only, whoever begins is alone.                 *)
LEMMA FreeMeansAlone ==
  ASSUME Together <= 1, Free
  PROVE  \A u \in User : pc[u] \notin Busy
  <1> DEFINE B == {u \in User : pc[u] \in Busy}
  <1>1. IsFiniteSet(B) /\ Cardinality(B) \in Nat
    BY PipelineAssumption, FS_Subset, FS_CardinalityType
  <1>2. Cardinality(B) = 0
    BY <1>1, PipelineAssumption DEF Free
  <1>3. B = {}
    BY <1>1, <1>2, FS_EmptySet
  <1> QED BY <1>3

-----------------------------------------------------------------------------
LEMMA InitKept == Init => IInv
  BY PipelineAssumption DEF Init, IInv, Shape, Alone, IdleForgets, AtItsEnd, OwnPart, Busy

LEMMA EndKept == ASSUME IInv, NEW u \in User, NEW s, End(u, s) PROVE IInv'
  <1> USE DEF IInv
  <1>1. Shape'
    BY DEF Shape, End
  <1>2. Alone' /\ IdleForgets'
    BY DEF Shape, Alone, IdleForgets, End, Busy
  <1>3. AtItsEnd' /\ OwnPart'
    BY DEF Shape, AtItsEnd, OwnPart, End
  <1> QED BY <1>1, <1>2, <1>3

LEMMA OpenKept ==
  ASSUME Together <= 1, IInv, NEW u \in User, NEW m \in Compiled, Open(u, m)
  PROVE  IInv'
  <1> USE DEF IInv
  <1>1. \A v \in User : pc[v] = "idle" /\ prog[v] = NoModule /\ pos[v] = 0
    BY FreeMeansAlone DEF Open, Begin, Shape, IdleForgets
  <1>2. /\ pc' = [pc EXCEPT ![u] = "writing"] /\ prog' = [prog EXCEPT ![u] = m]
        /\ file' = <<>> /\ pos' = pos
    BY DEF Open, Begin
  <1>3. Shape'
    BY <1>2 DEF Shape, Busy
  <1>4. Alone' /\ IdleForgets'
    BY <1>1, <1>2 DEF Shape, Alone, IdleForgets, Busy
  <1>5. AtItsEnd'
    <2>1. Len(Output[m]) \in Nat /\ m # NoModule
      BY OutputType, PipelineAssumption
    <2> QED BY <1>1, <1>2, <2>1 DEF Shape, AtItsEnd
  <1>6. OwnPart'
    <2>1. \A v \in User : prog'[v] # NoModule => prog'[v] = m
      BY <1>1, <1>2 DEF Shape
    <2>2. Matches(<<>>, Output[m])
      BY OutputType DEF Matches
    <2> QED BY <1>2, <2>1, <2>2 DEF OwnPart
  <1> QED BY <1>3, <1>4, <1>5, <1>6

(* A chunk, whole or in part, goes where the file ends.                     *)
LEMMA ChunkKept ==
  ASSUME IInv, NEW u \in User, pc[u] = "writing",
         NEW n \in Nat, n <= Rest(u), Rest(u) > 0,
         file' = Overlay(file, pos[u], SubSeq(Output[prog[u]], pos[u] + 1, pos[u] + n)),
         NEW p \in Nat, p \in {pos[u] + n, Len(Output[prog[u]])},
         pos' = [pos EXCEPT ![u] = p], UNCHANGED <<pc, prog>>
  PROVE  IInv'
  <1> USE DEF IInv
  <1> DEFINE o == Output[prog[u]]
  <1>1. o \in Seq(Nat) /\ Len(o) \in Nat /\ prog[u] # NoModule /\ pos[u] \in Nat
    BY OutputType DEF Shape, AtItsEnd
  <1>2. Len(file) = pos[u] /\ pos[u] + n <= Len(o)
    <2>1. Rest(u) = Len(o) - pos[u]
      BY DEF Rest
    <2>2. pos[u] < Len(o) /\ pos[u] + n <= Len(o)
      <3> HIDE DEF o
      <3> QED BY <1>1, <2>1
    <2> QED BY <2>2 DEF AtItsEnd
  <1>3. Matches(file, o) /\ file \in Seq(Nat)
    BY <1>1 DEF OwnPart, Shape
  <1>4. file' \in Seq(Nat) /\ Len(file') = pos[u] + n /\ Matches(file', o)
    <2> DEFINE g == Overlay(file, Len(file), SubSeq(o, Len(file) + 1, Len(file) + n))
    <2>1. g \in Seq(Nat) /\ Len(g) = Len(file) + n /\ Matches(g, o)
      BY <1>1, <1>2, <1>3, OverlayExtends
    <2> QED BY <1>2, <2>1
  <1>5. Shape'
    BY <1>4 DEF Shape
  <1>6. Alone' /\ IdleForgets'
    BY DEF Shape, Alone, IdleForgets
  <1>7. \A v \in User : prog[v] # NoModule => v = u
    BY DEF Shape, Alone, IdleForgets, Busy
  <1>8. OwnPart'
    BY <1>4, <1>7 DEF OwnPart
  <1>9. AtItsEnd'
    <2>1. \A v \in User : pc[v] = "writing" => v = u
      BY <1>7 DEF AtItsEnd
    <2>2. pos'[u] = p /\ p <= Len(o) /\ (p < Len(o) => Len(file') = p)
      BY <1>1, <1>2, <1>4 DEF Shape
    <2> QED BY <1>1, <2>1, <2>2 DEF AtItsEnd
  <1> QED BY <1>5, <1>6, <1>8, <1>9

LEMMA FlushKept == ASSUME IInv, NEW u \in User, Flush(u) PROVE IInv'
  <1> DEFINE n == IF Rest(u) < FlushSize THEN Rest(u) ELSE FlushSize
  <1>1. Rest(u) \in Int /\ pos[u] \in Nat
    BY OutputType DEF IInv, Shape, Rest
  <1>2. n \in Nat /\ n <= Rest(u) /\ Rest(u) > 0
    BY <1>1, PipelineAssumption DEF Flush
  <1>3. pos[u] + n \in Nat
    BY <1>1, <1>2
  <1> QED BY <1>2, <1>3, ChunkKept DEF Flush

LEMMA LoseRestKept ==
  ASSUME IInv, NEW u \in User, NEW n \in 0 .. FlushSize - 1, LoseRest(u, n)
  PROVE  IInv'
  <1>1. Rest(u) \in Int /\ Len(Output[prog[u]]) \in Nat
    BY OutputType DEF IInv, Shape, Rest
  <1>2. n \in Nat /\ n <= Rest(u) /\ Rest(u) > 0
    BY <1>1, PipelineAssumption DEF LoseRest
  <1> QED BY <1>1, <1>2, ChunkKept DEF LoseRest

(* Steps that touch neither the file nor what was written.                  *)
LEMMA ReadingKept ==
  ASSUME IInv, NEW u \in User, NEW stage \in Busy \ {"writing"},
         pc[u] \in Busy \/ \A v \in User : pc[v] \notin Busy,
         pc' = [pc EXCEPT ![u] = stage], UNCHANGED <<file, prog, pos>>
  PROVE  IInv'
  <1> USE DEF IInv
  <1>1. Shape' /\ IdleForgets'
    BY DEF Shape, IdleForgets, Busy
  <1>2. Alone'
    BY DEF Shape, Alone, Busy
  <1>3. AtItsEnd' /\ OwnPart'
    BY DEF Shape, AtItsEnd, OwnPart, Busy
  <1> QED BY <1>1, <1>2, <1>3

LEMMA Kept == UNCHANGED <<file, pc, prog, pos>> /\ IInv => IInv'
  BY DEF IInv, Shape, Alone, IdleForgets, AtItsEnd, OwnPart

LEMMA NextKept == ASSUME Together <= 1, IInv, [Next]_vars PROVE IInv'
  <1>1. CASE UNCHANGED vars
    BY <1>1, Kept DEF vars
  <1>2. ASSUME NEW u \in User, Flush(u) \/ Fill(u) \/ Take(u) PROVE IInv'
    BY <1>2, FlushKept, Kept DEF Fill, Take
  <1>3. ASSUME NEW u \in User, StartRuntime(u) \/ RunFile(u) \/ Accept(u) PROVE IInv'
    BY <1>3, FreeMeansAlone, ReadingKept DEF StartRuntime, RunFile, Begin, Accept, Busy
  <1>4. ASSUME NEW u \in User,
               Reject(u) \/ CannotOpen(u) \/ NoRuntime(u) \/ Return(u) \/ Interrupt(u)
        PROVE  IInv'
    BY <1>4, EndKept DEF Reject, CannotOpen, NoRuntime, Return, Interrupt
  <1> QED BY <1>1, <1>2, <1>3, <1>4, OpenKept, LoseRestKept DEF Next, Work

-----------------------------------------------------------------------------
(* While commands run one after the other, the shared file holds a prefix   *)
(* of the running command's own program, for any programs, chunk size,      *)
(* number of users, losses and interrupts (cmd_run, write_module).          *)
THEOREM OwnFile == ASSUME Together <= 1 PROVE Spec => []FileIsOwnPrefix
  <1>1. Init => IInv
    BY InitKept
  <1>2. IInv /\ [Next]_vars => IInv'
    BY NextKept
  <1>3. IInv => FileIsOwnPrefix
    BY OutputType, MatchesPrefix DEF IInv, Shape, OwnPart, FileIsOwnPrefix
  <1> QED BY <1>1, <1>2, <1>3, PTL DEF Spec

-----------------------------------------------------------------------------
(* What the loader's counters say of what it is waiting for.                *)
Counts(r) ==
    /\ r.want \in {"len", "char"} => r.strings > 0
    /\ r.want = "char" => r.chars > 0 /\ Len(r.got.strings) > 0
    /\ r.want \in {"name", "params", "locals", "instr_count", "instr"} => r.functions > 0
    /\ r.want \in {"params", "locals", "instr_count", "instr"} => Len(r.got.functions) > 0
    /\ r.want = "instr" => r.instrs > 0

LEMMA WantTyped ==
  ASSUME NEW r \in Reader, NEW field \in Field \cup Verdict
  PROVE  /\ Want(r, field) \in Reader /\ Want(r, field).want = field
         /\ Want(r, field).got = r.got /\ Want(r, field).strings = r.strings
         /\ Want(r, field).chars = r.chars /\ Want(r, field).functions = r.functions
         /\ Want(r, field).instrs = r.instrs
  <1> HIDE DEF File
  <1> QED BY DEF Want, Reader

LEMMA NextStringTyped ==
  ASSUME NEW r \in Reader
  PROVE  NextString(r) \in Reader /\ Counts(NextString(r))
  <1>1. "len" \in Field /\ "func_count" \in Field
    BY DEF Field
  <1>2. r.strings \in Nat
    BY DEF Reader
  <1>3. CASE r.strings > 0
    <2>1. NextString(r) = Want(r, "len")
      BY <1>3 DEF NextString
    <2> QED BY <1>1, <1>3, <2>1, WantTyped DEF Counts
  <1>4. CASE ~(r.strings > 0)
    <2>1. NextString(r) = Want(r, "func_count")
      BY <1>4 DEF NextString
    <2> QED BY <1>1, <2>1, WantTyped DEF Counts
  <1> QED BY <1>3, <1>4

LEMMA NextFunctionTyped ==
  ASSUME NEW r \in Reader
  PROVE  NextFunction(r) \in Reader /\ Counts(NextFunction(r))
  <1>1. "name" \in Field /\ "entry" \in Field
    BY DEF Field
  <1>2. CASE r.functions > 0
    <2>1. NextFunction(r) = Want(r, "name")
      BY <1>2 DEF NextFunction
    <2> QED BY <1>1, <1>2, <2>1, WantTyped DEF Counts
  <1>3. CASE ~(r.functions > 0)
    <2>1. NextFunction(r) = Want(r, "entry")
      BY <1>3 DEF NextFunction
    <2> QED BY <1>1, <2>1, WantTyped DEF Counts
  <1> QED BY <1>2, <1>3

LEMMA NextCharTyped ==
  ASSUME NEW r \in Reader, r.strings > 0, Len(r.got.strings) > 0
  PROVE  NextChar(r) \in Reader /\ Counts(NextChar(r))
  <1>1. CASE r.chars > 0
    <2>1. NextChar(r) = Want(r, "char") /\ "char" \in Field
      BY <1>1 DEF NextChar, Field
    <2> QED BY <1>1, <2>1, WantTyped DEF Counts
  <1>2. CASE ~(r.chars > 0)
    <2> DEFINE q == [r EXCEPT !.strings = @ - 1]
    <2>1. q \in Reader
      <3> HIDE DEF File
      <3> QED BY DEF Reader
    <2>2. NextChar(r) = NextString(q)
      BY <1>2 DEF NextChar
    <2> HIDE DEF q
    <2> QED BY <2>1, <2>2, NextStringTyped
  <1> QED BY <1>1, <1>2

LEMMA NextInstrTyped ==
  ASSUME NEW r \in Reader, r.functions > 0, Len(r.got.functions) > 0
  PROVE  NextInstr(r) \in Reader /\ Counts(NextInstr(r))
  <1>1. CASE r.instrs > 0
    <2>1. NextInstr(r) = Want(r, "instr") /\ "instr" \in Field
      BY <1>1 DEF NextInstr, Field
    <2> QED BY <1>1, <2>1, WantTyped DEF Counts
  <1>2. CASE ~(r.instrs > 0)
    <2> DEFINE q == [r EXCEPT !.functions = @ - 1]
    <2>1. q \in Reader
      <3> HIDE DEF File
      <3> QED BY DEF Reader
    <2>2. NextInstr(r) = NextFunction(q)
      BY <1>2 DEF NextInstr
    <2> HIDE DEF q
    <2> QED BY <2>1, <2>2, NextFunctionTyped
  <1> QED BY <1>1, <1>2

(* The two ways the loader's program grows: by a string, or by a function.  *)
LEMMA GotTyped ==
  ASSUME NEW g \in File
  PROVE  /\ g.strings \in Seq(Text) /\ g.functions \in Seq(Unit) /\ g.entry \in Nat
         /\ \A s \in Seq(Text) : [g EXCEPT !.strings = s] \in File
         /\ \A s \in Seq(Unit) : [g EXCEPT !.functions = s] \in File
         /\ \A e \in Nat : [g EXCEPT !.entry = e] \in File
  <1> HIDE DEF Unit, Text
  <1> QED BY DEF File

LEMMA ReaderTyped ==
  ASSUME NEW r \in Reader
  PROVE  /\ r.want \in Field \cup Verdict /\ r.strings \in Nat /\ r.chars \in Nat
         /\ r.functions \in Nat /\ r.instrs \in Nat /\ r.got \in File
         /\ \A x \in Nat : [r EXCEPT !.strings = x] \in Reader
         /\ \A x \in Nat : [r EXCEPT !.functions = x] \in Reader
         /\ \A x \in Nat : [r EXCEPT !.instrs = x] \in Reader
         /\ \A x \in Nat, g \in File : [r EXCEPT !.chars = x, !.got = g] \in Reader
         /\ \A x \in Nat, g \in File : [r EXCEPT !.instrs = x, !.got = g] \in Reader
         /\ \A g \in File : [r EXCEPT !.got = g] \in Reader
  <1> HIDE DEF File
  <1> QED BY DEF Reader

(* The loader's steps, field by field, in terms of these.                   *)
NewString(g) == [g EXCEPT !.strings = Append(g.strings, <<>>)]
MoreOfString(g, w) ==
    [g EXCEPT !.strings = [g.strings EXCEPT ![Len(g.strings)] = Append(@, w)]]
Blank(w) == [name |-> w, params |-> 0, locals |-> 0, instrs |-> <<>>]
NewUnit(g, w) == [g EXCEPT !.functions = Append(g.functions, Blank(w))]
LastUnit(g) == g.functions[Len(g.functions)]
ChangedUnit(g, x) ==
    [g EXCEPT !.functions = [g.functions EXCEPT ![Len(g.functions)] = x]]

LEMMA FeedIs ==
  ASSUME NEW r \in Reader, NEW w \in Nat
  PROVE
    /\ r.want = "magic" => Feed(r, w) = Want(r, IF w = Magic THEN "version" ELSE "error")
    /\ r.want = "version" =>
          Feed(r, w) = Want(r, IF Major(w) = Major(Version) THEN "flags" ELSE "error")
    /\ r.want = "flags" => Feed(r, w) = Want(r, "str_count")
    /\ r.want = "str_count" => Feed(r, w) = Counted(r, w, NextString([r EXCEPT !.strings = w]))
    /\ r.want = "len" =>
          Feed(r, w) = Counted(r, w, NextChar([r EXCEPT !.chars = w, !.got = NewString(r.got)]))
    /\ r.want = "char" =>
          Feed(r, w) = NextChar([r EXCEPT !.chars = r.chars - 1, !.got = MoreOfString(r.got, w)])
    /\ r.want = "func_count" =>
          Feed(r, w) = Counted(r, w, NextFunction([r EXCEPT !.functions = w]))
    /\ r.want = "name" => Feed(r, w) = Want([r EXCEPT !.got = NewUnit(r.got, w)], "params")
    /\ r.want = "params" =>
          Feed(r, w) = Want([r EXCEPT !.got =
              ChangedUnit(r.got, [LastUnit(r.got) EXCEPT !.params = w])], "locals")
    /\ r.want = "locals" =>
          Feed(r, w) = Want([r EXCEPT !.got =
              ChangedUnit(r.got, [LastUnit(r.got) EXCEPT !.locals = w])], "instr_count")
    /\ r.want = "instr_count" => Feed(r, w) = Counted(r, w, NextInstr([r EXCEPT !.instrs = w]))
    /\ r.want = "instr" =>
          Feed(r, w) = NextInstr([r EXCEPT !.instrs = r.instrs - 1, !.got =
              ChangedUnit(r.got, [LastUnit(r.got) EXCEPT
                                     !.instrs = Append(LastUnit(r.got).instrs, FromU32(w))])])
    /\ r.want = "entry" => Feed(r, w) = Want([r EXCEPT !.got = [r.got EXCEPT !.entry = w]], "module")
    /\ r.want \notin Field => Feed(r, w) = r
  <1>1. r.want = "magic" => Feed(r, w) = Want(r, IF w = Magic THEN "version" ELSE "error")
    BY DEF Feed, Check
  <1>2. r.want = "version" =>
          Feed(r, w) = Want(r, IF Major(w) = Major(Version) THEN "flags" ELSE "error")
    BY DEF Feed, Check
  <1>3. r.want = "flags" => Feed(r, w) = Want(r, "str_count")
    BY DEF Feed
  <1>4. r.want = "str_count" => Feed(r, w) = Counted(r, w, NextString([r EXCEPT !.strings = w]))
    BY DEF Feed
  <1>5. r.want = "len" =>
          Feed(r, w) = Counted(r, w, NextChar([r EXCEPT !.chars = w, !.got = NewString(r.got)]))
    BY DEF Feed, NewString
  <1>6. r.want = "char" =>
          Feed(r, w) = NextChar([r EXCEPT !.chars = r.chars - 1, !.got = MoreOfString(r.got, w)])
    BY DEF Feed, MoreOfString
  <1>7. r.want = "func_count" =>
          Feed(r, w) = Counted(r, w, NextFunction([r EXCEPT !.functions = w]))
    BY DEF Feed
  <1>8. r.want = "name" => Feed(r, w) = Want([r EXCEPT !.got = NewUnit(r.got, w)], "params")
    BY DEF Feed, NewUnit, Blank
  <1>9. r.want = "params" =>
          Feed(r, w) = Want([r EXCEPT !.got =
              ChangedUnit(r.got, [LastUnit(r.got) EXCEPT !.params = w])], "locals")
    BY DEF Feed, ChangedUnit, LastUnit
  <1>10. r.want = "locals" =>
          Feed(r, w) = Want([r EXCEPT !.got =
              ChangedUnit(r.got, [LastUnit(r.got) EXCEPT !.locals = w])], "instr_count")
    BY DEF Feed, ChangedUnit, LastUnit
  <1>11. r.want = "instr_count" => Feed(r, w) = Counted(r, w, NextInstr([r EXCEPT !.instrs = w]))
    BY DEF Feed
  <1>12. r.want = "instr" =>
          Feed(r, w) = NextInstr([r EXCEPT !.instrs = r.instrs - 1, !.got =
              ChangedUnit(r.got, [LastUnit(r.got) EXCEPT
                                     !.instrs = Append(LastUnit(r.got).instrs, FromU32(w))])])
    BY DEF Feed, ChangedUnit, LastUnit
  <1>13. r.want = "entry" =>
          Feed(r, w) = Want([r EXCEPT !.got = [r.got EXCEPT !.entry = w]], "module")
    BY DEF Feed
  <1>14. r.want \notin Field => Feed(r, w) = r
    BY DEF Feed, Field
  <1> QED BY <1>1, <1>2, <1>3, <1>4, <1>5, <1>6, <1>7, <1>8, <1>9, <1>10, <1>11, <1>12,
             <1>13, <1>14

LEMMA FromU32Typed == ASSUME NEW w \in Nat PROVE FromU32(w) \in Opcodes
  BY FormatAssumption DEF FromU32

LEMMA NewStringIs ==
  ASSUME NEW g \in File
  PROVE  /\ NewString(g) \in File /\ Len(NewString(g).strings) = Len(g.strings) + 1
         /\ \A i \in 1 .. Len(g.strings) : NewString(g).strings[i] = g.strings[i]
         /\ NewString(g).strings[Len(g.strings) + 1] = <<>>
         /\ NewString(g).functions = g.functions /\ NewString(g).entry = g.entry
  <1> DEFINE s == g.strings
             t == Append(s, <<>>)
  <1>1. s \in Seq(Text) /\ <<>> \in Text
    BY GotTyped DEF Text
  <1>2. NewString(g).strings = t /\ NewString(g).functions = g.functions
        /\ NewString(g).entry = g.entry
    BY DEF NewString, File
  <1>3. t \in Seq(Text) => NewString(g) \in File
    BY GotTyped DEF NewString
  <1> HIDE DEF s
  <1>4. t \in Seq(Text) /\ Len(t) = Len(s) + 1 /\ t[Len(s) + 1] = <<>>
    BY <1>1
  <1>5. \A i \in 1 .. Len(s) : t[i] = s[i]
    BY <1>1
  <1> HIDE DEF t
  <1> QED BY <1>2, <1>3, <1>4, <1>5 DEF s

LEMMA MoreOfStringIs ==
  ASSUME NEW g \in File, NEW w \in Nat, Len(g.strings) > 0
  PROVE  LET n == Len(g.strings) IN
         /\ MoreOfString(g, w) \in File /\ Len(MoreOfString(g, w).strings) = n
         /\ \A i \in 1 .. n - 1 : MoreOfString(g, w).strings[i] = g.strings[i]
         /\ MoreOfString(g, w).strings[n] = Append(g.strings[n], w)
         /\ MoreOfString(g, w).functions = g.functions /\ MoreOfString(g, w).entry = g.entry
  <1> DEFINE s == g.strings
             n == Len(s)
             t == [s EXCEPT ![n] = Append(s[n], w)]
  <1>1. s \in Seq(Text) /\ n \in Nat /\ n > 0
    BY GotTyped
  <1>2. MoreOfString(g, w).strings = t /\ MoreOfString(g, w).functions = g.functions
        /\ MoreOfString(g, w).entry = g.entry
    BY DEF MoreOfString, File
  <1>3. t \in Seq(Text) => MoreOfString(g, w) \in File
    BY GotTyped DEF MoreOfString
  <1>4. n \in 1 .. n /\ s[n] \in Text
    BY <1>1
  <1>5. Append(s[n], w) \in Text
    BY <1>4 DEF Text
  <1> HIDE DEF s
  <1>6. t \in Seq(Text) /\ Len(t) = n
    BY <1>1, <1>4, <1>5, ExceptSeq
  <1>7. t[n] = Append(s[n], w) /\ \A i \in 1 .. n - 1 : t[i] = s[i]
    BY <1>1, <1>4
  <1> HIDE DEF t, n
  <1> QED BY <1>2, <1>3, <1>6, <1>7 DEF s, n

LEMMA NewUnitIs ==
  ASSUME NEW g \in File, NEW w \in Nat
  PROVE  /\ NewUnit(g, w) \in File /\ Len(NewUnit(g, w).functions) = Len(g.functions) + 1
         /\ \A i \in 1 .. Len(g.functions) : NewUnit(g, w).functions[i] = g.functions[i]
         /\ NewUnit(g, w).functions[Len(g.functions) + 1] = Blank(w)
         /\ NewUnit(g, w).strings = g.strings /\ NewUnit(g, w).entry = g.entry
  <1> DEFINE s == g.functions
             x == Blank(w)
             t == Append(s, x)
  <1>1. s \in Seq(Unit) /\ x \in Unit
    <2>1. x \in Unit
      BY DEF Blank, Unit
    <2> HIDE DEF x, Unit
    <2> QED BY <2>1, GotTyped
  <1>2. NewUnit(g, w).functions = t /\ NewUnit(g, w).strings = g.strings
        /\ NewUnit(g, w).entry = g.entry
    <2> HIDE DEF Unit, x
    <2> QED BY DEF NewUnit, File, x
  <1>3. t \in Seq(Unit) => NewUnit(g, w) \in File
    <2> HIDE DEF Unit, x
    <2> QED BY GotTyped DEF NewUnit, x
  <1> HIDE DEF s, x, Unit
  <1>4. t \in Seq(Unit) /\ Len(t) = Len(s) + 1 /\ t[Len(s) + 1] = x
    BY <1>1
  <1>5. \A i \in 1 .. Len(s) : t[i] = s[i]
    BY <1>1
  <1> HIDE DEF t
  <1> QED BY <1>2, <1>3, <1>4, <1>5 DEF s, x

LEMMA LastUnitTyped ==
  ASSUME NEW g \in File, Len(g.functions) > 0
  PROVE  LastUnit(g) \in Unit
  <1> HIDE DEF Unit
  <1>1. g.functions \in Seq(Unit)
    BY GotTyped
  <1> QED BY <1>1 DEF LastUnit

LEMMA ChangedUnitIs ==
  ASSUME NEW g \in File, NEW x \in Unit, Len(g.functions) > 0
  PROVE  LET n == Len(g.functions) IN
         /\ ChangedUnit(g, x) \in File /\ Len(ChangedUnit(g, x).functions) = n
         /\ \A i \in 1 .. n - 1 : ChangedUnit(g, x).functions[i] = g.functions[i]
         /\ LastUnit(ChangedUnit(g, x)) = x
         /\ ChangedUnit(g, x).strings = g.strings /\ ChangedUnit(g, x).entry = g.entry
  <1> HIDE DEF Unit
  <1> DEFINE s == g.functions
             n == Len(s)
             t == [s EXCEPT ![n] = x]
  <1>1. s \in Seq(Unit) /\ n \in Nat /\ n > 0
    BY GotTyped
  <1>2. ChangedUnit(g, x).functions = t /\ ChangedUnit(g, x).strings = g.strings
        /\ ChangedUnit(g, x).entry = g.entry
    BY DEF ChangedUnit, File
  <1>3. t \in Seq(Unit) => ChangedUnit(g, x) \in File
    BY GotTyped DEF ChangedUnit
  <1>4. n \in 1 .. n
    BY <1>1
  <1> HIDE DEF s
  <1>6. t \in Seq(Unit) /\ Len(t) = n
    BY <1>1, <1>4, ExceptSeq
  <1>7. t[n] = x /\ \A i \in 1 .. n - 1 : t[i] = s[i]
    BY <1>1, <1>4
  <1> HIDE DEF t, n
  <1>8. LastUnit(ChangedUnit(g, x)) = x
    BY <1>2, <1>6, <1>7 DEF LastUnit
  <1> QED BY <1>2, <1>3, <1>6, <1>7, <1>8 DEF s, n

LEMMA CountedKeeps ==
  ASSUME NEW r \in Reader, NEW w \in Nat, NEW q \in Reader, Counts(q)
  PROVE  Counted(r, w, q) \in Reader /\ Counts(Counted(r, w, q))
  <1>1. CASE w > MaxCount
    <2>1. Counted(r, w, q) = Want(r, "error") /\ "error" \in Verdict
      BY <1>1 DEF Counted, Verdict
    <2> QED BY <2>1, WantTyped DEF Counts
  <1>2. CASE ~(w > MaxCount)
    <2>1. Counted(r, w, q) = q
      BY <1>2 DEF Counted
    <2> QED BY <2>1
  <1> QED BY <1>1, <1>2

(* Whatever the words, the loader's state has its type: no counter falls    *)
(* below zero, and the string or function it fills exists.                  *)
LEMMA FeedTyped ==
  ASSUME NEW r \in Reader, NEW w \in Nat, Counts(r)
  PROVE  Feed(r, w) \in Reader /\ Counts(Feed(r, w))
  <1> DEFINE Fine(q) == q \in Reader /\ Counts(q)
             g == r.got
  <1>0. g \in File /\ r.want \in Field \cup Verdict
    BY ReaderTyped
  <1> HIDE DEF g
  <1>1. CASE r.want \in {"magic", "version", "flags"}
    <2>1. PICK field \in {"version", "flags", "str_count", "error"} : Feed(r, w) = Want(r, field)
      BY <1>1, FeedIs
    <2>2. field \in Field \cup Verdict
      BY DEF Field, Verdict
    <2> QED BY <2>1, <2>2, WantTyped DEF Counts
  <1>2. CASE r.want = "str_count"
    <2> DEFINE q == [r EXCEPT !.strings = w]
    <2>1. q \in Reader /\ Feed(r, w) = Counted(r, w, NextString(q))
      BY <1>2, FeedIs, ReaderTyped
    <2> HIDE DEF q
    <2> QED BY <2>1, NextStringTyped, CountedKeeps
  <1>3. CASE r.want = "len"
    <2> DEFINE h == NewString(g)
               q == [r EXCEPT !.chars = w, !.got = h]
    <2>1. h \in File /\ Len(h.strings) = Len(g.strings) + 1
      BY <1>0, NewStringIs
    <2>2. Feed(r, w) = Counted(r, w, NextChar(q))
      BY <1>3, FeedIs DEF g
    <2> HIDE DEF h
    <2>3. q \in Reader /\ q.strings = r.strings /\ q.got = h
      BY <2>1, ReaderTyped DEF Reader
    <2>4. q.strings > 0 /\ Len(q.got.strings) > 0
      <3>1. Len(g.strings) \in Nat
        BY <1>0, GotTyped
      <3> QED BY <1>3, <2>1, <2>3, <3>1 DEF Counts
    <2> HIDE DEF q
    <2> QED BY <2>2, <2>3, <2>4, NextCharTyped, CountedKeeps
  <1>4. CASE r.want = "char"
    <2> DEFINE h == MoreOfString(g, w)
               c == r.chars - 1
               q == [r EXCEPT !.chars = c, !.got = h]
    <2>1. h \in File /\ Len(h.strings) = Len(g.strings) /\ Len(g.strings) > 0
      BY <1>0, <1>4, MoreOfStringIs DEF Counts, g
    <2>2. Feed(r, w) = NextChar(q)
      BY <1>4, FeedIs DEF g
    <2>3. c \in Nat
      <3>1. r.chars \in Nat
        BY ReaderTyped
      <3>2. r.chars > 0
        BY <1>4 DEF Counts
      <3> QED BY <3>1, <3>2
    <2> HIDE DEF h, c
    <2>4. q \in Reader /\ q.strings = r.strings /\ q.got = h
      BY <2>1, <2>3, ReaderTyped DEF Reader
    <2>5. q.strings > 0 /\ Len(q.got.strings) > 0
      BY <1>4, <2>1, <2>4 DEF Counts
    <2> HIDE DEF q
    <2> QED BY <2>2, <2>4, <2>5, NextCharTyped
  <1>5. CASE r.want = "func_count"
    <2> DEFINE q == [r EXCEPT !.functions = w]
    <2>1. q \in Reader /\ Feed(r, w) = Counted(r, w, NextFunction(q))
      BY <1>5, FeedIs, ReaderTyped
    <2> HIDE DEF q
    <2> QED BY <2>1, NextFunctionTyped, CountedKeeps
  <1>6. CASE r.want = "name"
    <2> DEFINE h == NewUnit(g, w)
               q == [r EXCEPT !.got = h]
    <2>1. h \in File /\ Len(h.functions) = Len(g.functions) + 1
      BY <1>0, NewUnitIs
    <2>2. Feed(r, w) = Want(q, "params") /\ "params" \in Field
      BY <1>6, FeedIs DEF g, Field
    <2> HIDE DEF h
    <2>3. q \in Reader /\ q.functions = r.functions /\ q.got = h
      BY <2>1, ReaderTyped DEF Reader
    <2>4. q.functions > 0 /\ Len(q.got.functions) > 0
      <3>1. Len(g.functions) \in Nat
        BY <1>0, GotTyped
      <3> QED BY <1>6, <2>1, <2>3, <3>1 DEF Counts
    <2> HIDE DEF q
    <2> QED BY <2>2, <2>3, <2>4, WantTyped DEF Counts
  <1>7. CASE r.want \in {"params", "locals"}
    <2>1. PICK x \in Unit, field \in {"locals", "instr_count"} :
             Feed(r, w) = Want([r EXCEPT !.got = ChangedUnit(g, x)], field)
      <3>1. LastUnit(g) \in Unit
        BY <1>0, <1>7, LastUnitTyped DEF Counts, g
      <3>2. [LastUnit(g) EXCEPT !.params = w] \in Unit /\ [LastUnit(g) EXCEPT !.locals = w] \in Unit
        BY <3>1 DEF Unit
      <3> HIDE DEF Unit
      <3> QED BY <1>7, <3>2, FeedIs DEF g
    <2> DEFINE h == ChangedUnit(g, x)
               q == [r EXCEPT !.got = h]
    <2>2. h \in File /\ Len(h.functions) = Len(g.functions) /\ Len(g.functions) > 0
      BY <1>0, <1>7, ChangedUnitIs DEF Counts, g
    <2>3. Feed(r, w) = Want(q, field) /\ field \in Field
      BY <2>1 DEF Field
    <2> HIDE DEF h
    <2>4. q \in Reader /\ q.functions = r.functions /\ q.got = h
      BY <2>2, ReaderTyped DEF Reader
    <2>5. q.functions > 0 /\ Len(q.got.functions) > 0
      BY <1>7, <2>2, <2>4 DEF Counts
    <2> HIDE DEF q
    <2> QED BY <2>1, <2>3, <2>4, <2>5, WantTyped DEF Counts
  <1>8. CASE r.want = "instr_count"
    <2> DEFINE q == [r EXCEPT !.instrs = w]
    <2>1. q \in Reader /\ Feed(r, w) = Counted(r, w, NextInstr(q))
      BY <1>8, FeedIs, ReaderTyped
    <2>2. q.functions > 0 /\ Len(q.got.functions) > 0
      BY <1>8 DEF Counts, Reader
    <2> HIDE DEF q
    <2> QED BY <2>1, <2>2, NextInstrTyped, CountedKeeps
  <1>9. CASE r.want = "instr"
    <2> DEFINE x == [LastUnit(g) EXCEPT !.instrs = Append(LastUnit(g).instrs, FromU32(w))]
               h == ChangedUnit(g, x)
               c == r.instrs - 1
               q == [r EXCEPT !.instrs = c, !.got = h]
    <2>1. x \in Unit
      <3>1. LastUnit(g) \in Unit
        BY <1>0, <1>9, LastUnitTyped DEF Counts, g
      <3>2. Append(LastUnit(g).instrs, FromU32(w)) \in Seq(Opcodes)
        BY <3>1, FromU32Typed DEF Unit
      <3> QED BY <3>1, <3>2 DEF Unit
    <2>2. Feed(r, w) = NextInstr(q)
      BY <1>9, FeedIs DEF g
    <2> HIDE DEF x
    <2>3. h \in File /\ Len(h.functions) = Len(g.functions) /\ Len(g.functions) > 0
      BY <1>0, <1>9, <2>1, ChangedUnitIs DEF Counts, g
    <2>4. c \in Nat
      <3>1. r.instrs \in Nat
        BY ReaderTyped
      <3>2. r.instrs > 0
        BY <1>9 DEF Counts
      <3> QED BY <3>1, <3>2
    <2> HIDE DEF h, c
    <2>5. q \in Reader /\ q.functions = r.functions /\ q.got = h
      BY <2>3, <2>4, ReaderTyped DEF Reader
    <2>6. q.functions > 0 /\ Len(q.got.functions) > 0
      BY <1>9, <2>3, <2>5 DEF Counts
    <2> HIDE DEF q
    <2> QED BY <2>2, <2>5, <2>6, NextInstrTyped
  <1>10. CASE r.want = "entry"
    <2> DEFINE q == [r EXCEPT !.got = [g EXCEPT !.entry = w]]
    <2>1. q \in Reader
      BY <1>0, GotTyped, ReaderTyped
    <2>2. Feed(r, w) = Want(q, "module") /\ "module" \in Verdict
      BY <1>10, FeedIs DEF g, Verdict
    <2> HIDE DEF q
    <2> QED BY <2>1, <2>2, WantTyped DEF Counts
  <1>11. CASE r.want \notin Field
    BY <1>11, FeedIs
  <1> QED BY <1>1, <1>2, <1>3, <1>4, <1>5, <1>6, <1>7, <1>8, <1>9, <1>10, <1>11 DEF Field
-----------------------------------------------------------------------------
(* The types, however many commands run at a time: a command that has not   *)
(* begun has nothing written, and the loader's counters are right.          *)
TInv == TypeOK /\ Shape /\ IdleForgets /\ \A u \in User : Counts(reader[u])

LEMMA OverlayTyped ==
  ASSUME NEW f \in Seq(Nat), NEW start \in Nat, NEW words \in Seq(Nat)
  PROVE  Overlay(f, start, words) \in Seq(Nat)
  <1> DEFINE end == start + Len(words)
             top == IF end > Len(f) THEN end ELSE Len(f)
             g == [i \in 1 .. top |-> IF i > start /\ i <= end THEN words[i - start]
                                      ELSE IF i <= Len(f) THEN f[i] ELSE 0]
  <1>1. Overlay(f, start, words) = g
    BY DEF Overlay
  <1>2. end \in Nat /\ top \in Nat /\ Len(words) \in Nat /\ Len(f) \in Nat
    OBVIOUS
  <1> HIDE DEF top, end
  <1>3. ASSUME NEW i \in 1 .. top PROVE g[i] \in Nat
    <2>1. CASE i > start /\ i <= end
      <3>1. i - start \in 1 .. Len(words)
        BY <1>2, <2>1 DEF end
      <3>2. g[i] = words[i - start]
        BY <2>1
      <3> QED BY <3>1, <3>2
    <2>2. CASE ~(i > start /\ i <= end)
      <3>1. g[i] = IF i <= Len(f) THEN f[i] ELSE 0
        BY <2>2
      <3>2. i <= Len(f) => f[i] \in Nat
        BY <1>2
      <3> HIDE DEF g
      <3> QED BY <3>1, <3>2
    <2> QED BY <2>1, <2>2
  <1>4. g \in [1 .. top -> Nat]
    BY <1>3
  <1> HIDE DEF g
  <1> QED BY <1>1, <1>2, <1>4, SeqDef

LEMMA PartTyped ==
  ASSUME NEW o \in Seq(Nat), NEW a \in Nat, NEW b \in Int, b <= Len(o)
  PROVE  SubSeq(o, a + 1, b) \in Seq(Nat)
  <1>1. ASSUME b < a + 1 PROVE SubSeq(o, a + 1, b) \in Seq(Nat)
    BY <1>1
  <1>2. ASSUME a + 1 <= b PROVE SubSeq(o, a + 1, b) \in Seq(Nat)
    BY <1>2
  <1> QED BY <1>1, <1>2

LEMMA NewReaderTyped == NewReader \in Reader /\ Counts(NewReader)
  <1>1. Empty \in File
    <2>1. <<>> \in Seq(Text) /\ <<>> \in Seq(Unit)
      <3> HIDE DEF Text, Unit
      <3> QED OBVIOUS
    <2> HIDE DEF Text, Unit
    <2> QED BY <2>1 DEF Empty, File
  <1>2. NewReader \in Reader
    <2> HIDE DEF Empty, File
    <2> QED BY <1>1 DEF NewReader, Reader, Field
  <1>3. Counts(NewReader)
    <2> HIDE DEF Empty
    <2> QED BY DEF NewReader, Counts
  <1> QED BY <1>2, <1>3

LEMMA TInit == Init => TInv
  <1> SUFFICES ASSUME Init PROVE TInv
    OBVIOUS
  <1>1. file \in Seq(Nat)
    BY PipelineAssumption DEF Init
  <1>2. \A u \in User : pos[u] \in 0 .. Len(Output[prog[u]])
    <2>1. Len(Output[NoModule]) \in Nat
      BY OutputType
    <2> QED BY <2>1 DEF Init
  <1>3. reader \in [User -> Reader] /\ \A u \in User : Counts(reader[u])
    <2> HIDE DEF Reader, NewReader, Counts
    <2> QED BY NewReaderTyped DEF Init
  <1>4. /\ pc \in [User -> {"idle"} \cup Busy] /\ prog \in [User -> Compiled \cup {NoModule}]
        /\ at \in [User -> Nat] /\ buffer \in [User -> Seq(Nat)]
        /\ exit \in [User -> {-1, 0, 1, Interrupted, NotStarted}]
        /\ pos \in [User -> Nat]
    BY DEF Init
  <1>5. IdleForgets
    BY DEF Init, IdleForgets
  <1> HIDE DEF Reader, Counts, Busy
  <1> QED BY <1>1, <1>2, <1>3, <1>4, <1>5 DEF TInv, TypeOK, Shape

LEMMA TEnd ==
  ASSUME TInv, NEW u \in User, NEW s \in {0, 1, Interrupted, NotStarted}, End(u, s)
  PROVE  TInv'
  <1> HIDE DEF Reader, NewReader, Counts, Busy, Interrupted, NotStarted
  <1>1. Len(Output[NoModule]) \in Nat
    BY OutputType
  <1>2. \A v \in User : pos'[v] \in 0 .. Len(Output[prog'[v]])
    <2> TAKE v \in User
    <2>1. CASE v = u
      BY <1>1, <2>1 DEF TInv, TypeOK, Shape, End
    <2>2. CASE v # u
      BY <2>2 DEF TInv, TypeOK, Shape, End
    <2> QED BY <2>1, <2>2
  <1>3. reader' \in [User -> Reader] /\ \A v \in User : Counts(reader'[v])
    BY NewReaderTyped DEF TInv, TypeOK, Shape, End
  <1>4. /\ pc' \in [User -> {"idle"} \cup Busy] /\ prog' \in [User -> Compiled \cup {NoModule}]
        /\ at' \in [User -> Nat] /\ file' \in Seq(Nat) /\ pos' \in [User -> Nat]
    BY DEF TInv, TypeOK, Shape, End
  <1>5. buffer' \in [User -> Seq(Nat)]
    BY DEF TInv, TypeOK, Shape, End
  <1>6. exit' \in [User -> {-1, 0, 1, Interrupted, NotStarted}]
    BY DEF TInv, TypeOK, Shape, End
  <1>7. IdleForgets'
    <2> SUFFICES ASSUME NEW v \in User, pc'[v] = "idle" PROVE prog'[v] = NoModule /\ pos'[v] = 0
      BY DEF IdleForgets
    <2>1. CASE v = u
      BY <2>1 DEF TInv, TypeOK, Shape, End
    <2>2. CASE v # u
      BY <2>2 DEF TInv, TypeOK, Shape, IdleForgets, End
    <2> QED BY <2>1, <2>2
  <1> QED BY <1>2, <1>3, <1>4, <1>5, <1>6, <1>7 DEF TInv, TypeOK, Shape

LEMMA TBegin ==
  ASSUME TInv, NEW u \in User, NEW stage \in Busy, Begin(u, stage),
         NEW m \in Compiled \cup {NoModule}, prog' = [prog EXCEPT ![u] = m],
         file' \in Seq(Nat), UNCHANGED <<pos, reader, at, buffer>>
  PROVE  TInv'
  <1>1. \A v \in User : pos'[v] \in 0 .. Len(Output[prog'[v]])
    <2>1. pos[u] = 0 /\ Len(Output[m]) \in Nat
      BY OutputType DEF TInv, IdleForgets, Begin
    <2> QED BY <2>1 DEF TInv, TypeOK, Shape
  <1>2. /\ pc' \in [User -> {"idle"} \cup Busy] /\ prog' \in [User -> Compiled \cup {NoModule}]
        /\ exit' \in [User -> {-1, 0, 1, Interrupted, NotStarted}]
    BY DEF TInv, TypeOK, Shape, Begin
  <1>3. IdleForgets'
    BY DEF TInv, TypeOK, Shape, IdleForgets, Begin, Busy
  <1> HIDE DEF Reader, Counts
  <1>4. /\ reader' \in [User -> Reader] /\ at' \in [User -> Nat] /\ buffer' \in [User -> Seq(Nat)]
        /\ \A v \in User : Counts(reader'[v])
    BY DEF TInv, TypeOK, Shape
  <1> QED BY <1>1, <1>2, <1>3, <1>4 DEF TInv, TypeOK, Shape

LEMMA TChunk ==
  ASSUME TInv, NEW u \in User, pc[u] = "writing", NEW n \in Nat, n <= Rest(u),
         file' = Overlay(file, pos[u], SubSeq(Output[prog[u]], pos[u] + 1, pos[u] + n)),
         NEW p \in {pos[u] + n, Len(Output[prog[u]])}, pos' = [pos EXCEPT ![u] = p],
         UNCHANGED <<pc, prog, reader, at, buffer, exit>>
  PROVE  TInv'
  <1> DEFINE o == Output[prog[u]]
  <1>1. o \in Seq(Nat) /\ pos[u] \in 0 .. Len(o)
    BY OutputType DEF TInv, TypeOK, Shape
  <1>2. pos[u] + n <= Len(o) /\ Len(o) \in Nat /\ pos[u] \in Nat
    <2>1. Rest(u) = Len(o) - pos[u]
      BY DEF Rest
    <2> HIDE DEF o
    <2> QED BY <1>1, <2>1
  <1>3. file' \in Seq(Nat)
    <2>1. SubSeq(o, pos[u] + 1, pos[u] + n) \in Seq(Nat)
      <3> HIDE DEF o
      <3> QED BY <1>1, <1>2, PartTyped
    <2> QED BY <1>2, <2>1, OverlayTyped DEF TInv, TypeOK, Shape
  <1>4. \A v \in User : pos'[v] \in 0 .. Len(Output[prog'[v]])
    <2>1. p \in 0 .. Len(o)
      <3> HIDE DEF o
      <3>1. p \in {pos[u] + n, Len(o)}
        BY DEF o
      <3> QED BY <1>1, <1>2, <3>1
    <2> QED BY <2>1 DEF TInv, TypeOK, Shape
  <1>5. IdleForgets'
    BY DEF TInv, TypeOK, Shape, IdleForgets
  <1> HIDE DEF Reader, Counts
  <1> QED BY <1>3, <1>4, <1>5 DEF TInv, TypeOK, Shape

LEMMA TStage ==
  ASSUME TInv, NEW u \in User, NEW stage \in Busy, pc' = [pc EXCEPT ![u] = stage],
         UNCHANGED <<file, prog, pos, reader, at, buffer, exit>>
  PROVE  TInv'
  <1>1. pc' \in [User -> {"idle"} \cup Busy]
    BY DEF TInv, TypeOK, Shape
  <1>2. IdleForgets'
    BY DEF TInv, TypeOK, Shape, IdleForgets, Busy
  <1> HIDE DEF Reader, Counts
  <1> QED BY <1>1, <1>2 DEF TInv, TypeOK, Shape

LEMMA TRead ==
  ASSUME TInv, NEW u \in User, NEW r \in Reader, Counts(r), NEW b \in Seq(Nat), NEW a \in Nat,
         reader' = [reader EXCEPT ![u] = r], buffer' = [buffer EXCEPT ![u] = b],
         at' = [at EXCEPT ![u] = a], UNCHANGED <<file, pc, prog, pos, exit>>
  PROVE  TInv'
  <1> HIDE DEF Reader, Counts
  <1>1. reader' \in [User -> Reader] /\ \A v \in User : Counts(reader'[v])
    BY DEF TInv, TypeOK, Shape
  <1>2. buffer' \in [User -> Seq(Nat)] /\ at' \in [User -> Nat]
    BY DEF TInv, TypeOK, Shape
  <1>3. IdleForgets'
    BY DEF TInv, IdleForgets
  <1> QED BY <1>1, <1>2, <1>3 DEF TInv, TypeOK, Shape

LEMMA TFill == ASSUME TInv, NEW u \in User, Fill(u) PROVE TInv'
  <1> DEFINE end == IF at[u] + ReadSize < Len(file) THEN at[u] + ReadSize ELSE Len(file)
             words == SubSeq(file, at[u] + 1, end)
             r == IF words = <<>> THEN AtEnd(reader[u]) ELSE reader[u]
             a == at[u] + Len(words)
  <1>1. at[u] \in Nat /\ file \in Seq(Nat) /\ reader[u] \in Reader /\ Counts(reader[u])
    BY DEF TInv, TypeOK, Shape
  <1>2. end \in Nat /\ end <= Len(file)
    BY <1>1, PipelineAssumption
  <1>3. /\ buffer' = [buffer EXCEPT ![u] = words] /\ at' = [at EXCEPT ![u] = a]
        /\ reader' = IF words = <<>> THEN [reader EXCEPT ![u] = AtEnd(reader[u])] ELSE reader
        /\ UNCHANGED <<file, pc, prog, pos, exit>>
    BY DEF Fill
  <1> HIDE DEF end
  <1>4. words \in Seq(Nat)
    BY <1>1, <1>2, PartTyped
  <1> HIDE DEF words
  <1>5. a \in Nat
    BY <1>1, <1>4
  <1>6. reader' = [reader EXCEPT ![u] = r]
    <2>1. reader \in [User -> Reader]
      BY DEF TInv, TypeOK, Shape
    <2> HIDE DEF Reader
    <2> QED BY <1>3, <2>1
  <1>7. r \in Reader /\ Counts(r)
    <2>1. AtEnd(reader[u]) \in Reader /\ AtEnd(reader[u]).want = "error"
      BY <1>1, WantTyped DEF AtEnd, Verdict
    <2>2. Counts(AtEnd(reader[u]))
      BY <2>1 DEF Counts
    <2> QED BY <1>1, <2>1, <2>2
  <1> HIDE DEF r, a
  <1> QED BY <1>3, <1>4, <1>5, <1>6, <1>7, TRead

LEMMA TTake == ASSUME TInv, NEW u \in User, Take(u) PROVE TInv'
  <1> DEFINE r == Feed(reader[u], Head(buffer[u]))
             b == Tail(buffer[u])
             a == at[u]
  <1>1. /\ reader[u] \in Reader /\ Counts(reader[u]) /\ buffer[u] \in Seq(Nat) /\ buffer[u] # <<>>
        /\ a \in Nat /\ at \in [User -> Nat]
    BY DEF TInv, TypeOK, Shape, Take
  <1>2. b \in Seq(Nat) /\ Head(buffer[u]) \in Nat
    BY <1>1
  <1>3. r \in Reader /\ Counts(r)
    BY <1>1, <1>2, FeedTyped
  <1>4. /\ reader' = [reader EXCEPT ![u] = r] /\ buffer' = [buffer EXCEPT ![u] = b]
        /\ UNCHANGED <<file, pc, prog, pos, at, exit>>
    BY DEF Take
  <1>5. at' = [at EXCEPT ![u] = a]
    BY <1>1, <1>4
  <1> HIDE DEF r, b, a
  <1> QED BY <1>1, <1>2, <1>3, <1>4, <1>5, TRead

LEMMA TFlush == ASSUME TInv, NEW u \in User, Flush(u) PROVE TInv'
  <1> DEFINE n == IF Rest(u) < FlushSize THEN Rest(u) ELSE FlushSize
  <1>1. Rest(u) \in Nat
    <2>1. Output[prog[u]] \in Seq(Nat) /\ pos[u] \in 0 .. Len(Output[prog[u]])
      BY OutputType DEF TInv, TypeOK, Shape
    <2> DEFINE l == Len(Output[prog[u]])
    <2>2. l \in Nat /\ pos[u] \in 0 .. l /\ Rest(u) = l - pos[u]
      BY <2>1 DEF Rest
    <2> HIDE DEF l
    <2> QED BY <2>2
  <1>2. n \in Nat /\ n <= Rest(u)
    BY <1>1, PipelineAssumption
  <1> QED BY <1>2, TChunk DEF Flush

LEMMA TNext == TInv /\ [Next]_vars => TInv'
  <1> SUFFICES ASSUME TInv, [Next]_vars PROVE TInv'
    OBVIOUS
  <1>1. CASE UNCHANGED vars
    <2> HIDE DEF Reader, Counts
    <2> QED BY <1>1 DEF vars, TInv, TypeOK, Shape, IdleForgets
  <1>2. ASSUME NEW u \in User, StartRuntime(u) \/ Accept(u) PROVE TInv'
    BY <1>2, TStage DEF StartRuntime, Accept, Busy
  <1>3. ASSUME NEW u \in User, RunFile(u) PROVE TInv'
    <2>1. prog \in [User -> Compiled \cup {NoModule}] /\ file \in Seq(Nat)
      BY DEF TInv, TypeOK, Shape
    <2>2. prog' = [prog EXCEPT ![u] = prog[u]] /\ file' \in Seq(Nat)
          /\ prog[u] \in Compiled \cup {NoModule}
      BY <1>3, <2>1 DEF RunFile
    <2> QED BY <1>3, <2>2, TBegin DEF RunFile, Busy
  <1>4. ASSUME NEW u \in User, NEW m \in Compiled, Open(u, m) PROVE TInv'
    <2>1. file' \in Seq(Nat)
      BY <1>4 DEF Open
    <2> QED BY <1>4, <2>1, TBegin DEF Open, Busy
  <1>5. ASSUME NEW u \in User,
               Reject(u) \/ CannotOpen(u) \/ NoRuntime(u) \/ Return(u) \/ Interrupt(u)
        PROVE  TInv'
    BY <1>5, TEnd DEF Reject, CannotOpen, NoRuntime, Return, Interrupt
  <1>6. ASSUME NEW u \in User, NEW n \in 0 .. FlushSize - 1, LoseRest(u, n) PROVE TInv'
    <2>1. n \in Nat /\ Len(Output[prog[u]]) \in Nat /\ pos[u] \in Nat
      BY PipelineAssumption, OutputType DEF TInv, TypeOK, Shape
    <2>2. n <= Rest(u)
      BY <1>6, <2>1 DEF LoseRest, Rest
    <2> QED BY <1>6, <2>1, <2>2, TChunk DEF LoseRest
  <1> QED BY <1>1, <1>2, <1>3, <1>4, <1>5, <1>6, TFlush, TFill, TTake DEF Next, Work

(* Nothing a command may find in the shared file, another's half-written    *)
(* program included, takes the loader out of its state's type: no count     *)
(* goes below zero, no string or function that is not there is filled, for  *)
(* any number of commands at a time (load_module, write_module, cmd_run).   *)
THEOREM PipelineTypesHold == Spec => []TypeOK
  <1>1. Init => TInv
    BY TInit
  <1>2. TInv /\ [Next]_vars => TInv'
    BY TNext
  <1>3. TInv => TypeOK
    BY DEF TInv
  <1> QED BY <1>1, <1>2, <1>3, PTL DEF Spec

-----------------------------------------------------------------------------
(* Where everything is in the image of a module, as the number of words     *)
(* before it: string i and function i, each after its predecessors.         *)
StringImages(m) == [i \in 1 .. Len(m.strings) |-> StringImage(m.strings[i])]
UnitImages(m) == [i \in 1 .. Len(m.functions) |-> UnitImage(m.functions[i])]

StringAt(m, i) == 4 + Ends(StringImages(m))[i - 1]
FuncCountAt(m) == 4 + Ends(StringImages(m))[Len(m.strings)]
UnitAt(m, i) == FuncCountAt(m) + 1 + Ends(UnitImages(m))[i - 1]
EntryAt(m) == FuncCountAt(m) + 1 + Ends(UnitImages(m))[Len(m.functions)]

LEMMA StringImageIs ==
  ASSUME NEW s \in Text
  PROVE  /\ StringImage(s) \in Seq(Nat) /\ Len(StringImage(s)) = 1 + Len(s)
         /\ StringImage(s)[1] = Len(s)
         /\ \A j \in 1 .. Len(s) : StringImage(s)[1 + j] = s[j]
  <1> DEFINE h == <<Len(s)>>
  <1>1. h \in Seq(Nat) /\ s \in Seq(Nat) /\ Len(h) = 1 /\ h[1] = Len(s) /\ 1 \in 1 .. 1
    BY DEF Text
  <1>2. StringImage(s) = Glue(h, s)
    BY DEF StringImage, Glue
  <1> HIDE DEF h
  <1>3. Glue(h, s) \in Seq(Nat) /\ Len(Glue(h, s)) = 1 + Len(s)
    BY <1>1, WordsLen
  <1>4. \A j \in 1 .. Len(h) : Glue(h, s)[j] = h[j]
    BY <1>1, WordsLeft
  <1>5. \A j \in 1 .. Len(s) : Glue(h, s)[Len(h) + j] = s[j]
    BY <1>1, WordsRight
  <1> QED BY <1>1, <1>2, <1>3, <1>4, <1>5

LEMMA UnitImageIs ==
  ASSUME NEW f \in Unit
  PROVE  /\ UnitImage(f) \in Seq(Nat) /\ Len(UnitImage(f)) = 4 + Len(f.instrs)
         /\ UnitImage(f)[1] = f.name /\ UnitImage(f)[2] = f.params
         /\ UnitImage(f)[3] = f.locals /\ UnitImage(f)[4] = Len(f.instrs)
         /\ \A j \in 1 .. Len(f.instrs) : UnitImage(f)[4 + j] = f.instrs[j]
  <1> DEFINE h == <<f.name, f.params, f.locals, Len(f.instrs)>>
             s == f.instrs
  <1>1. /\ h \in Seq(Nat) /\ Len(h) = 4 /\ h[1] = f.name /\ h[2] = f.params
        /\ h[3] = f.locals /\ h[4] = Len(f.instrs)
    BY DEF Unit
  <1>2. s \in Seq(Nat)
    <2>1. s \in Seq(Opcodes)
      BY DEF Unit
    <2>2. Opcodes \subseteq Nat
      BY FormatAssumption
    <2> HIDE DEF s
    <2>3. Len(s) \in Nat /\ DOMAIN s = 1 .. Len(s) /\ \A j \in 1 .. Len(s) : s[j] \in Opcodes
      BY <2>1
    <2>4. s \in [DOMAIN s -> Opcodes]
      BY <2>1
    <2>5. s \in [1 .. Len(s) -> Nat]
      BY <2>2, <2>3, <2>4
    <2> QED BY <2>3, <2>5
  <1>3. UnitImage(f) = Glue(h, s)
    BY DEF UnitImage, Glue
  <1> HIDE DEF h, s
  <1>4. Glue(h, s) \in Seq(Nat) /\ Len(Glue(h, s)) = 4 + Len(s)
    BY <1>1, <1>2, WordsLen
  <1>5. \A j \in 1 .. Len(h) : Glue(h, s)[j] = h[j]
    BY <1>1, <1>2, WordsLeft
  <1>6. \A j \in 1 .. Len(s) : Glue(h, s)[Len(h) + j] = s[j]
    BY <1>1, <1>2, WordsRight
  <1>7. Len(h) = 4 /\ 1 \in 1 .. 4 /\ 2 \in 1 .. 4 /\ 3 \in 1 .. 4 /\ 4 \in 1 .. 4
    BY <1>1
  <1> QED BY <1>1, <1>3, <1>4, <1>5, <1>6, <1>7 DEF s

LEMMA ImagesTyped ==
  ASSUME NEW m \in File
  PROVE  /\ m.strings \in Seq(Text) /\ m.functions \in Seq(Unit) /\ m.entry \in Nat
         /\ Len(m.strings) \in Nat /\ Len(m.functions) \in Nat
         /\ StringImages(m) \in Seq(Seq(Nat)) /\ Len(StringImages(m)) = Len(m.strings)
         /\ UnitImages(m) \in Seq(Seq(Nat)) /\ Len(UnitImages(m)) = Len(m.functions)
  <1>1. m.strings \in Seq(Text) /\ m.functions \in Seq(Unit) /\ m.entry \in Nat
    BY DEF File
  <1>2. \A i \in 1 .. Len(m.strings) : m.strings[i] \in Text
    BY <1>1
  <1>3. \A i \in 1 .. Len(m.functions) : m.functions[i] \in Unit
    <2> HIDE DEF Unit
    <2> QED BY <1>1
  <1>4. Len(m.strings) \in Nat /\ Len(m.functions) \in Nat
    BY <1>1
  <1>5. StringImages(m) \in [1 .. Len(m.strings) -> Seq(Nat)]
    BY <1>2, StringImageIs DEF StringImages
  <1>6. UnitImages(m) \in [1 .. Len(m.functions) -> Seq(Nat)]
    BY <1>3, UnitImageIs DEF UnitImages
  <1>7. StringImages(m) \in Seq(Seq(Nat)) /\ Len(StringImages(m)) = Len(m.strings)
    BY <1>4, <1>5
  <1>8. UnitImages(m) \in Seq(Seq(Nat)) /\ Len(UnitImages(m)) = Len(m.functions)
    BY <1>4, <1>6
  <1> QED BY <1>1, <1>4, <1>7, <1>8

(* The image of a module, word by word.                                     *)
LEMMA PlacesAre ==
  ASSUME NEW m \in File
  PROVE  /\ StringAt(m, 1) = 4 /\ UnitAt(m, 1) = FuncCountAt(m) + 1
         /\ FuncCountAt(m) = StringAt(m, Len(m.strings) + 1)
         /\ EntryAt(m) = UnitAt(m, Len(m.functions) + 1)
         /\ FuncCountAt(m) \in Nat /\ EntryAt(m) \in Nat
         /\ \A i \in 1 .. Len(m.strings) :
               /\ StringAt(m, i) \in Nat
               /\ StringAt(m, i + 1) = StringAt(m, i) + 1 + Len(m.strings[i])
         /\ \A i \in 1 .. Len(m.functions) :
               /\ UnitAt(m, i) \in Nat
               /\ UnitAt(m, i + 1) = UnitAt(m, i) + 4 + Len(m.functions[i].instrs)
  <1> DEFINE e == Ends(StringImages(m))
             d == Ends(UnitImages(m))
             n == Len(m.strings)
             k == Len(m.functions)
  <1>1. n \in Nat /\ k \in Nat /\ m.strings \in Seq(Text) /\ m.functions \in Seq(Unit)
        /\ StringImages(m) \in Seq(Seq(Nat)) /\ UnitImages(m) \in Seq(Seq(Nat))
        /\ Len(StringImages(m)) = n /\ Len(UnitImages(m)) = k
    BY ImagesTyped
  <1>2. e \in [0 .. n -> Nat] /\ e[0] = 0 /\ \A i \in 1 .. n : e[i] = e[i - 1] + Len(StringImages(m)[i])
    BY <1>1, EndsAre DEF AreEnds
  <1>3. d \in [0 .. k -> Nat] /\ d[0] = 0 /\ \A i \in 1 .. k : d[i] = d[i - 1] + Len(UnitImages(m)[i])
    BY <1>1, EndsAre DEF AreEnds
  <1>4. \A i \in 1 .. n : m.strings[i] \in Text /\ StringImages(m)[i] = StringImage(m.strings[i])
    BY <1>1 DEF StringImages
  <1>5. \A i \in 1 .. k : m.functions[i] \in Unit /\ UnitImages(m)[i] = UnitImage(m.functions[i])
    <2> HIDE DEF Unit
    <2> QED BY <1>1 DEF UnitImages
  <1>6. \A i \in 1 .. n : e[i] = e[i - 1] + (1 + Len(m.strings[i])) /\ Len(m.strings[i]) \in Nat
    <2> TAKE i \in 1 .. n
    <2>1. m.strings[i] \in Text /\ Len(m.strings[i]) \in Nat
      BY <1>4 DEF Text
    <2>2. Len(StringImages(m)[i]) = 1 + Len(m.strings[i])
      BY <1>4, <2>1, StringImageIs
    <2> QED BY <1>2, <2>1, <2>2
  <1>7. \A i \in 1 .. k : d[i] = d[i - 1] + (4 + Len(m.functions[i].instrs)) /\ Len(m.functions[i].instrs) \in Nat
    <2> TAKE i \in 1 .. k
    <2>1. m.functions[i] \in Unit
      BY <1>5
    <2>2. Len(m.functions[i].instrs) \in Nat
      BY <2>1 DEF Unit
    <2>3. Len(UnitImages(m)[i]) = 4 + Len(m.functions[i].instrs)
      BY <1>5, <2>1, UnitImageIs
    <2> QED BY <1>3, <2>2, <2>3
  <1> HIDE DEF e, d, n, k
  <1>8. \A i \in 1 .. n : i + 1 - 1 = i /\ i - 1 \in 0 .. n /\ e[i - 1] \in Nat /\ e[i] \in Nat
    BY <1>1, <1>2
  <1>9. \A i \in 1 .. k : i + 1 - 1 = i /\ i - 1 \in 0 .. k /\ d[i - 1] \in Nat /\ d[i] \in Nat
    BY <1>1, <1>3
  <1>10. e[n] \in Nat /\ d[k] \in Nat /\ n + 1 - 1 = n /\ k + 1 - 1 = k /\ 1 - 1 = 0
    BY <1>1, <1>2, <1>3
  <1>11. FuncCountAt(m) = 4 + e[n] /\ EntryAt(m) = 4 + e[n] + 1 + d[k]
    BY DEF FuncCountAt, EntryAt, e, d, n, k
  <1>12. \A i \in 1 .. n + 1 : StringAt(m, i) = 4 + e[i - 1]
    BY DEF StringAt, e
  <1>13. \A i \in 1 .. k + 1 : UnitAt(m, i) = 4 + e[n] + 1 + d[i - 1]
    BY <1>11 DEF UnitAt, d
  <1>14. \A i \in 1 .. n : /\ StringAt(m, i) \in Nat
                           /\ StringAt(m, i + 1) = StringAt(m, i) + 1 + Len(m.strings[i])
    <2> TAKE i \in 1 .. n
    <2>1. i \in 1 .. n + 1 /\ i + 1 \in 1 .. n + 1
      BY <1>1
    <2>2. StringAt(m, i) = 4 + e[i - 1] /\ StringAt(m, i + 1) = 4 + e[i]
      BY <1>8, <1>12, <2>1
    <2> DEFINE l == Len(m.strings[i])
    <2>3. e[i] = e[i - 1] + (1 + l) /\ e[i - 1] \in Nat /\ l \in Nat
      BY <1>6, <1>8
    <2> HIDE DEF l
    <2>4. StringAt(m, i) \in Nat /\ StringAt(m, i + 1) = StringAt(m, i) + 1 + l
      BY <2>2, <2>3
    <2> QED BY <2>4 DEF l
  <1>15. \A i \in 1 .. k : /\ UnitAt(m, i) \in Nat
                           /\ UnitAt(m, i + 1) = UnitAt(m, i) + 4 + Len(m.functions[i].instrs)
    <2> TAKE i \in 1 .. k
    <2>1. i \in 1 .. k + 1 /\ i + 1 \in 1 .. k + 1
      BY <1>1
    <2>2. UnitAt(m, i) = 4 + e[n] + 1 + d[i - 1] /\ UnitAt(m, i + 1) = 4 + e[n] + 1 + d[i]
      BY <1>9, <1>13, <2>1
    <2> DEFINE l == Len(m.functions[i].instrs)
    <2>3. d[i] = d[i - 1] + (4 + l) /\ d[i - 1] \in Nat /\ l \in Nat
      BY <1>7, <1>9
    <2> HIDE DEF l
    <2>4. UnitAt(m, i) \in Nat /\ UnitAt(m, i + 1) = UnitAt(m, i) + 4 + l
      BY <1>10, <2>2, <2>3
    <2> QED BY <2>4 DEF l
  <1>16. StringAt(m, 1) = 4 /\ UnitAt(m, 1) = FuncCountAt(m) + 1
    BY <1>1, <1>2, <1>3, <1>10, <1>11, <1>12, <1>13
  <1>17. FuncCountAt(m) = StringAt(m, n + 1) /\ EntryAt(m) = UnitAt(m, k + 1)
    BY <1>1, <1>10, <1>11, <1>12, <1>13
  <1>18. FuncCountAt(m) \in Nat /\ EntryAt(m) \in Nat
    BY <1>10, <1>11
  <1> QED BY <1>14, <1>15, <1>16, <1>17, <1>18 DEF n, k

(* An image is its header, the strings between two counts, the functions,   *)
(* and the entry.                                                           *)
LEMMA ImageParts ==
  ASSUME NEW m \in File
  PROVE  LET a == FlattenSeq(StringImages(m))
             c == FlattenSeq(UnitImages(m))
             img == Image(m)
         IN  /\ a \in Seq(Nat) /\ c \in Seq(Nat) /\ img \in Seq(Nat)
             /\ Len(a) \in Nat /\ Len(c) \in Nat /\ Len(img) = 6 + Len(a) + Len(c)
             /\ img[1] = Magic /\ img[2] = Version /\ img[3] = 2 /\ img[4] = Len(m.strings)
             /\ \A j \in 1 .. Len(a) : img[4 + j] = a[j]
             /\ img[5 + Len(a)] = Len(m.functions)
             /\ \A j \in 1 .. Len(c) : img[5 + Len(a) + j] = c[j]
             /\ img[6 + Len(a) + Len(c)] = m.entry
  <1> DEFINE a == FlattenSeq(StringImages(m))
             c == FlattenSeq(UnitImages(m))
             n == <<Len(m.strings)>>
             k == <<Len(m.functions)>>
             e == <<m.entry>>
             b1 == Glue(n, a)
             b2 == Glue(b1, k)
             b3 == Glue(b2, c)
             b4 == Glue(b3, e)
             img == Glue(Header, b4)
             la == Len(a)
             lc == Len(c)
  <1>1. Image(m) = img
    BY DEF Image, Body, Each, StringImages, UnitImages, Glue
  <1>2. a \in Seq(Nat) /\ c \in Seq(Nat)
    BY ImagesTyped, FlattenPieces
  <1>3. /\ n \in Seq(Nat) /\ k \in Seq(Nat) /\ e \in Seq(Nat) /\ Header \in Seq(Nat)
        /\ Len(n) = 1 /\ Len(k) = 1 /\ Len(e) = 1 /\ Len(Header) = 3
        /\ n[1] = Len(m.strings) /\ k[1] = Len(m.functions) /\ e[1] = m.entry
        /\ Header[1] = Magic /\ Header[2] = Version /\ Header[3] = 2
    <2>1. n \in Seq(Nat) /\ k \in Seq(Nat) /\ e \in Seq(Nat)
      BY ImagesTyped
    <2>2. Header \in Seq(Nat) /\ Len(Header) = 3
      BY FormatAssumption DEF Header
    <2>3. Header[1] = Magic /\ Header[2] = Version /\ Header[3] = 2
      BY DEF Header
    <2> QED BY <2>1, <2>2, <2>3
  <1> HIDE DEF a, c, n, k, e
  <1>4. la \in Nat /\ lc \in Nat
    BY <1>2
  <1>5. b1 \in Seq(Nat) /\ Len(b1) = 1 + la
    <2>1. b1 \in Seq(Nat) /\ Len(b1) = Len(n) + Len(a)
      BY <1>2, <1>3, WordsLen
    <2> QED BY <1>3, <2>1
  <1>6. \A j \in 1 .. la : b1[1 + j] = a[j]
    <2>1. \A j \in 1 .. Len(a) : b1[Len(n) + j] = a[j]
      BY <1>2, <1>3, WordsRight
    <2> QED BY <1>3, <2>1
  <1>7. b1[1] = Len(m.strings)
    <2>1. \A j \in 1 .. Len(n) : b1[j] = n[j]
      BY <1>2, <1>3, WordsLeft
    <2> QED BY <1>3, <2>1
  <1> HIDE DEF b1
  <1>8. b2 \in Seq(Nat) /\ Len(b2) = 2 + la
    <2>1. b2 \in Seq(Nat) /\ Len(b2) = Len(b1) + Len(k)
      BY <1>3, <1>5, WordsLen
    <2> QED BY <1>3, <1>4, <1>5, <2>1
  <1>9. \A j \in 1 .. 1 + la : b2[j] = b1[j]
    BY <1>3, <1>5, WordsLeft
  <1>10. b2[2 + la] = Len(m.functions)
    <2>1. \A j \in 1 .. Len(k) : b2[Len(b1) + j] = k[j]
      BY <1>3, <1>5, WordsRight
    <2>2. b2[Len(b1) + 1] = k[1] /\ Len(b1) + 1 = 2 + la
      BY <1>3, <1>4, <1>5, <2>1
    <2> QED BY <1>3, <2>2
  <1> HIDE DEF b2
  <1>11. b3 \in Seq(Nat) /\ Len(b3) = 2 + la + lc
    <2>1. b3 \in Seq(Nat) /\ Len(b3) = Len(b2) + Len(c)
      BY <1>2, <1>8, WordsLen
    <2> QED BY <1>4, <1>8, <2>1
  <1>12. \A j \in 1 .. 2 + la : b3[j] = b2[j]
    BY <1>2, <1>8, WordsLeft
  <1>13. \A j \in 1 .. lc : b3[2 + la + j] = c[j]
    <2>1. \A j \in 1 .. Len(c) : b3[Len(b2) + j] = c[j]
      BY <1>2, <1>8, WordsRight
    <2> QED BY <1>8, <2>1
  <1> HIDE DEF b3
  <1>14. b4 \in Seq(Nat) /\ Len(b4) = 3 + la + lc
    <2>1. b4 \in Seq(Nat) /\ Len(b4) = Len(b3) + Len(e)
      BY <1>3, <1>11, WordsLen
    <2> QED BY <1>3, <1>4, <1>11, <2>1
  <1>15. \A j \in 1 .. 2 + la + lc : b4[j] = b3[j]
    BY <1>3, <1>11, WordsLeft
  <1>16. b4[3 + la + lc] = m.entry
    <2>1. \A j \in 1 .. Len(e) : b4[Len(b3) + j] = e[j]
      BY <1>3, <1>11, WordsRight
    <2>2. b4[Len(b3) + 1] = e[1] /\ Len(b3) + 1 = 3 + la + lc
      BY <1>3, <1>4, <1>11, <2>1
    <2> QED BY <1>3, <2>2
  <1> HIDE DEF b4
  <1>17. img \in Seq(Nat) /\ Len(img) = 6 + la + lc
    <2>1. img \in Seq(Nat) /\ Len(img) = Len(Header) + Len(b4)
      BY <1>3, <1>14, WordsLen
    <2> QED BY <1>3, <1>4, <1>14, <2>1
  <1>18. img[1] = Magic /\ img[2] = Version /\ img[3] = 2
    <2>1. \A j \in 1 .. Len(Header) : img[j] = Header[j]
      BY <1>3, <1>14, WordsLeft
    <2> QED BY <1>3, <2>1
  <1>19. \A j \in 1 .. 3 + la + lc : img[3 + j] = b4[j]
    <2>1. \A j \in 1 .. Len(b4) : img[Len(Header) + j] = b4[j]
      BY <1>3, <1>14, WordsRight
    <2> QED BY <1>3, <1>14, <2>1
  <1> HIDE DEF img, la, lc
  <1>20. img[4] = Len(m.strings)
    <2>1. 1 \in 1 .. 3 + la + lc /\ 1 \in 1 .. 2 + la + lc /\ 1 \in 1 .. 2 + la /\ 1 \in 1 .. 1 + la
          /\ 3 + 1 = 4
      BY <1>4
    <2>2. img[3 + 1] = b4[1] /\ b4[1] = b3[1] /\ b3[1] = b2[1] /\ b2[1] = b1[1]
      BY <1>9, <1>12, <1>15, <1>19, <2>1
    <2> QED BY <1>7, <2>1, <2>2
  <1>21. \A j \in 1 .. la : img[4 + j] = a[j]
    <2> TAKE j \in 1 .. la
    <2>1. /\ 1 + j \in 1 .. 3 + la + lc /\ 1 + j \in 1 .. 2 + la + lc /\ 1 + j \in 1 .. 2 + la
          /\ 1 + j \in 1 .. 1 + la /\ 3 + (1 + j) = 4 + j
      BY <1>4
    <2>2. img[3 + (1 + j)] = b4[1 + j] /\ b4[1 + j] = b3[1 + j] /\ b3[1 + j] = b2[1 + j]
          /\ b2[1 + j] = b1[1 + j]
      BY <1>9, <1>12, <1>15, <1>19, <2>1
    <2> QED BY <1>6, <2>1, <2>2
  <1>22. img[5 + la] = Len(m.functions)
    <2>1. /\ 2 + la \in 1 .. 3 + la + lc /\ 2 + la \in 1 .. 2 + la + lc /\ 2 + la \in 1 .. 2 + la
          /\ 3 + (2 + la) = 5 + la
      BY <1>4
    <2>2. img[3 + (2 + la)] = b4[2 + la] /\ b4[2 + la] = b3[2 + la] /\ b3[2 + la] = b2[2 + la]
      BY <1>12, <1>15, <1>19, <2>1
    <2> QED BY <1>10, <2>1, <2>2
  <1>23. \A j \in 1 .. lc : img[5 + la + j] = c[j]
    <2> TAKE j \in 1 .. lc
    <2>1. /\ 2 + la + j \in 1 .. 3 + la + lc /\ 2 + la + j \in 1 .. 2 + la + lc
          /\ 3 + (2 + la + j) = 5 + la + j
      BY <1>4
    <2>2. img[3 + (2 + la + j)] = b4[2 + la + j] /\ b4[2 + la + j] = b3[2 + la + j]
      BY <1>15, <1>19, <2>1
    <2> QED BY <1>13, <2>1, <2>2
  <1>24. img[6 + la + lc] = m.entry
    <2>1. 3 + la + lc \in 1 .. 3 + la + lc /\ 3 + (3 + la + lc) = 6 + la + lc
      BY <1>4
    <2>2. img[3 + (3 + la + lc)] = b4[3 + la + lc]
      BY <1>19, <2>1
    <2> QED BY <1>16, <2>1, <2>2
  <1> QED BY <1>1, <1>2, <1>4, <1>17, <1>18, <1>20, <1>21, <1>22, <1>23, <1>24
          DEF a, c, la, lc

(* The image of a module, word by word: what write_module puts where.       *)
LEMMA ImageIs ==
  ASSUME NEW m \in File
  PROVE  /\ Image(m) \in Seq(Nat) /\ Len(Image(m)) = EntryAt(m) + 1
         /\ Image(m)[4] = Len(m.strings)
         /\ Image(m)[FuncCountAt(m) + 1] = Len(m.functions)
         /\ Image(m)[EntryAt(m) + 1] = m.entry
         /\ \A i \in 1 .. Len(m.strings) :
               /\ Image(m)[StringAt(m, i) + 1] = Len(m.strings[i])
               /\ \A j \in 1 .. Len(m.strings[i]) :
                     Image(m)[StringAt(m, i) + 1 + j] = m.strings[i][j]
         /\ \A i \in 1 .. Len(m.functions) :
               /\ Image(m)[UnitAt(m, i) + 1] = m.functions[i].name
               /\ Image(m)[UnitAt(m, i) + 2] = m.functions[i].params
               /\ Image(m)[UnitAt(m, i) + 3] = m.functions[i].locals
               /\ Image(m)[UnitAt(m, i) + 4] = Len(m.functions[i].instrs)
               /\ \A j \in 1 .. Len(m.functions[i].instrs) :
                     Image(m)[UnitAt(m, i) + 4 + j] = m.functions[i].instrs[j]
  <1> DEFINE img == Image(m)
             s == StringImages(m)
             u == UnitImages(m)
             a == FlattenSeq(s)
             c == FlattenSeq(u)
             la == Len(a)
             lc == Len(c)
             n == Len(m.strings)
             k == Len(m.functions)
  <1>1. /\ img \in Seq(Nat) /\ la \in Nat /\ lc \in Nat /\ Len(img) = 6 + la + lc
        /\ img[4] = n /\ img[5 + la] = k /\ img[6 + la + lc] = m.entry
    BY ImageParts
  <1>2. \A j \in 1 .. la : img[4 + j] = a[j]
    BY ImageParts
  <1>3. \A j \in 1 .. lc : img[5 + la + j] = c[j]
    BY ImageParts
  <1>4. /\ s \in Seq(Seq(Nat)) /\ u \in Seq(Seq(Nat)) /\ Len(s) = n /\ Len(u) = k
        /\ n \in Nat /\ k \in Nat
    BY ImagesTyped
  <1> DEFINE e == Ends(s)
             d == Ends(u)
  <1>5. /\ la = e[n] /\ e \in [0 .. n -> Nat]
        /\ \A i \in 1 .. n : e[i] <= la /\ e[i] = e[i - 1] + Len(s[i])
    BY <1>4, EndsAre, FlattenPieces DEF AreEnds
  <1>6. /\ lc = d[k] /\ d \in [0 .. k -> Nat]
        /\ \A i \in 1 .. k : d[i] <= lc /\ d[i] = d[i - 1] + Len(u[i])
    BY <1>4, EndsAre, FlattenPieces DEF AreEnds
  <1>7. \A i \in 1 .. n : \A j \in 1 .. Len(s[i]) : a[e[i - 1] + j] = s[i][j]
    BY <1>4, FlattenPieces
  <1>8. \A i \in 1 .. k : \A j \in 1 .. Len(u[i]) : c[d[i - 1] + j] = u[i][j]
    BY <1>4, FlattenPieces
  <1>9. \A i \in 1 .. n : m.strings[i] \in Text /\ s[i] = StringImage(m.strings[i])
    BY ImagesTyped DEF StringImages
  <1>10. \A i \in 1 .. k : m.functions[i] \in Unit /\ u[i] = UnitImage(m.functions[i])
    <2> HIDE DEF Unit
    <2> QED BY ImagesTyped DEF UnitImages
  <1>11. FuncCountAt(m) = 4 + la /\ EntryAt(m) = 5 + la + lc
    <2>1. FuncCountAt(m) = 4 + e[n] /\ EntryAt(m) = FuncCountAt(m) + 1 + d[k]
      BY DEF FuncCountAt, EntryAt
    <2> HIDE DEF e, d, la, lc, n, k
    <2> QED BY <1>1, <1>5, <1>6, <2>1
  <1>12. \A i \in 1 .. n : StringAt(m, i) = 4 + e[i - 1]
    BY DEF StringAt
  <1>13. \A i \in 1 .. k : UnitAt(m, i) = FuncCountAt(m) + 1 + d[i - 1]
    BY DEF UnitAt
  <1> HIDE DEF img, s, u, a, c, la, lc, n, k, e, d
  <1>14. ASSUME NEW i \in 1 .. n
         PROVE  /\ img[StringAt(m, i) + 1] = Len(m.strings[i])
                /\ \A j \in 1 .. Len(m.strings[i]) : img[StringAt(m, i) + 1 + j] = m.strings[i][j]
    <2> DEFINE t == m.strings[i]
               l == Len(t)
    <2>1. t \in Text /\ l \in Nat
      BY <1>9 DEF Text
    <2>2. Len(s[i]) = 1 + l /\ s[i][1] = l /\ \A j \in 1 .. l : s[i][1 + j] = t[j]
      BY <1>9, <2>1, StringImageIs
    <2>3. i - 1 \in 0 .. n /\ e[i - 1] \in Nat /\ e[i - 1] + (1 + l) <= la
      <3>1. i - 1 \in 0 .. n /\ e[i - 1] \in Nat /\ e[i] = e[i - 1] + Len(s[i]) /\ e[i] <= la
        BY <1>4, <1>5
      <3> HIDE DEF l
      <3> QED BY <2>1, <2>2, <3>1
    <2>4. StringAt(m, i) = 4 + e[i - 1]
      BY <1>12
    <2> HIDE DEF t, l
    <2>5. ASSUME NEW j \in 1 .. 1 + l PROVE img[StringAt(m, i) + j] = s[i][j]
      <3>1. e[i - 1] + j \in 1 .. la /\ 4 + (e[i - 1] + j) = StringAt(m, i) + j
        <4>1. la \in Nat
          BY <1>1
        <4>2. PICK x \in Nat : x = e[i - 1]
          BY <2>3
        <4>3. x + (1 + l) <= la /\ StringAt(m, i) = 4 + x /\ l \in Nat
          BY <2>1, <2>3, <2>4, <4>2
        <4>4. x + j \in 1 .. la /\ 4 + (x + j) = StringAt(m, i) + j
          BY <4>1, <4>3
        <4> QED BY <4>2, <4>4
      <3>2. img[4 + (e[i - 1] + j)] = a[e[i - 1] + j] /\ a[e[i - 1] + j] = s[i][j]
        BY <1>2, <1>7, <2>2, <3>1
      <3> QED BY <3>1, <3>2
    <2>6. ASSUME NEW j \in 1 .. l PROVE img[StringAt(m, i) + 1 + j] = t[j]
      <3>1. 1 + j \in 1 .. 1 + l /\ StringAt(m, i) + (1 + j) = StringAt(m, i) + 1 + j
        BY <2>1, <2>3, <2>4
      <3>2. img[StringAt(m, i) + (1 + j)] = s[i][1 + j]
        BY <2>5, <3>1
      <3> QED BY <2>2, <3>1, <3>2
    <2>7. img[StringAt(m, i) + 1] = l
      BY <2>1, <2>2, <2>5
    <2> QED BY <2>6, <2>7 DEF t, l
  <1>15. ASSUME NEW i \in 1 .. k
         PROVE  LET f == m.functions[i] IN
                /\ img[UnitAt(m, i) + 1] = f.name /\ img[UnitAt(m, i) + 2] = f.params
                /\ img[UnitAt(m, i) + 3] = f.locals /\ img[UnitAt(m, i) + 4] = Len(f.instrs)
                /\ \A j \in 1 .. Len(f.instrs) : img[UnitAt(m, i) + 4 + j] = f.instrs[j]
    <2> DEFINE f == m.functions[i]
               t == f.instrs
               l == Len(t)
    <2>1. f \in Unit
      BY <1>10
    <2>a. l \in Nat
      BY <2>1 DEF Unit
    <2>2. /\ Len(u[i]) = 4 + l /\ u[i][1] = f.name /\ u[i][2] = f.params /\ u[i][3] = f.locals
          /\ u[i][4] = l /\ \A j \in 1 .. l : u[i][4 + j] = t[j]
      <3> HIDE DEF Unit
      <3> QED BY <1>10, <2>1, UnitImageIs
    <2>3. i - 1 \in 0 .. k /\ d[i - 1] \in Nat /\ d[i - 1] + (4 + l) <= lc
      <3>1. i - 1 \in 0 .. k /\ d[i - 1] \in Nat /\ d[i] = d[i - 1] + Len(u[i]) /\ d[i] <= lc
        BY <1>4, <1>6
      <3> HIDE DEF l
      <3> QED BY <2>a, <2>2, <3>1
    <2>4. UnitAt(m, i) = 5 + la + d[i - 1]
      <3>1. UnitAt(m, i) = 4 + la + 1 + d[i - 1]
        BY <1>11, <1>13
      <3> QED BY <1>1, <2>3, <3>1
    <2> HIDE DEF f, t, l
    <2>5. ASSUME NEW j \in 1 .. 4 + l PROVE img[UnitAt(m, i) + j] = u[i][j]
      <3>1. d[i - 1] + j \in 1 .. lc /\ 5 + la + (d[i - 1] + j) = UnitAt(m, i) + j
        <4>1. la \in Nat /\ lc \in Nat
          BY <1>1
        <4>2. PICK x \in Nat : x = d[i - 1]
          BY <2>3
        <4>3. x + (4 + l) <= lc /\ UnitAt(m, i) = 5 + la + x /\ l \in Nat
          BY <2>a, <2>3, <2>4, <4>2
        <4>4. x + j \in 1 .. lc /\ 5 + la + (x + j) = UnitAt(m, i) + j
          BY <4>1, <4>3
        <4> QED BY <4>2, <4>4
      <3>2. img[5 + la + (d[i - 1] + j)] = c[d[i - 1] + j] /\ c[d[i - 1] + j] = u[i][j]
        BY <1>3, <1>8, <2>2, <3>1
      <3> QED BY <3>1, <3>2
    <2>6. ASSUME NEW j \in 1 .. l PROVE img[UnitAt(m, i) + 4 + j] = t[j]
      <3>1. 4 + j \in 1 .. 4 + l /\ UnitAt(m, i) + (4 + j) = UnitAt(m, i) + 4 + j
        <4>1. PICK x \in Nat : x = d[i - 1]
          BY <2>3
        <4>2. UnitAt(m, i) = 5 + la + x /\ la \in Nat
          BY <1>1, <2>4, <4>1
        <4> QED BY <2>a, <4>2
      <3>2. img[UnitAt(m, i) + (4 + j)] = u[i][4 + j]
        BY <2>5, <3>1
      <3> QED BY <2>2, <3>1, <3>2
    <2>7. 1 \in 1 .. 4 + l /\ 2 \in 1 .. 4 + l /\ 3 \in 1 .. 4 + l /\ 4 \in 1 .. 4 + l
      BY <2>a
    <2> QED BY <2>2, <2>5, <2>6, <2>7 DEF f, t, l
  <1>16. Len(img) = EntryAt(m) + 1 /\ FuncCountAt(m) + 1 = 5 + la /\ EntryAt(m) + 1 = 6 + la + lc
    BY <1>1, <1>11
  <1> QED BY <1>1, <1>14, <1>15, <1>16 DEF img, n, k

LEMMA PlacesBounded ==
  ASSUME NEW m \in File
  PROVE  /\ \A i \in 1 .. Len(m.strings) : StringAt(m, i + 1) <= FuncCountAt(m)
         /\ \A i \in 1 .. Len(m.functions) : UnitAt(m, i + 1) <= EntryAt(m)
         /\ 4 <= FuncCountAt(m) /\ FuncCountAt(m) + 1 <= EntryAt(m)
  <1> DEFINE e == Ends(StringImages(m))
             d == Ends(UnitImages(m))
             n == Len(m.strings)
             k == Len(m.functions)
  <1>1. n \in Nat /\ k \in Nat
        /\ StringImages(m) \in Seq(Seq(Nat)) /\ UnitImages(m) \in Seq(Seq(Nat))
        /\ Len(StringImages(m)) = n /\ Len(UnitImages(m)) = k
    BY ImagesTyped
  <1>2. e \in [0 .. n -> Nat] /\ \A i \in 1 .. n : e[i] <= e[n]
    BY <1>1, EndsAre, FlattenPieces
  <1>3. d \in [0 .. k -> Nat] /\ \A i \in 1 .. k : d[i] <= d[k]
    BY <1>1, EndsAre, FlattenPieces
  <1>4. FuncCountAt(m) = 4 + e[n] /\ EntryAt(m) = FuncCountAt(m) + 1 + d[k]
    BY DEF FuncCountAt, EntryAt
  <1>5. \A i \in 1 .. n : StringAt(m, i + 1) = 4 + e[i + 1 - 1]
    BY DEF StringAt
  <1>6. \A i \in 1 .. k : UnitAt(m, i + 1) = FuncCountAt(m) + 1 + d[i + 1 - 1]
    BY DEF UnitAt
  <1> HIDE DEF e, d, n, k
  <1>7. PICK x \in Nat, y \in Nat : x = e[n] /\ y = d[k]
    <2>1. n \in 0 .. n /\ k \in 0 .. k
      BY <1>1
    <2> QED BY <1>2, <1>3, <2>1
  <1>8. ASSUME NEW i \in 1 .. n PROVE StringAt(m, i + 1) <= FuncCountAt(m)
    <2>1. i + 1 - 1 = i /\ i \in 0 .. n
      BY <1>1
    <2>2. StringAt(m, i + 1) = 4 + e[i] /\ e[i] <= x /\ e[i] \in Nat
      BY <1>2, <1>5, <1>7, <2>1
    <2> QED BY <1>4, <1>7, <2>2
  <1>9. ASSUME NEW i \in 1 .. k PROVE UnitAt(m, i + 1) <= EntryAt(m)
    <2>1. i + 1 - 1 = i /\ i \in 0 .. k
      BY <1>1
    <2>2. UnitAt(m, i + 1) = FuncCountAt(m) + 1 + d[i] /\ d[i] <= y /\ d[i] \in Nat
      BY <1>3, <1>6, <1>7, <2>1
    <2> QED BY <1>4, <1>7, <2>2
  <1>10. 4 <= FuncCountAt(m) /\ FuncCountAt(m) + 1 <= EntryAt(m)
    BY <1>4, <1>7
  <1> QED BY <1>8, <1>9, <1>10 DEF n, k

(* Nothing of the strings and functions is in the header.                   *)
LEMMA PlacesLow ==
  ASSUME NEW m \in File
  PROVE  /\ \A i \in 1 .. Len(m.strings) : StringAt(m, i) >= 4
         /\ \A i \in 1 .. Len(m.functions) : UnitAt(m, i) >= 4
  <1> DEFINE e == Ends(StringImages(m))
             d == Ends(UnitImages(m))
             n == Len(m.strings)
             k == Len(m.functions)
  <1>1. n \in Nat /\ k \in Nat
        /\ StringImages(m) \in Seq(Seq(Nat)) /\ UnitImages(m) \in Seq(Seq(Nat))
        /\ Len(StringImages(m)) = n /\ Len(UnitImages(m)) = k
    BY ImagesTyped
  <1>2. e \in [0 .. n -> Nat] /\ d \in [0 .. k -> Nat]
    BY <1>1, EndsAre
  <1>3. FuncCountAt(m) \in Nat /\ FuncCountAt(m) >= 4
    BY PlacesAre, PlacesBounded
  <1>4. \A i \in 1 .. n : StringAt(m, i) = 4 + e[i - 1]
    BY DEF StringAt
  <1>5. \A i \in 1 .. k : UnitAt(m, i) = FuncCountAt(m) + 1 + d[i - 1]
    BY DEF UnitAt
  <1> HIDE DEF e, d, n, k
  <1>6. \A i \in 1 .. n : e[i - 1] \in Nat
    BY <1>1, <1>2
  <1>7. \A i \in 1 .. k : d[i - 1] \in Nat
    BY <1>1, <1>2
  <1>8. \A i \in 1 .. n : StringAt(m, i) >= 4
    BY <1>4, <1>6
  <1>9. \A i \in 1 .. k : UnitAt(m, i) >= 4
    <2> TAKE i \in 1 .. k
    <2>1. PICK x \in Nat : x = d[i - 1]
      BY <1>7
    <2> QED BY <1>3, <1>5, <2>1
  <1> QED BY <1>8, <1>9 DEF n, k
-----------------------------------------------------------------------------
(* The loader reads back what the writer wrote.  After p words of the image *)
(* of m it has read just what stands there: Agrees, by what it waits for.   *)
Same(s, t, n) == \A i \in 1 .. n : s[i] = t[i]

AtString(m, r, p) ==
    LET s == Len(r.got.strings)
    IN  /\ s + r.strings = Len(m.strings) /\ Same(r.got.strings, m.strings, s)
        /\ r.got.functions = <<>>
        /\ p = StringAt(m, s + 1)

InString(m, r, p) ==
    LET s == Len(r.got.strings)
        part == r.got.strings[s]
    IN  /\ s \in 1 .. Len(m.strings) /\ s + r.strings = Len(m.strings) + 1
        /\ Same(r.got.strings, m.strings, s - 1)
        /\ Len(part) + r.chars = Len(m.strings[s]) /\ Same(part, m.strings[s], Len(part))
        /\ r.got.functions = <<>>
        /\ p = StringAt(m, s) + 1 + Len(part)

AtUnit(m, r, p) ==
    LET f == Len(r.got.functions)
    IN  /\ r.got.strings = m.strings
        /\ f + r.functions = Len(m.functions) /\ Same(r.got.functions, m.functions, f)
        /\ p = UnitAt(m, f + 1)

(* n fields of the last function have come.                                 *)
InUnit(m, r, p, n) ==
    LET f == Len(r.got.functions)
        part == LastUnit(r.got)
    IN  /\ r.got.strings = m.strings
        /\ f \in 1 .. Len(m.functions) /\ f + r.functions = Len(m.functions) + 1
        /\ Same(r.got.functions, m.functions, f - 1)
        /\ part.name = m.functions[f].name
        /\ n >= 2 => part.params = m.functions[f].params
        /\ n >= 3 => part.locals = m.functions[f].locals
        /\ part.instrs = <<>>
        /\ p = UnitAt(m, f) + n

InCode(m, r, p) ==
    LET f == Len(r.got.functions)
        part == LastUnit(r.got)
        whole == m.functions[f]
    IN  /\ r.got.strings = m.strings
        /\ f \in 1 .. Len(m.functions) /\ f + r.functions = Len(m.functions) + 1
        /\ Same(r.got.functions, m.functions, f - 1)
        /\ part.name = whole.name /\ part.params = whole.params /\ part.locals = whole.locals
        /\ Len(part.instrs) + r.instrs = Len(whole.instrs)
        /\ Same(part.instrs, whole.instrs, Len(part.instrs))
        /\ p = UnitAt(m, f) + 4 + Len(part.instrs)

Agrees(m, r, p) ==
    /\ r.want \in {"magic", "version", "flags", "str_count"} => r.got = Empty
    /\ r.want = "magic" => p = 0
    /\ r.want = "version" => p = 1
    /\ r.want = "flags" => p = 2
    /\ r.want = "str_count" => p = 3
    /\ r.want = "len" => AtString(m, r, p)
    /\ r.want = "char" => InString(m, r, p)
    /\ r.want = "func_count" => AtString(m, r, p) /\ r.strings = 0
    /\ r.want = "name" => AtUnit(m, r, p)
    /\ r.want = "params" => InUnit(m, r, p, 1)
    /\ r.want = "locals" => InUnit(m, r, p, 2)
    /\ r.want = "instr_count" => InUnit(m, r, p, 3)
    /\ r.want = "instr" => InCode(m, r, p)
    /\ r.want = "entry" => AtUnit(m, r, p) /\ r.functions = 0
    /\ r.want = "module" => r.got = m

(* Only the clause of what it waits for says anything.                      *)
LEMMA AgreesIf ==
  ASSUME NEW m, NEW r, NEW p
  PROVE  /\ r.want = "error" => Agrees(m, r, p)
         /\ r.want = "len" /\ AtString(m, r, p) => Agrees(m, r, p)
         /\ r.want = "char" /\ InString(m, r, p) => Agrees(m, r, p)
         /\ r.want = "func_count" /\ AtString(m, r, p) /\ r.strings = 0 => Agrees(m, r, p)
         /\ r.want = "name" /\ AtUnit(m, r, p) => Agrees(m, r, p)
         /\ r.want = "params" /\ InUnit(m, r, p, 1) => Agrees(m, r, p)
         /\ r.want = "locals" /\ InUnit(m, r, p, 2) => Agrees(m, r, p)
         /\ r.want = "instr_count" /\ InUnit(m, r, p, 3) => Agrees(m, r, p)
         /\ r.want = "instr" /\ InCode(m, r, p) => Agrees(m, r, p)
         /\ r.want = "entry" /\ AtUnit(m, r, p) /\ r.functions = 0 => Agrees(m, r, p)
         /\ r.want = "module" /\ r.got = m => Agrees(m, r, p)
         /\ r.want = "version" /\ r.got = Empty /\ p = 1 => Agrees(m, r, p)
         /\ r.want = "flags" /\ r.got = Empty /\ p = 2 => Agrees(m, r, p)
         /\ r.want = "str_count" /\ r.got = Empty /\ p = 3 => Agrees(m, r, p)
  <1> HIDE DEF AtString, InString, AtUnit, InUnit, InCode, Empty
  <1> QED BY DEF Agrees

LEMMA NextStringAgrees ==
  ASSUME NEW m \in File, NEW r \in Reader, NEW p, AtString(m, r, p)
  PROVE  Agrees(m, NextString(r), p)
  <1> DEFINE q == NextString(r)
  <1>1. q.got = r.got /\ q.strings = r.strings
        /\ q.want = IF r.strings > 0 THEN "len" ELSE "func_count"
    BY WantTyped DEF NextString, Field
  <1> HIDE DEF q
  <1>2. AtString(m, q, p)
    BY <1>1 DEF AtString
  <1>3. r.strings > 0 \/ q.strings = 0
    <2>1. r.strings \in Nat
      BY ReaderTyped
    <2> QED BY <1>1, <2>1
  <1>4. Agrees(m, q, p)
    BY <1>1, <1>2, <1>3, AgreesIf
  <1> QED BY <1>4 DEF q

LEMMA NextFunctionAgrees ==
  ASSUME NEW m \in File, NEW r \in Reader, NEW p, AtUnit(m, r, p)
  PROVE  Agrees(m, NextFunction(r), p)
  <1> DEFINE q == NextFunction(r)
  <1>1. q.got = r.got /\ q.functions = r.functions
        /\ q.want = IF r.functions > 0 THEN "name" ELSE "entry"
    BY WantTyped DEF NextFunction, Field
  <1> HIDE DEF q
  <1>2. AtUnit(m, q, p)
    BY <1>1 DEF AtUnit
  <1>3. r.functions > 0 \/ q.functions = 0
    <2>1. r.functions \in Nat
      BY ReaderTyped
    <2> QED BY <1>1, <2>1
  <1>4. Agrees(m, q, p)
    BY <1>1, <1>2, <1>3, AgreesIf
  <1> QED BY <1>4 DEF q

(* Two sequences of the same length and elements.                           *)
LEMMA SameIsEqual ==
  ASSUME NEW X, NEW s \in Seq(X), NEW t \in Seq(X), Len(s) = Len(t), Same(s, t, Len(s))
  PROVE  s = t
  BY DEF Same

LEMMA NextCharAgrees ==
  ASSUME NEW m \in File, NEW r \in Reader, NEW p, InString(m, r, p)
  PROVE  Agrees(m, NextChar(r), p)
  <1> DEFINE s == Len(r.got.strings)
             part == r.got.strings[s]
             n == Len(m.strings)
             whole == m.strings[s]
  <1>1. /\ s \in 1 .. n /\ s + r.strings = n + 1 /\ Same(r.got.strings, m.strings, s - 1)
        /\ Len(part) + r.chars = Len(whole) /\ Same(part, whole, Len(part))
        /\ r.got.functions = <<>> /\ p = StringAt(m, s) + 1 + Len(part)
    BY DEF InString
  <1>2. r.strings \in Nat /\ r.chars \in Nat /\ r.got.strings \in Seq(Text)
    BY ReaderTyped, GotTyped
  <1>3. m.strings \in Seq(Text) /\ n \in Nat
    BY ImagesTyped
  <1>4. part \in Seq(Nat) /\ whole \in Seq(Nat)
    <2>1. s \in 1 .. Len(r.got.strings) /\ s \in 1 .. Len(m.strings)
      BY <1>1
    <2> HIDE DEF s
    <2>2. r.got.strings[s] \in Text /\ m.strings[s] \in Text
      BY <1>2, <1>3, <2>1, ElementOf
    <2> QED BY <2>2 DEF Text
  <1>5. CASE r.chars > 0
    <2> DEFINE q == NextChar(r)
    <2>1. q.got = r.got /\ q.strings = r.strings /\ q.chars = r.chars /\ q.want = "char"
      BY <1>5, WantTyped DEF NextChar, Field
    <2> HIDE DEF q
    <2>2. InString(m, q, p)
      <3>1. InString(m, r, p)
        OBVIOUS
      <3> QED BY <2>1, <3>1 DEF InString
    <2>3. Agrees(m, q, p)
      BY <2>1, <2>2, AgreesIf
    <2> QED BY <2>3 DEF q
  <1>6. CASE ~(r.chars > 0)
    <2> DEFINE l == Len(part)
               x == r.strings - 1
               q == [r EXCEPT !.strings = x]
    <2>1. NextChar(r) = NextString(q)
      BY <1>6 DEF NextChar
    <2>2. l \in Nat /\ Len(whole) \in Nat /\ l = Len(whole)
      <3>1. l \in Nat /\ Len(whole) \in Nat
        <4> HIDE DEF part, whole
        <4> QED BY <1>4
      <3>2. l + r.chars = Len(whole)
        BY <1>1
      <3> HIDE DEF l, whole
      <3> QED BY <1>2, <1>6, <3>1, <3>2
    <2>3. part = whole
      <3>1. Same(part, whole, Len(part)) /\ Len(part) = Len(whole)
        BY <1>1, <2>2
      <3> HIDE DEF part, whole
      <3> QED BY <1>4, <3>1, SameIsEqual
    <2>4. x \in Nat /\ s + x = n
      <3>1. s \in 1 .. n /\ s + r.strings = n + 1 /\ n \in Nat /\ r.strings \in Nat
        BY <1>1, <1>2, <1>3
      <3> HIDE DEF s, n
      <3> QED BY <3>1
    <2>5. q \in Reader /\ q.strings = x /\ q.got = r.got
      <3> HIDE DEF x
      <3> QED BY <2>4, ReaderTyped DEF Reader
    <2>6. Same(r.got.strings, m.strings, s)
      <3>1. r.got.strings[s] = m.strings[s]
        BY <2>3
      <3>2. \A i \in 1 .. s : i = s \/ i \in 1 .. s - 1
        BY <1>1, <1>3
      <3> HIDE DEF s
      <3> QED BY <1>1, <3>1, <3>2 DEF Same
    <2>7. p = StringAt(m, s + 1)
      <3>1. StringAt(m, s + 1) = StringAt(m, s) + 1 + Len(whole)
        BY <1>1, PlacesAre
      <3> QED BY <1>1, <2>2, <3>1
    <2>8. AtString(m, q, p)
      <3> HIDE DEF q, x
      <3> QED BY <1>1, <2>4, <2>5, <2>6, <2>7 DEF AtString
    <2> HIDE DEF q
    <2> QED BY <2>1, <2>5, <2>8, NextStringAgrees
  <1> QED BY <1>5, <1>6

LEMMA NextInstrAgrees ==
  ASSUME NEW m \in File, NEW r \in Reader, NEW p, InCode(m, r, p)
  PROVE  Agrees(m, NextInstr(r), p)
  <1> DEFINE f == Len(r.got.functions)
             part == LastUnit(r.got)
             k == Len(m.functions)
             whole == m.functions[f]
  <1>1. /\ f \in 1 .. k /\ f + r.functions = k + 1 /\ Same(r.got.functions, m.functions, f - 1)
        /\ part.name = whole.name /\ part.params = whole.params /\ part.locals = whole.locals
        /\ Len(part.instrs) + r.instrs = Len(whole.instrs)
        /\ Same(part.instrs, whole.instrs, Len(part.instrs))
        /\ r.got.strings = m.strings /\ p = UnitAt(m, f) + 4 + Len(part.instrs)
    BY DEF InCode
  <1>2. r.functions \in Nat /\ r.instrs \in Nat /\ r.got \in File
    BY ReaderTyped
  <1>3. m.functions \in Seq(Unit) /\ k \in Nat
    BY ImagesTyped
  <1>4. part \in Unit /\ whole \in Unit
    <2>1. f > 0
      BY <1>1
    <2>2. part \in Unit
      BY <1>2, <2>1, LastUnitTyped
    <2>3. whole \in Unit
      <3> HIDE DEF Unit, f
      <3> QED BY <1>1, <1>3
    <2> QED BY <2>2, <2>3
  <1>5. CASE r.instrs > 0
    <2> DEFINE q == NextInstr(r)
    <2>1. q.got = r.got /\ q.functions = r.functions /\ q.instrs = r.instrs /\ q.want = "instr"
      BY <1>5, WantTyped DEF NextInstr, Field
    <2> HIDE DEF q
    <2>2. InCode(m, q, p)
      <3>1. InCode(m, r, p)
        OBVIOUS
      <3> QED BY <2>1, <3>1 DEF InCode
    <2>3. Agrees(m, q, p)
      BY <2>1, <2>2, AgreesIf
    <2> QED BY <2>3 DEF q
  <1>6. CASE ~(r.instrs > 0)
    <2> DEFINE l == Len(part.instrs)
               x == r.functions - 1
               q == [r EXCEPT !.functions = x]
    <2>1. NextInstr(r) = NextFunction(q)
      BY <1>6 DEF NextInstr
    <2>2. l \in Nat /\ Len(whole.instrs) \in Nat /\ l = Len(whole.instrs)
      <3>1. l \in Nat /\ Len(whole.instrs) \in Nat
        <4> HIDE DEF part, whole
        <4> QED BY <1>4 DEF Unit
      <3>2. l + r.instrs = Len(whole.instrs)
        BY <1>1
      <3> HIDE DEF l, whole
      <3> QED BY <1>2, <1>6, <3>1, <3>2
    <2>3. part = whole
      <3>1. Same(part.instrs, whole.instrs, Len(part.instrs)) /\ Len(part.instrs) = Len(whole.instrs)
        BY <1>1, <2>2
      <3> HIDE DEF part, whole
      <3>2. part.instrs \in Seq(Opcodes) /\ whole.instrs \in Seq(Opcodes)
        BY <1>4 DEF Unit
      <3>3. part.instrs = whole.instrs
        BY <3>1, <3>2, SameIsEqual
      <3> QED BY <1>1, <1>4, <3>3 DEF Unit
    <2>4. x \in Nat /\ f + x = k
      <3>1. f \in 1 .. k /\ f + r.functions = k + 1 /\ k \in Nat /\ r.functions \in Nat
        BY <1>1, <1>2, <1>3
      <3> HIDE DEF f, k
      <3> QED BY <3>1
    <2>5. q \in Reader /\ q.functions = x /\ q.got = r.got
      <3> HIDE DEF x
      <3> QED BY <2>4, ReaderTyped DEF Reader
    <2>6. Same(r.got.functions, m.functions, f)
      <3>1. r.got.functions[f] = m.functions[f]
        BY <2>3 DEF LastUnit
      <3>2. \A i \in 1 .. f : i = f \/ i \in 1 .. f - 1
        BY <1>1, <1>3
      <3> HIDE DEF f
      <3> QED BY <1>1, <3>1, <3>2 DEF Same
    <2>7. p = UnitAt(m, f + 1)
      <3>1. UnitAt(m, f + 1) = UnitAt(m, f) + 4 + Len(whole.instrs)
        BY <1>1, PlacesAre
      <3> QED BY <1>1, <2>2, <3>1
    <2>8. AtUnit(m, q, p)
      <3> HIDE DEF q, x
      <3> QED BY <1>1, <2>4, <2>5, <2>6, <2>7 DEF AtUnit
    <2> HIDE DEF q
    <2> QED BY <2>1, <2>5, <2>8, NextFunctionAgrees
  <1> QED BY <1>5, <1>6

LEMMA CountedAgrees ==
  ASSUME NEW m \in File, NEW r \in Reader, NEW w \in Nat, NEW q, NEW p, Agrees(m, q, p)
  PROVE  Agrees(m, Counted(r, w, q), p)
  <1>1. CASE w > MaxCount
    <2>1. Counted(r, w, q) = Want(r, "error") /\ Want(r, "error").want = "error"
      BY <1>1, WantTyped DEF Counted, Verdict
    <2> QED BY <2>1, AgreesIf
  <1>2. CASE ~(w > MaxCount)
    BY <1>2 DEF Counted
  <1> QED BY <1>1, <1>2

(* The word the loader gets is the image's next one.                        *)
Next1(m, p, w) == p >= 3 /\ p < Len(Image(m)) => w = Image(m)[p + 1]

LEMMA HeaderAgrees ==
  ASSUME NEW m \in File, NEW r \in Reader, NEW w \in Nat, NEW p, Agrees(m, r, p),
         r.want \in {"magic", "version", "flags"}
  PROVE  Agrees(m, Feed(r, w), p + 1)
  <1>1. r.got = Empty
    BY DEF Agrees
  <1>2. CASE r.want = "magic"
    <2>1. p = 0
      BY <1>2 DEF Agrees
    <2>2. PICK field \in {"version", "error"} : Feed(r, w) = Want(r, field)
      BY <1>2, FeedIs
    <2>3. field \in Field \cup Verdict
      BY DEF Field, Verdict
    <2>4. Want(r, field).want = field /\ Want(r, field).got = Empty
      BY <1>1, <2>3, WantTyped
    <2> QED BY <2>1, <2>2, <2>4, AgreesIf
  <1>3. CASE r.want = "version"
    <2>1. p = 1
      BY <1>3 DEF Agrees
    <2>2. PICK field \in {"flags", "error"} : Feed(r, w) = Want(r, field)
      BY <1>3, FeedIs
    <2>3. field \in Field \cup Verdict
      BY DEF Field, Verdict
    <2>4. Want(r, field).want = field /\ Want(r, field).got = Empty
      BY <1>1, <2>3, WantTyped
    <2> QED BY <2>1, <2>2, <2>4, AgreesIf
  <1>4. CASE r.want = "flags"
    <2>1. p = 2
      BY <1>4 DEF Agrees
    <2>2. Feed(r, w) = Want(r, "str_count") /\ "str_count" \in Field \cup Verdict
      BY <1>4, FeedIs DEF Field
    <2>4. Want(r, "str_count").want = "str_count" /\ Want(r, "str_count").got = Empty
      BY <1>1, <2>2, WantTyped
    <2> QED BY <2>1, <2>2, <2>4, AgreesIf
  <1> QED BY <1>2, <1>3, <1>4

LEMMA StrCountAgrees ==
  ASSUME NEW m \in File, NEW r \in Reader, NEW w \in Nat, NEW p, Agrees(m, r, p),
         r.want = "str_count", Next1(m, p, w)
  PROVE  Agrees(m, Feed(r, w), p + 1)
  <1> DEFINE q == [r EXCEPT !.strings = w]
  <1>1. r.got = Empty /\ p = 3
    BY DEF Agrees
  <1>2. w = Len(m.strings)
    <2>1. EntryAt(m) \in Nat /\ Len(Image(m)) = EntryAt(m) + 1 /\ EntryAt(m) >= 5
      <3>1. FuncCountAt(m) \in Nat /\ EntryAt(m) \in Nat
        BY PlacesAre
      <3>2. 4 <= FuncCountAt(m) /\ FuncCountAt(m) + 1 <= EntryAt(m)
        BY PlacesBounded
      <3>3. Len(Image(m)) = EntryAt(m) + 1
        BY ImageIs
      <3> QED BY <3>1, <3>2, <3>3
    <2>2. w = Image(m)[p + 1] /\ p + 1 = 4
      BY <1>1, <2>1 DEF Next1
    <2>3. Image(m)[4] = Len(m.strings)
      BY ImageIs
    <2> QED BY <2>2, <2>3
  <1>3. q \in Reader /\ q.strings = w /\ q.got = Empty
    <2>1. q \in Reader
      BY ReaderTyped
    <2> HIDE DEF File, Empty
    <2> QED BY <1>1, <2>1 DEF Reader
  <1>4. Feed(r, w) = Counted(r, w, NextString(q))
    BY FeedIs
  <1> HIDE DEF q
  <1>5. AtString(m, q, 4)
    <2>1. Empty.strings = <<>> /\ Empty.functions = <<>> /\ Len(<<>>) = 0
      BY DEF Empty
    <2>2. StringAt(m, 1) = 4 /\ Len(m.strings) \in Nat
      BY PlacesAre, ImagesTyped
    <2> HIDE DEF Empty
    <2>3. Same(<<>>, m.strings, 0)
      BY DEF Same
    <2> QED BY <1>2, <1>3, <2>1, <2>2, <2>3 DEF AtString
  <1>6. Agrees(m, NextString(q), p + 1)
    <2>1. p + 1 = 4
      BY <1>1
    <2> QED BY <1>3, <1>5, <2>1, NextStringAgrees
  <1> QED BY <1>4, <1>6, CountedAgrees

LEMMA LenAgrees ==
  ASSUME NEW m \in File, NEW r \in Reader, NEW w \in Nat, NEW p, Agrees(m, r, p), Counts(r),
         r.want = "len", Next1(m, p, w)
  PROVE  Agrees(m, Feed(r, w), p + 1)
  <1> DEFINE g == r.got
             s == Len(g.strings)
             n == Len(m.strings)
             whole == m.strings[s + 1]
             h == NewString(g)
             q == [r EXCEPT !.chars = w, !.got = h]
  <1>1. AtString(m, r, p) /\ r.strings > 0
    BY DEF Agrees, Counts
  <1>2. s + r.strings = n /\ Same(g.strings, m.strings, s) /\ g.functions = <<>>
        /\ p = StringAt(m, s + 1)
    BY <1>1 DEF AtString
  <1>3. s \in Nat /\ n \in Nat /\ r.strings \in Nat /\ g \in File
    BY ReaderTyped, GotTyped, ImagesTyped
  <1>4. s + 1 \in 1 .. n
    <2>1. s + r.strings = n /\ r.strings > 0 /\ s \in Nat /\ n \in Nat /\ r.strings \in Nat
      BY <1>1, <1>2, <1>3
    <2> HIDE DEF s, n
    <2> QED BY <2>1
  <1>5. /\ p \in Nat /\ StringAt(m, s + 1 + 1) = p + 1 + Len(whole) /\ Len(whole) \in Nat
        /\ StringAt(m, s + 1 + 1) <= FuncCountAt(m)
    <2>1. p \in Nat /\ StringAt(m, s + 1 + 1) = p + 1 + Len(whole)
      BY <1>2, <1>4, PlacesAre
    <2>2. StringAt(m, s + 1 + 1) <= FuncCountAt(m)
      BY <1>4, PlacesBounded
    <2>3. Len(whole) \in Nat
      <3>1. m.strings \in Seq(Text)
        BY ImagesTyped
      <3> HIDE DEF s
      <3> QED BY <1>4, <3>1 DEF Text
    <2> QED BY <2>1, <2>2, <2>3
  <1>6. w = Len(whole)
    <2>1. p >= 3 /\ p < Len(Image(m))
      <3>1. FuncCountAt(m) \in Nat /\ EntryAt(m) \in Nat /\ FuncCountAt(m) + 1 <= EntryAt(m)
            /\ Len(Image(m)) = EntryAt(m) + 1
        BY PlacesAre, PlacesBounded, ImageIs
      <3>2. p >= 4
        BY <1>2, <1>4, PlacesLow
      <3>3. PICK x \in Nat : x = Len(whole)
        BY <1>5
      <3>4. p + 1 + x <= FuncCountAt(m) /\ p \in Nat
        BY <1>5, <3>3
      <3> HIDE DEF whole, s
      <3> QED BY <3>1, <3>2, <3>4
    <2>2. Image(m)[StringAt(m, s + 1) + 1] = Len(m.strings[s + 1])
      BY <1>4, ImageIs
    <2> QED BY <1>2, <2>1, <2>2 DEF Next1
  <1>7. Feed(r, w) = Counted(r, w, NextChar(q))
    BY FeedIs
  <1>8. /\ h \in File /\ Len(h.strings) = s + 1 /\ \A i \in 1 .. s : h.strings[i] = g.strings[i]
        /\ h.strings[s + 1] = <<>> /\ h.functions = g.functions
    BY <1>3, NewStringIs
  <1> HIDE DEF h
  <1>9. q \in Reader /\ q.chars = w /\ q.strings = r.strings /\ q.got = h
    <2>1. q \in Reader
      BY <1>8, ReaderTyped
    <2> HIDE DEF File
    <2> QED BY <2>1 DEF Reader
  <1> HIDE DEF q
  <1>10. InString(m, q, p + 1)
    <2>1. Same(h.strings, m.strings, s)
      BY <1>2, <1>8 DEF Same
    <2>2. s + 1 - 1 = s /\ s + 1 + r.strings = n + 1
      <3>1. s + r.strings = n /\ s \in Nat /\ n \in Nat /\ r.strings \in Nat
        BY <1>2, <1>3
      <3> HIDE DEF s, n
      <3> QED BY <3>1
    <2>3. Len(<<>>) = 0 /\ 0 + w = Len(whole) /\ Same(<<>>, whole, 0) /\ p + 1 = StringAt(m, s + 1) + 1 + 0
      BY <1>2, <1>5, <1>6 DEF Same
    <2>4. q.got.functions = <<>> /\ q.got.strings[s + 1] = <<>> /\ Len(q.got.strings) = s + 1
      BY <1>2, <1>8, <1>9
    <2>5. Same(q.got.strings, m.strings, s) /\ s + 1 + q.strings = n + 1
      BY <1>9, <2>1, <2>2
    <2>6. Len(<<>>) + q.chars = Len(whole) /\ Same(<<>>, whole, Len(<<>>))
          /\ p + 1 = StringAt(m, s + 1) + 1 + Len(<<>>)
      BY <1>9, <2>3
    <2> DEFINE t == Len(q.got.strings)
               u == q.got.strings[t]
    <2>7. t = s + 1 /\ u = <<>>
      BY <2>4
    <2> HIDE DEF t, u, s
    <2>8. t \in 1 .. n /\ t + q.strings = n + 1 /\ Same(q.got.strings, m.strings, t - 1)
      <3>1. t \in 1 .. n /\ t + q.strings = n + 1
        BY <1>4, <2>5, <2>7
      <3>2. t - 1 = s
        <4>1. s \in Nat
          BY <1>3
        <4> QED BY <2>7, <4>1
      <3>3. Same(q.got.strings, m.strings, t - 1)
        BY <2>5, <3>2
      <3> QED BY <3>1, <3>3
    <2>9. Len(u) + q.chars = Len(m.strings[t]) /\ Same(u, m.strings[t], Len(u))
          /\ p + 1 = StringAt(m, t) + 1 + Len(u)
      BY <2>6, <2>7
    <2> QED BY <2>4, <2>8, <2>9 DEF InString, t, u
  <1>11. Agrees(m, NextChar(q), p + 1)
    BY <1>9, <1>10, NextCharAgrees
  <1> QED BY <1>7, <1>11, CountedAgrees

LEMMA CharAgrees ==
  ASSUME NEW m \in File, NEW r \in Reader, NEW w \in Nat, NEW p, Agrees(m, r, p), Counts(r),
         r.want = "char", Next1(m, p, w)
  PROVE  Agrees(m, Feed(r, w), p + 1)
  <1> DEFINE g == r.got
             s == Len(g.strings)
             n == Len(m.strings)
             part == g.strings[s]
             whole == m.strings[s]
             c == Len(part)
             h == MoreOfString(g, w)
             x == r.chars - 1
             q == [r EXCEPT !.chars = x, !.got = h]
  <1>1. InString(m, r, p) /\ r.chars > 0
    BY DEF Agrees, Counts
  <1>2. /\ s \in 1 .. n /\ s + r.strings = n + 1 /\ Same(g.strings, m.strings, s - 1)
        /\ c + r.chars = Len(whole) /\ Same(part, whole, c) /\ g.functions = <<>>
        /\ p = StringAt(m, s) + 1 + c
    BY <1>1 DEF InString
  <1>3. s \in Nat /\ n \in Nat /\ r.chars \in Nat /\ g \in File
    BY ReaderTyped, GotTyped, ImagesTyped
  <1>4. part \in Seq(Nat) /\ whole \in Seq(Nat)
    <2>1. g.strings \in Seq(Text) /\ m.strings \in Seq(Text) /\ s \in 1 .. Len(g.strings)
      BY <1>2, <1>3, GotTyped, ImagesTyped
    <2> HIDE DEF s, g, n
    <2>2. s \in 1 .. Len(m.strings)
      BY <1>2 DEF n
    <2>3. g.strings[s] \in Text /\ m.strings[s] \in Text
      BY <2>1, <2>2, ElementOf
    <2> QED BY <2>3 DEF Text
  <1> HIDE DEF part, whole
  <1>5. c \in Nat /\ Len(whole) \in Nat /\ c + 1 \in 1 .. Len(whole) /\ x \in Nat
    <2>1. c \in Nat /\ Len(whole) \in Nat
      BY <1>4
    <2>2. c + r.chars = Len(whole) /\ r.chars \in Nat /\ r.chars > 0
      BY <1>1, <1>2, <1>3
    <2> HIDE DEF c
    <2> QED BY <2>1, <2>2
  <1>6. w = whole[c + 1]
    <2>1. /\ StringAt(m, s) \in Nat /\ StringAt(m, s + 1) = StringAt(m, s) + 1 + Len(whole)
          /\ StringAt(m, s + 1) <= FuncCountAt(m) /\ StringAt(m, s) >= 4
      BY <1>2, PlacesAre, PlacesBounded, PlacesLow DEF whole
    <2>2. FuncCountAt(m) \in Nat /\ EntryAt(m) \in Nat /\ FuncCountAt(m) + 1 <= EntryAt(m)
          /\ Len(Image(m)) = EntryAt(m) + 1
      BY PlacesAre, PlacesBounded, ImageIs
    <2>3. Image(m)[StringAt(m, s) + 1 + (c + 1)] = whole[c + 1]
      BY <1>2, <1>5, ImageIs DEF whole
    <2>4. p \in Nat /\ p >= 3 /\ p < Len(Image(m)) /\ p + 1 = StringAt(m, s) + 1 + (c + 1)
      <3>1. PICK a \in Nat, b \in Nat : a = StringAt(m, s) /\ b = Len(whole)
        BY <1>5, <2>1
      <3>2. p = a + 1 + c /\ a >= 4 /\ c + 1 <= b /\ a + 1 + b <= FuncCountAt(m) /\ c \in Nat
        BY <1>2, <1>5, <2>1, <3>1
      <3> HIDE DEF c
      <3>3. p \in Nat /\ p >= 3 /\ p < Len(Image(m)) /\ p + 1 = a + 1 + (c + 1)
        BY <2>2, <3>2
      <3> QED BY <3>1, <3>3
    <2> QED BY <2>3, <2>4 DEF Next1
  <1>7. Feed(r, w) = NextChar(q)
    BY FeedIs
  <1>8. /\ h \in File /\ Len(h.strings) = s /\ \A i \in 1 .. s - 1 : h.strings[i] = g.strings[i]
        /\ h.strings[s] = Append(part, w) /\ h.functions = g.functions
    <2>1. s > 0
      BY <1>2
    <2> QED BY <1>3, <2>1, MoreOfStringIs DEF part
  <1> HIDE DEF h, x
  <1>9. q \in Reader /\ q.chars = x /\ q.strings = r.strings /\ q.got = h
    <2>1. q \in Reader
      BY <1>5, <1>8, ReaderTyped
    <2> HIDE DEF File
    <2> QED BY <2>1 DEF Reader
  <1> HIDE DEF q
  <1>10. InString(m, q, p + 1)
    <2> DEFINE t == Len(q.got.strings)
               u == q.got.strings[t]
    <2>1. t = s /\ u = Append(part, w)
      BY <1>8, <1>9
    <2>2. Len(u) = c + 1
      BY <1>4, <2>1
    <2>3. Same(u, whole, Len(u))
      <3>1. \A i \in 1 .. c : u[i] = whole[i]
        BY <1>2, <1>4, <2>1 DEF Same
      <3>2. u[c + 1] = whole[c + 1]
        BY <1>4, <1>6, <2>1
      <3>3. \A i \in 1 .. c + 1 : i \in 1 .. c \/ i = c + 1
        BY <1>5
      <3> HIDE DEF c, u
      <3> QED BY <2>2, <3>1, <3>2, <3>3 DEF Same
    <2>4. Len(u) + q.chars = Len(whole) /\ p + 1 = StringAt(m, s) + 1 + Len(u)
      <3>1. c + 1 + x = Len(whole)
        <4>1. c \in Nat /\ r.chars \in Nat /\ c + r.chars = Len(whole)
          BY <1>2, <1>3, <1>5
        <4> HIDE DEF c
        <4> QED BY <4>1 DEF x
      <3>2. p + 1 = StringAt(m, s) + 1 + (c + 1)
        <4>1. StringAt(m, s) \in Nat /\ p = StringAt(m, s) + 1 + c /\ c \in Nat
          BY <1>2, <1>5, PlacesAre
        <4> HIDE DEF c
        <4> QED BY <4>1
      <3> HIDE DEF u
      <3> QED BY <1>9, <2>2, <3>1, <3>2
    <2>5. Same(q.got.strings, m.strings, s - 1)
      BY <1>2, <1>8, <1>9 DEF Same
    <2>6. q.got.functions = <<>> /\ s + q.strings = n + 1
      BY <1>2, <1>8, <1>9
    <2>7. whole = m.strings[s]
      BY DEF whole
    <2> HIDE DEF t, u, s
    <2> QED BY <1>2, <2>1, <2>3, <2>4, <2>5, <2>6, <2>7 DEF InString, t, u
  <1> QED BY <1>7, <1>9, <1>10, NextCharAgrees

LEMMA FuncCountAgrees ==
  ASSUME NEW m \in File, NEW r \in Reader, NEW w \in Nat, NEW p, Agrees(m, r, p),
         r.want = "func_count", Next1(m, p, w)
  PROVE  Agrees(m, Feed(r, w), p + 1)
  <1> DEFINE g == r.got
             s == Len(g.strings)
             n == Len(m.strings)
             k == Len(m.functions)
             q == [r EXCEPT !.functions = w]
  <1>1. AtString(m, r, p) /\ r.strings = 0
    BY DEF Agrees
  <1>2. s + r.strings = n /\ Same(g.strings, m.strings, s) /\ g.functions = <<>>
        /\ p = StringAt(m, s + 1)
    BY <1>1 DEF AtString
  <1>3. s \in Nat /\ n \in Nat /\ g \in File /\ g.strings \in Seq(Text) /\ m.strings \in Seq(Text)
        /\ k \in Nat
    BY ReaderTyped, GotTyped, ImagesTyped
  <1>4. s = n
    BY <1>1, <1>2, <1>3
  <1>5. g.strings = m.strings
    <2> HIDE DEF Text
    <2> QED BY <1>2, <1>3, <1>4, SameIsEqual
  <1>6. p = FuncCountAt(m)
    BY <1>2, <1>4, PlacesAre
  <1>7. w = k
    <2>1. /\ FuncCountAt(m) \in Nat /\ EntryAt(m) \in Nat /\ 4 <= FuncCountAt(m)
          /\ FuncCountAt(m) + 1 <= EntryAt(m) /\ Len(Image(m)) = EntryAt(m) + 1
      BY PlacesAre, PlacesBounded, ImageIs
    <2>2. p >= 3 /\ p < Len(Image(m))
      BY <1>6, <2>1
    <2>3. Image(m)[FuncCountAt(m) + 1] = k
      BY ImageIs
    <2> QED BY <1>6, <2>2, <2>3 DEF Next1
  <1>8. Feed(r, w) = Counted(r, w, NextFunction(q))
    BY FeedIs
  <1>9. q \in Reader /\ q.functions = w /\ q.got = g
    <2>1. q \in Reader
      BY ReaderTyped
    <2> HIDE DEF File
    <2> QED BY <2>1 DEF Reader
  <1> HIDE DEF q
  <1>10. AtUnit(m, q, p + 1)
    <2> DEFINE f == Len(q.got.functions)
    <2>1. f = 0 /\ q.got.strings = m.strings
      BY <1>2, <1>5, <1>9
    <2>2. p + 1 = UnitAt(m, 1)
      BY <1>6, PlacesAre
    <2> HIDE DEF f
    <2>3. f + q.functions = k /\ Same(q.got.functions, m.functions, f) /\ p + 1 = UnitAt(m, f + 1)
      BY <1>3, <1>7, <1>9, <2>1, <2>2 DEF Same
    <2> QED BY <2>1, <2>3 DEF AtUnit, f
  <1>11. Agrees(m, NextFunction(q), p + 1)
    BY <1>9, <1>10, NextFunctionAgrees
  <1> QED BY <1>8, <1>11, CountedAgrees

(* What the fields of a function are, and that they are in the image.       *)
LEMMA UnitPlace ==
  ASSUME NEW m \in File, NEW i \in 1 .. Len(m.functions)
  PROVE  /\ m.functions[i] \in Unit /\ UnitAt(m, i) \in Nat /\ UnitAt(m, i) >= 4
         /\ Len(m.functions[i].instrs) \in Nat
         /\ UnitAt(m, i) + 4 + Len(m.functions[i].instrs) < Len(Image(m))
         /\ UnitAt(m, i + 1) = UnitAt(m, i) + 4 + Len(m.functions[i].instrs)
  <1> DEFINE whole == m.functions[i]
             l == Len(whole.instrs)
  <1>1. whole \in Unit
    <2> HIDE DEF Unit
    <2> QED BY ImagesTyped
  <1>2. l \in Nat
    <2> HIDE DEF whole
    <2> QED BY <1>1 DEF Unit
  <1>3. UnitAt(m, i) \in Nat /\ UnitAt(m, i + 1) = UnitAt(m, i) + 4 + l
    BY PlacesAre
  <1>4. UnitAt(m, i) >= 4 /\ UnitAt(m, i + 1) <= EntryAt(m)
    BY PlacesLow, PlacesBounded
  <1>5. EntryAt(m) \in Nat /\ Len(Image(m)) = EntryAt(m) + 1
    BY PlacesAre, ImageIs
  <1> HIDE DEF whole, l
  <1>6. UnitAt(m, i) + 4 + l < Len(Image(m))
    BY <1>2, <1>3, <1>4, <1>5
  <1> QED BY <1>1, <1>2, <1>3, <1>4, <1>6 DEF whole, l

LEMMA NameAgrees ==
  ASSUME NEW m \in File, NEW r \in Reader, NEW w \in Nat, NEW p, Agrees(m, r, p), Counts(r),
         r.want = "name", Next1(m, p, w)
  PROVE  Agrees(m, Feed(r, w), p + 1)
  <1> DEFINE g == r.got
             f == Len(g.functions)
             k == Len(m.functions)
             h == NewUnit(g, w)
             q == [r EXCEPT !.got = h]
             z == Want(q, "params")
  <1>1. AtUnit(m, r, p) /\ r.functions > 0
    BY DEF Agrees, Counts
  <1>2. g.strings = m.strings /\ f + r.functions = k /\ Same(g.functions, m.functions, f)
        /\ p = UnitAt(m, f + 1)
    BY <1>1 DEF AtUnit
  <1>3. f \in Nat /\ k \in Nat /\ r.functions \in Nat /\ g \in File
    BY ReaderTyped, GotTyped, ImagesTyped
  <1>4. f + 1 \in 1 .. k /\ f + 1 + r.functions = k + 1
    <2>1. f + r.functions = k /\ r.functions > 0 /\ f \in Nat /\ k \in Nat /\ r.functions \in Nat
      BY <1>1, <1>2, <1>3
    <2> HIDE DEF f, k
    <2> QED BY <2>1
  <1>5. w = m.functions[f + 1].name
    <2> DEFINE l == Len(m.functions[f + 1].instrs)
    <2>1. p \in Nat /\ p >= 4 /\ l \in Nat /\ p + 4 + l < Len(Image(m)) /\ Len(Image(m)) \in Nat
      <3>1. /\ UnitAt(m, f + 1) \in Nat /\ UnitAt(m, f + 1) >= 4 /\ l \in Nat
            /\ UnitAt(m, f + 1) + 4 + l < Len(Image(m))
        BY <1>4, UnitPlace
      <3>2. Image(m) \in Seq(Nat)
        BY ImageIs
      <3> QED BY <1>2, <3>1, <3>2
    <2> HIDE DEF l
    <2>2. p >= 3 /\ p < Len(Image(m))
      BY <2>1
    <2>3. Image(m)[UnitAt(m, f + 1) + 1] = m.functions[f + 1].name
      BY <1>4, ImageIs
    <2> QED BY <1>2, <2>2, <2>3 DEF Next1
  <1>6. Feed(r, w) = z
    BY FeedIs
  <1>7. /\ h \in File /\ Len(h.functions) = f + 1 /\ \A i \in 1 .. f : h.functions[i] = g.functions[i]
        /\ h.functions[f + 1] = Blank(w) /\ h.strings = g.strings
    BY <1>3, NewUnitIs
  <1> HIDE DEF h
  <1>8. q \in Reader /\ q.functions = r.functions /\ q.got = h
    <2>1. q \in Reader
      BY <1>7, ReaderTyped
    <2> HIDE DEF File
    <2> QED BY <2>1 DEF Reader
  <1> HIDE DEF q
  <1>9. z.want = "params" /\ z.functions = r.functions /\ z.got = h
    BY <1>8, WantTyped DEF Field
  <1> HIDE DEF z
  <1>10. InUnit(m, z, p + 1, 1)
    <2> DEFINE t == Len(z.got.functions)
               u == LastUnit(z.got)
    <2>1. t = f + 1 /\ u = Blank(w) /\ z.got.strings = m.strings
      BY <1>2, <1>7, <1>9 DEF LastUnit
    <2>2. u.name = w /\ u.instrs = <<>>
      <3> HIDE DEF u
      <3> QED BY <2>1 DEF Blank
    <2>3. t - 1 = f
      <3> HIDE DEF t, f
      <3> QED BY <1>3, <2>1 DEF f
    <2>4. Same(z.got.functions, m.functions, f)
      BY <1>2, <1>7, <1>9 DEF Same
    <2> HIDE DEF t, u, f
    <2>5. t \in 1 .. k /\ t + z.functions = k + 1
      BY <1>4, <1>9, <2>1
    <2>6. Same(z.got.functions, m.functions, t - 1)
      BY <2>3, <2>4
    <2>7. u.name = m.functions[t].name /\ p + 1 = UnitAt(m, t) + 1
      BY <1>2, <1>5, <2>1, <2>2
    <2>8. ~(1 >= 2) /\ ~(1 >= 3)
      OBVIOUS
    <2> QED BY <2>1, <2>2, <2>5, <2>6, <2>7, <2>8 DEF InUnit, t, u
  <1> QED BY <1>6, <1>9, <1>10, AgreesIf

(* A field of the last function has come.                                   *)
LEMMA FieldAgrees ==
  ASSUME NEW m \in File, NEW r \in Reader, NEW w \in Nat, NEW p, NEW n \in {1, 2},
         InUnit(m, r, p, n), Next1(m, p, w), NEW x,
         x = IF n = 1 THEN [LastUnit(r.got) EXCEPT !.params = w]
                      ELSE [LastUnit(r.got) EXCEPT !.locals = w],
         NEW field \in Field, NEW z, z = Want([r EXCEPT !.got = ChangedUnit(r.got, x)], field)
  PROVE  InUnit(m, z, p + 1, n + 1) /\ z.want = field
  <1> DEFINE g == r.got
             f == Len(g.functions)
             k == Len(m.functions)
             part == LastUnit(g)
             whole == m.functions[f]
             h == ChangedUnit(g, x)
             q == [r EXCEPT !.got = h]
  <1>1. /\ g.strings = m.strings /\ f \in 1 .. k /\ f + r.functions = k + 1
        /\ Same(g.functions, m.functions, f - 1)
        /\ part.name = whole.name /\ part.instrs = <<>> /\ p = UnitAt(m, f) + n
        /\ n >= 2 => part.params = whole.params
    BY DEF InUnit
  <1>2. g \in File /\ f > 0 /\ part \in Unit
    <2>1. g \in File
      BY ReaderTyped
    <2>2. f > 0
      <3>1. f \in 1 .. k
        BY <1>1
      <3> HIDE DEF f, k
      <3> QED BY <3>1
    <2> QED BY <2>1, <2>2, LastUnitTyped
  <1>3. w = IF n = 1 THEN whole.params ELSE whole.locals
    <2> DEFINE l == Len(whole.instrs)
    <2>1. /\ UnitAt(m, f) \in Nat /\ UnitAt(m, f) >= 4 /\ l \in Nat
          /\ UnitAt(m, f) + 4 + l < Len(Image(m)) /\ Len(Image(m)) \in Nat
      <3>1. /\ UnitAt(m, f) \in Nat /\ UnitAt(m, f) >= 4 /\ l \in Nat
            /\ UnitAt(m, f) + 4 + l < Len(Image(m))
        BY <1>1, UnitPlace
      <3>2. Image(m) \in Seq(Nat)
        BY ImageIs
      <3> QED BY <3>1, <3>2
    <2>2. Image(m)[UnitAt(m, f) + 2] = whole.params /\ Image(m)[UnitAt(m, f) + 3] = whole.locals
      BY <1>1, ImageIs
    <2>3. p = UnitAt(m, f) + n
      BY <1>1
    <2> HIDE DEF l, whole, f
    <2>4. p >= 3 /\ p < Len(Image(m)) /\ p + 1 = IF n = 1 THEN UnitAt(m, f) + 2 ELSE UnitAt(m, f) + 3
      BY <2>1, <2>3
    <2> QED BY <2>2, <2>4 DEF Next1
  <1>4. /\ x \in Unit /\ x.name = part.name /\ x.instrs = <<>>
        /\ n = 1 => x.params = w
        /\ n = 2 => x.params = part.params /\ x.locals = w
    <2>1. x = IF n = 1 THEN [part EXCEPT !.params = w] ELSE [part EXCEPT !.locals = w]
      OBVIOUS
    <2>2. part \in Unit /\ part.instrs = <<>>
      BY <1>1, <1>2
    <2> HIDE DEF part
    <2>3. CASE n = 1
      BY <2>1, <2>2, <2>3 DEF Unit
    <2>4. CASE n = 2
      BY <2>1, <2>2, <2>4 DEF Unit
    <2> QED BY <2>3, <2>4
  <1>5. /\ h \in File /\ Len(h.functions) = f /\ \A i \in 1 .. f - 1 : h.functions[i] = g.functions[i]
        /\ LastUnit(h) = x /\ h.strings = g.strings
    BY <1>2, <1>4, ChangedUnitIs
  <1> HIDE DEF h
  <1>6. q \in Reader /\ q.functions = r.functions /\ q.got = h
    <2>1. q \in Reader
      BY <1>5, ReaderTyped
    <2> HIDE DEF File
    <2> QED BY <2>1 DEF Reader
  <1>7. z = Want(q, field)
    BY DEF h
  <1> HIDE DEF q
  <1>8. z.want = field /\ z.functions = r.functions /\ z.got = h
    BY <1>6, <1>7, WantTyped
  <1> DEFINE t == Len(z.got.functions)
             u == LastUnit(z.got)
  <1>9. t = f /\ u = x /\ z.got.strings = m.strings
    BY <1>1, <1>5, <1>8
  <1>10. Same(z.got.functions, m.functions, f - 1)
    BY <1>1, <1>5, <1>8 DEF Same
  <1>11. /\ n + 1 >= 2 => x.params = whole.params
         /\ n + 1 >= 3 => x.locals = whole.locals
         /\ x.name = whole.name
    <2> HIDE DEF whole, part, f
    <2> QED BY <1>1, <1>3, <1>4
  <1>12. p + 1 = UnitAt(m, f) + (n + 1)
    <2>1. UnitAt(m, f) \in Nat /\ p = UnitAt(m, f) + n
      BY <1>1, UnitPlace
    <2> HIDE DEF f
    <2> QED BY <2>1
  <1>13. whole = m.functions[f]
    OBVIOUS
  <1> HIDE DEF t, u, f, whole
  <1>14. t \in 1 .. k /\ t + z.functions = k + 1
    BY <1>1, <1>8, <1>9
  <1>15. Same(z.got.functions, m.functions, t - 1) /\ p + 1 = UnitAt(m, t) + (n + 1)
    BY <1>9, <1>10, <1>12
  <1>16. /\ u.name = m.functions[t].name /\ u.instrs = <<>>
         /\ n + 1 >= 2 => u.params = m.functions[t].params
         /\ n + 1 >= 3 => u.locals = m.functions[t].locals
    BY <1>4, <1>9, <1>11, <1>13
  <1> QED BY <1>8, <1>9, <1>14, <1>15, <1>16 DEF InUnit, t, u

LEMMA FieldsAgree ==
  ASSUME NEW m \in File, NEW r \in Reader, NEW w \in Nat, NEW p, Agrees(m, r, p),
         r.want \in {"params", "locals"}, Next1(m, p, w)
  PROVE  Agrees(m, Feed(r, w), p + 1)
  <1>1. CASE r.want = "params"
    <2> DEFINE x == [LastUnit(r.got) EXCEPT !.params = w]
               z == Want([r EXCEPT !.got = ChangedUnit(r.got, x)], "locals")
    <2>1. InUnit(m, r, p, 1)
      BY <1>1 DEF Agrees
    <2>2. Feed(r, w) = z
      BY <1>1, FeedIs
    <2>3. InUnit(m, z, p + 1, 1 + 1) /\ z.want = "locals"
      <3>1. "locals" \in Field
        BY DEF Field
      <3> HIDE DEF InUnit, Next1, Want
      <3> QED BY <2>1, <3>1, FieldAgrees
    <2> HIDE DEF z
    <2>4. InUnit(m, z, p + 1, 2)
      BY <2>3
    <2> QED BY <2>2, <2>3, <2>4, AgreesIf
  <1>2. CASE r.want = "locals"
    <2> DEFINE x == [LastUnit(r.got) EXCEPT !.locals = w]
               z == Want([r EXCEPT !.got = ChangedUnit(r.got, x)], "instr_count")
    <2>1. InUnit(m, r, p, 2)
      BY <1>2 DEF Agrees
    <2>2. Feed(r, w) = z
      BY <1>2, FeedIs
    <2>3. InUnit(m, z, p + 1, 2 + 1) /\ z.want = "instr_count"
      <3>1. "instr_count" \in Field
        BY DEF Field
      <3> HIDE DEF InUnit, Next1, Want
      <3> QED BY <2>1, <3>1, FieldAgrees
    <2> HIDE DEF z
    <2>4. InUnit(m, z, p + 1, 3)
      BY <2>3
    <2> QED BY <2>2, <2>3, <2>4, AgreesIf
  <1> QED BY <1>1, <1>2

LEMMA InstrCountAgrees ==
  ASSUME NEW m \in File, NEW r \in Reader, NEW w \in Nat, NEW p, Agrees(m, r, p),
         r.want = "instr_count", Next1(m, p, w)
  PROVE  Agrees(m, Feed(r, w), p + 1)
  <1> DEFINE g == r.got
             f == Len(g.functions)
             k == Len(m.functions)
             part == LastUnit(g)
             whole == m.functions[f]
             q == [r EXCEPT !.instrs = w]
  <1>1. InUnit(m, r, p, 3)
    BY DEF Agrees
  <1>2. /\ g.strings = m.strings /\ f \in 1 .. k /\ f + r.functions = k + 1
        /\ Same(g.functions, m.functions, f - 1)
        /\ part.name = whole.name /\ part.params = whole.params /\ part.locals = whole.locals
        /\ part.instrs = <<>> /\ p = UnitAt(m, f) + 3
    BY <1>1 DEF InUnit
  <1>3. /\ UnitAt(m, f) \in Nat /\ UnitAt(m, f) >= 4 /\ Len(whole.instrs) \in Nat
        /\ UnitAt(m, f) + 4 + Len(whole.instrs) < Len(Image(m))
    BY <1>2, UnitPlace
  <1>4. w = Len(whole.instrs)
    <2> DEFINE l == Len(whole.instrs)
    <2>1. Image(m)[UnitAt(m, f) + 4] = l
      BY <1>2, ImageIs
    <2>2. Len(Image(m)) \in Nat
      <3>1. Image(m) \in Seq(Nat)
        BY ImageIs
      <3> QED BY <3>1
    <2>3. p = UnitAt(m, f) + 3
      BY <1>2
    <2> HIDE DEF l, f, whole
    <2>4. p >= 3 /\ p < Len(Image(m)) /\ p + 1 = UnitAt(m, f) + 4
      BY <1>3, <2>2, <2>3 DEF l
    <2> QED BY <2>1, <2>4 DEF Next1, l
  <1>5. Feed(r, w) = Counted(r, w, NextInstr(q))
    BY FeedIs
  <1>6. q \in Reader /\ q.functions = r.functions /\ q.instrs = w /\ q.got = g
    <2>1. q \in Reader
      BY ReaderTyped
    <2> HIDE DEF File
    <2> QED BY <2>1 DEF Reader
  <1> HIDE DEF q
  <1>7. InCode(m, q, p + 1)
    <2>1. Len(part.instrs) = 0 /\ Same(part.instrs, whole.instrs, 0)
      BY <1>2 DEF Same
    <2>2. p + 1 = UnitAt(m, f) + 4 + 0 /\ 0 + w = Len(whole.instrs)
      BY <1>2, <1>3, <1>4
    <2>3. /\ q.got.strings = m.strings /\ f \in 1 .. k /\ f + q.functions = k + 1
          /\ Len(part.instrs) + q.instrs = Len(whole.instrs)
          /\ Same(part.instrs, whole.instrs, Len(part.instrs))
          /\ p + 1 = UnitAt(m, f) + 4 + Len(part.instrs)
      BY <1>2, <1>6, <2>1, <2>2
    <2> QED BY <1>2, <1>6, <2>3 DEF InCode
  <1>8. Agrees(m, NextInstr(q), p + 1)
    BY <1>6, <1>7, NextInstrAgrees
  <1> QED BY <1>5, <1>8, CountedAgrees

LEMMA InstrAgrees ==
  ASSUME NEW m \in File, NEW r \in Reader, NEW w \in Nat, NEW p, Agrees(m, r, p), Counts(r),
         r.want = "instr", Next1(m, p, w)
  PROVE  Agrees(m, Feed(r, w), p + 1)
  <1> DEFINE g == r.got
             f == Len(g.functions)
             k == Len(m.functions)
             part == LastUnit(g)
             whole == m.functions[f]
             code == part.instrs
             all == whole.instrs
             c == Len(code)
             y == [LastUnit(r.got) EXCEPT !.instrs = Append(LastUnit(r.got).instrs, FromU32(w))]
             h == ChangedUnit(g, y)
             x == r.instrs - 1
             q == [r EXCEPT !.instrs = x, !.got = h]
  <1>1. InCode(m, r, p) /\ r.instrs > 0
    BY DEF Agrees, Counts
  <1>2. /\ g.strings = m.strings /\ f \in 1 .. k /\ f + r.functions = k + 1
        /\ Same(g.functions, m.functions, f - 1)
        /\ part.name = whole.name /\ part.params = whole.params /\ part.locals = whole.locals
        /\ c + r.instrs = Len(all) /\ Same(code, all, c)
        /\ p = UnitAt(m, f) + 4 + c
    BY <1>1 DEF InCode
  <1>3. g \in File /\ r.instrs \in Nat /\ f > 0
    <2>1. g \in File /\ r.instrs \in Nat
      BY ReaderTyped
    <2>2. f > 0
      <3>1. f \in 1 .. k
        BY <1>2
      <3> HIDE DEF f, k
      <3> QED BY <3>1
    <2> QED BY <2>1, <2>2
  <1>4. part \in Unit /\ whole \in Unit
    <2>1. part \in Unit
      BY <1>3, LastUnitTyped
    <2>2. whole \in Unit
      <3> HIDE DEF Unit
      <3> QED BY <1>2, UnitPlace
    <2> QED BY <2>1, <2>2
  <1>5. code \in Seq(Opcodes) /\ all \in Seq(Opcodes)
    <2> HIDE DEF part, whole
    <2> QED BY <1>4 DEF Unit
  <1> HIDE DEF code, all
  <1>6. c \in Nat /\ Len(all) \in Nat /\ c + 1 \in 1 .. Len(all) /\ x \in Nat
    <2>1. c \in Nat /\ Len(all) \in Nat
      BY <1>5
    <2>2. c + r.instrs = Len(all) /\ r.instrs \in Nat /\ r.instrs > 0
      BY <1>1, <1>2, <1>3
    <2> HIDE DEF c
    <2> QED BY <2>1, <2>2
  <1>7. w = all[c + 1]
    <2>1. /\ UnitAt(m, f) \in Nat /\ UnitAt(m, f) >= 4
          /\ UnitAt(m, f) + 4 + Len(all) < Len(Image(m))
      BY <1>2, UnitPlace DEF all
    <2>2. Image(m)[UnitAt(m, f) + 4 + (c + 1)] = all[c + 1]
      BY <1>2, <1>6, ImageIs DEF all
    <2>3. Len(Image(m)) \in Nat
      <3>1. Image(m) \in Seq(Nat)
        BY ImageIs
      <3> QED BY <3>1
    <2>4. p = UnitAt(m, f) + 4 + c
      BY <1>2
    <2>5. p >= 3 /\ p < Len(Image(m)) /\ p + 1 = UnitAt(m, f) + 4 + (c + 1)
      <3> HIDE DEF c, f
      <3>1. PICK place \in Nat : place = UnitAt(m, f)
        BY <2>1
      <3>2. PICK z \in Nat : z = Len(Image(m))
        BY <2>3
      <3>3. /\ p = place + 4 + c /\ place >= 4 /\ place + 4 + Len(all) < z
            /\ c \in Nat /\ Len(all) \in Nat /\ c + 1 <= Len(all)
        BY <1>6, <2>1, <2>4, <3>1, <3>2
      <3>4. p >= 3 /\ p < z /\ p + 1 = place + 4 + (c + 1)
        BY <3>3
      <3> QED BY <3>1, <3>2, <3>4
    <2> QED BY <2>2, <2>5 DEF Next1
  <1>8. FromU32(w) = w /\ w \in Opcodes
    <2>1. w \in Opcodes
      <3> HIDE DEF c
      <3> QED BY <1>5, <1>6, <1>7
    <2> QED BY <2>1 DEF FromU32
  <1>9. Feed(r, w) = NextInstr(q)
    BY FeedIs
  <1>10. /\ y \in Unit /\ y.instrs = Append(code, w)
         /\ y.name = part.name /\ y.params = part.params /\ y.locals = part.locals
    <2>1. y = [part EXCEPT !.instrs = Append(code, w)]
      BY <1>8 DEF code
    <2>2. Append(code, w) \in Seq(Opcodes)
      BY <1>5, <1>8
    <2> HIDE DEF y, part
    <2> QED BY <1>4, <2>1, <2>2 DEF Unit
  <1> HIDE DEF y
  <1>11. /\ h \in File /\ Len(h.functions) = f
         /\ \A i \in 1 .. f - 1 : h.functions[i] = g.functions[i]
         /\ LastUnit(h) = y /\ h.strings = g.strings
    BY <1>3, <1>10, ChangedUnitIs
  <1> HIDE DEF h, x
  <1>12. q \in Reader /\ q.instrs = x /\ q.functions = r.functions /\ q.got = h
    <2>1. q \in Reader
      BY <1>6, <1>11, ReaderTyped
    <2> HIDE DEF File
    <2> QED BY <2>1 DEF Reader
  <1> HIDE DEF q
  <1>13. InCode(m, q, p + 1)
    <2> DEFINE t == Len(q.got.functions)
               u == LastUnit(q.got)
               v == u.instrs
    <2>1. t = f /\ u = y /\ v = Append(code, w)
      BY <1>10, <1>11, <1>12
    <2>2. Len(v) = c + 1
      BY <1>5, <1>8, <2>1
    <2>3. Same(v, all, Len(v))
      <3>1. \A i \in 1 .. c : v[i] = all[i]
        BY <1>2, <1>5, <1>8, <2>1 DEF Same
      <3>2. v[c + 1] = all[c + 1]
        BY <1>5, <1>7, <1>8, <2>1
      <3>3. \A i \in 1 .. c + 1 : i \in 1 .. c \/ i = c + 1
        BY <1>6
      <3> HIDE DEF c, v
      <3> QED BY <2>2, <3>1, <3>2, <3>3 DEF Same
    <2>4. Len(v) + q.instrs = Len(all) /\ p + 1 = UnitAt(m, f) + 4 + Len(v)
      <3>1. c + 1 + x = Len(all)
        <4>1. c \in Nat /\ r.instrs \in Nat /\ c + r.instrs = Len(all)
          BY <1>2, <1>3, <1>6
        <4> HIDE DEF c
        <4> QED BY <4>1 DEF x
      <3>2. p + 1 = UnitAt(m, f) + 4 + (c + 1)
        <4>1. UnitAt(m, f) \in Nat /\ p = UnitAt(m, f) + 4 + c /\ c \in Nat
          BY <1>2, <1>6, UnitPlace
        <4> HIDE DEF c
        <4> QED BY <4>1
      <3> HIDE DEF v
      <3> QED BY <1>12, <2>2, <3>1, <3>2
    <2>5. Same(q.got.functions, m.functions, f - 1)
      BY <1>2, <1>11, <1>12 DEF Same
    <2>6. q.got.strings = m.strings /\ f + q.functions = k + 1
      BY <1>2, <1>11, <1>12
    <2>7. u.name = whole.name /\ u.params = whole.params /\ u.locals = whole.locals
      BY <1>2, <1>10, <2>1
    <2>8. all = whole.instrs /\ whole = m.functions[f]
      BY DEF all
    <2> HIDE DEF t, u, v, f, whole
    <2>9. /\ t \in 1 .. k /\ t + q.functions = k + 1 /\ Same(q.got.functions, m.functions, t - 1)
          /\ p + 1 = UnitAt(m, t) + 4 + Len(v)
      BY <1>2, <2>1, <2>4, <2>5, <2>6
    <2>10. /\ u.name = m.functions[t].name /\ u.params = m.functions[t].params
           /\ u.locals = m.functions[t].locals
      BY <2>1, <2>7, <2>8
    <2>11. Len(v) + q.instrs = Len(m.functions[t].instrs)
           /\ Same(v, m.functions[t].instrs, Len(v))
      BY <2>1, <2>3, <2>4, <2>8
    <2> QED BY <2>6, <2>9, <2>10, <2>11 DEF InCode, t, u, v
  <1> QED BY <1>9, <1>12, <1>13, NextInstrAgrees

LEMMA EntryAgrees ==
  ASSUME NEW m \in File, NEW r \in Reader, NEW w \in Nat, NEW p, Agrees(m, r, p),
         r.want = "entry", Next1(m, p, w)
  PROVE  Agrees(m, Feed(r, w), p + 1)
  <1> DEFINE g == r.got
             f == Len(g.functions)
             k == Len(m.functions)
             h == [g EXCEPT !.entry = w]
             q == [r EXCEPT !.got = h]
             z == Want(q, "module")
  <1>1. AtUnit(m, r, p) /\ r.functions = 0
    BY DEF Agrees
  <1>2. g.strings = m.strings /\ f + r.functions = k /\ Same(g.functions, m.functions, f)
        /\ p = UnitAt(m, f + 1)
    BY <1>1 DEF AtUnit
  <1>3. f \in Nat /\ k \in Nat /\ g \in File /\ g.functions \in Seq(Unit) /\ m.functions \in Seq(Unit)
    BY ReaderTyped, GotTyped, ImagesTyped
  <1>4. f = k
    BY <1>1, <1>2, <1>3
  <1>5. g.functions = m.functions
    <2> HIDE DEF Unit
    <2> QED BY <1>2, <1>3, <1>4, SameIsEqual
  <1>6. p = EntryAt(m)
    BY <1>2, <1>4, PlacesAre
  <1>7. w = m.entry
    <2>1. /\ FuncCountAt(m) \in Nat /\ EntryAt(m) \in Nat /\ 4 <= FuncCountAt(m)
          /\ FuncCountAt(m) + 1 <= EntryAt(m) /\ Len(Image(m)) = EntryAt(m) + 1
      BY PlacesAre, PlacesBounded, ImageIs
    <2>2. p >= 3 /\ p < Len(Image(m))
      BY <1>6, <2>1
    <2>3. Image(m)[EntryAt(m) + 1] = m.entry
      BY ImageIs
    <2> QED BY <1>6, <2>2, <2>3 DEF Next1
  <1>8. h = m /\ h \in File
    <2> HIDE DEF Text, Unit
    <2> QED BY <1>2, <1>3, <1>5, <1>7 DEF File
  <1>9. Feed(r, w) = z
    BY FeedIs
  <1> HIDE DEF h
  <1>10. q \in Reader /\ q.got = h
    <2>1. q \in Reader
      BY <1>8, ReaderTyped
    <2> HIDE DEF File
    <2> QED BY <2>1 DEF Reader
  <1>11. z.want = "module" /\ z.got = m
    BY <1>8, <1>10, WantTyped DEF Verdict
  <1> HIDE DEF z
  <1> QED BY <1>9, <1>11, AgreesIf

(* Fed the next word of the image, the loader goes on agreeing with it.     *)
LEMMA FeedAgrees ==
  ASSUME NEW m \in File, NEW r \in Reader, NEW w \in Nat, NEW p, Agrees(m, r, p), Counts(r),
         Next1(m, p, w)
  PROVE  Agrees(m, Feed(r, w), p + 1)
  <1>1. CASE r.want \in {"magic", "version", "flags"}
    BY <1>1, HeaderAgrees
  <1>2. CASE r.want \in {"str_count", "len", "char", "func_count"}
    BY <1>2, StrCountAgrees, LenAgrees, CharAgrees, FuncCountAgrees
  <1>3. CASE r.want \in {"name", "params", "locals", "instr_count"}
    BY <1>3, NameAgrees, FieldsAgree, InstrCountAgrees
  <1>4. CASE r.want \in {"instr", "entry"}
    BY <1>4, InstrAgrees, EntryAgrees
  <1>5. CASE r.want \notin Field
    <2>1. r.want \in {"module", "error"}
      BY <1>5, ReaderTyped DEF Verdict
    <2>2. Feed(r, w) = r
      BY <1>5, FeedIs
    <2>3. r.want = "module" => r.got = m
      BY DEF Agrees
    <2> QED BY <2>1, <2>2, <2>3, AgreesIf
  <1> QED BY <1>1, <1>2, <1>3, <1>4, <1>5 DEF Field


-----------------------------------------------------------------------------
(* How much of the file u's loader has used: what BufReader has read, less  *)
(* what of it is still in the buffer.                                       *)
Used(u) == at[u] - Len(buffer[u])

(* RunsOwnProgram is not inductive.  What makes it so: the loader is new    *)
(* until it starts, the buffer is the file's next words, and as far as the  *)
(* file says m the loader has read m.                                       *)
NotYet ==
    \A u \in User : pc[u] \in {"idle", "writing"} =>
        reader[u] = NewReader /\ at[u] = 0 /\ buffer[u] = <<>>

NextWords ==
    \A u \in User : pc[u] = "loading" =>
        /\ at[u] <= Len(file) /\ Len(buffer[u]) <= at[u]
        /\ \A j \in 1 .. Len(buffer[u]) : buffer[u][j] = file[Used(u) + j]

ReadSoFar ==
    \A u \in User : pc[u] \in {"loading", "running"} =>
        \A m \in Compiled : Says(file, m) => Agrees(m, reader[u], Used(u))

Accepted == \A u \in User : pc[u] = "running" => reader[u].want = "module"

LInv == IInv /\ TInv /\ NotYet /\ NextWords /\ ReadSoFar /\ Accepted

LEMMA CompiledTyped == \A m \in Compiled : m \in File /\ m # NoModule /\ Image(m) \in Seq(Nat)
  BY PipelineAssumption

LEMMA NewReaderAgrees == ASSUME NEW m PROVE Agrees(m, NewReader, 0)
  <1>1. NewReader.want = "magic" /\ NewReader.got = Empty
    BY DEF NewReader
  <1> HIDE DEF NewReader, Empty
  <1> QED BY <1>1 DEF Agrees

LEMMA MatchesSays ==
  ASSUME NEW f \in Seq(Nat), NEW m \in Compiled, Matches(f, Output[m])
  PROVE  Says(f, m)
  <1>1. Output[m] = Image(m)
    BY CompiledTyped DEF Output
  <1>2. Len(f) \in Nat
    OBVIOUS
  <1>3. \A i \in 4 .. Len(f) : i \in 1 .. Len(f)
    BY <1>2
  <1> QED BY <1>1, <1>3 DEF Matches, Says

LEMMA LInit == Init => NotYet /\ NextWords /\ ReadSoFar /\ Accepted
  <1> SUFFICES ASSUME Init PROVE NotYet /\ NextWords /\ ReadSoFar /\ Accepted
    OBVIOUS
  <1>1. \A u \in User : pc[u] = "idle" /\ reader[u] = NewReader /\ at[u] = 0 /\ buffer[u] = <<>>
    BY DEF Init
  <1> QED BY <1>1 DEF NotYet, NextWords, ReadSoFar, Accepted

LEMMA LEnd ==
  ASSUME LInv, NEW u \in User, NEW s, End(u, s)
  PROVE  NotYet' /\ NextWords' /\ ReadSoFar' /\ Accepted'
  <1>1. /\ file' = file /\ pc'[u] = "idle" /\ reader'[u] = NewReader /\ at'[u] = 0
        /\ buffer'[u] = <<>>
        /\ \A v \in User \ {u} : /\ pc'[v] = pc[v] /\ reader'[v] = reader[v] /\ at'[v] = at[v]
                                 /\ buffer'[v] = buffer[v]
    <2> HIDE DEF Reader, NewReader
    <2> QED BY DEF LInv, TInv, TypeOK, End
  <1>2. \A v \in User \ {u} : Used(v)' = Used(v)
    BY <1>1 DEF Used
  <1> HIDE DEF NewReader, Agrees, Says
  <1>3. NotYet'
    BY <1>1 DEF LInv, NotYet
  <1>4. NextWords'
    BY <1>1, <1>2 DEF LInv, NextWords
  <1>5. ReadSoFar'
    BY <1>1, <1>2 DEF LInv, ReadSoFar
  <1>6. Accepted'
    BY <1>1 DEF LInv, Accepted
  <1> QED BY <1>3, <1>4, <1>5, <1>6

(* Nobody loads or runs while the file changes.                             *)
LEMMA LWrite ==
  ASSUME LInv, \A v \in User : pc[v] \in {"idle", "writing"} /\ pc'[v] \in {"idle", "writing"},
         UNCHANGED <<reader, at, buffer>>
  PROVE  NotYet' /\ NextWords' /\ ReadSoFar' /\ Accepted'
  <1> HIDE DEF NewReader, Agrees, Says
  <1>1. NotYet'
    BY DEF LInv, NotYet
  <1>2. NextWords' /\ ReadSoFar' /\ Accepted'
    BY DEF NextWords, ReadSoFar, Accepted
  <1> QED BY <1>1, <1>2

LEMMA LStart ==
  ASSUME LInv, NEW u \in User, pc[u] \in {"idle", "writing"}, pc' = [pc EXCEPT ![u] = "loading"],
         UNCHANGED <<file, reader, at, buffer>>
  PROVE  NotYet' /\ NextWords' /\ ReadSoFar' /\ Accepted'
  <1>1. /\ pc'[u] = "loading" /\ \A v \in User \ {u} : pc'[v] = pc[v]
        /\ file \in Seq(Nat) /\ Len(file) \in Nat
    <2> HIDE DEF Reader
    <2> QED BY DEF LInv, TInv, TypeOK
  <1>2. reader[u] = NewReader /\ at[u] = 0 /\ buffer[u] = <<>> /\ Len(<<>>) = 0
    BY DEF LInv, NotYet
  <1>3. \A v \in User : Used(v)' = Used(v)
    BY DEF Used
  <1>4. Used(u) = 0
    <2> HIDE DEF NewReader
    <2>1. Used(u) = 0 - 0
      BY <1>2 DEF Used
    <2> QED BY <2>1
  <1>5. \A m \in Compiled : Agrees(m, reader[u], Used(u))
    BY <1>2, <1>4, NewReaderAgrees
  <1> HIDE DEF NewReader, Agrees, Says
  <1>6. NotYet'
    BY <1>1 DEF LInv, NotYet
  <1>7. NextWords'
    <2> SUFFICES ASSUME NEW v \in User, pc'[v] = "loading"
                 PROVE  /\ at'[v] <= Len(file') /\ Len(buffer'[v]) <= at'[v]
                        /\ \A j \in 1 .. Len(buffer'[v]) : buffer'[v][j] = file'[Used(v)' + j]
      BY DEF NextWords
    <2>1. CASE v = u
      BY <1>1, <1>2, <2>1
    <2>2. CASE v # u
      BY <1>1, <1>3, <2>2 DEF LInv, NextWords
    <2> QED BY <2>1, <2>2
  <1>8. ReadSoFar'
    BY <1>1, <1>3, <1>5 DEF LInv, ReadSoFar
  <1>9. Accepted'
    BY <1>1 DEF LInv, Accepted
  <1> QED BY <1>6, <1>7, <1>8, <1>9

LEMMA LAccept ==
  ASSUME LInv, NEW u \in User, Accept(u)
  PROVE  NotYet' /\ NextWords' /\ ReadSoFar' /\ Accepted'
  <1>1. /\ pc[u] = "loading" /\ pc'[u] = "running" /\ reader[u].want = "module"
        /\ \A v \in User \ {u} : pc'[v] = pc[v]
        /\ UNCHANGED <<file, reader, at, buffer>>
    <2> HIDE DEF Reader
    <2> QED BY DEF LInv, TInv, TypeOK, Accept
  <1>2. \A v \in User : Used(v)' = Used(v)
    BY <1>1 DEF Used
  <1> HIDE DEF NewReader, Agrees, Says
  <1>3. NotYet'
    BY <1>1 DEF LInv, NotYet
  <1>4. NextWords'
    BY <1>1, <1>2 DEF LInv, NextWords
  <1>5. ReadSoFar'
    BY <1>1, <1>2 DEF LInv, ReadSoFar
  <1>6. Accepted'
    BY <1>1 DEF LInv, Accepted
  <1> QED BY <1>3, <1>4, <1>5, <1>6

(* One loader reads on.                                                     *)
LEMMA LRead ==
  ASSUME LInv, NEW u \in User, pc[u] = "loading", UNCHANGED <<file, pc>>,
         \A v \in User \ {u} : reader'[v] = reader[v] /\ at'[v] = at[v] /\ buffer'[v] = buffer[v],
         at'[u] <= Len(file), Len(buffer'[u]) <= at'[u],
         \A j \in 1 .. Len(buffer'[u]) : buffer'[u][j] = file[Used(u)' + j],
         \A m \in Compiled : Says(file, m) => Agrees(m, reader'[u], Used(u)')
  PROVE  NotYet' /\ NextWords' /\ ReadSoFar' /\ Accepted'
  <1>1. \A v \in User \ {u} : Used(v)' = Used(v)
    BY DEF Used
  <1> HIDE DEF NewReader, Agrees, Says
  <1>2. NotYet'
    BY DEF LInv, NotYet
  <1>3. NextWords'
    BY <1>1 DEF LInv, NextWords
  <1>4. ReadSoFar'
    BY <1>1 DEF LInv, ReadSoFar
  <1>5. Accepted'
    BY DEF LInv, Accepted
  <1> QED BY <1>2, <1>3, <1>4, <1>5

(* The words of a sequence after place a, up to place b.                    *)
LEMMA WordsBetween ==
  ASSUME NEW f \in Seq(Nat), NEW a \in Nat, NEW b \in Nat, a <= b, b <= Len(f)
  PROVE  /\ Len(SubSeq(f, a + 1, b)) = b - a
         /\ \A j \in 1 .. Len(SubSeq(f, a + 1, b)) : SubSeq(f, a + 1, b)[j] = f[a + j]
  <1>1. Len(f) \in Nat
    OBVIOUS
  <1>2. Len(SubSeq(f, a + 1, b)) = b - a
    <2>1. CASE a = b
      BY <2>1
    <2>2. CASE a < b
      BY <1>1, <2>2
    <2> QED BY <2>1, <2>2
  <1>3. ASSUME NEW j \in 1 .. b - a PROVE SubSeq(f, a + 1, b)[j] = f[a + j]
    <2>1. a + 1 + j - 1 = a + j /\ j \in 1 .. b - (a + 1) + 1
      OBVIOUS
    <2>2. SubSeq(f, a + 1, b)[j] = f[a + 1 + j - 1]
      BY <1>1, <2>1
    <2> QED BY <2>1, <2>2
  <1> QED BY <1>2, <1>3

LEMMA LFill ==
  ASSUME LInv, NEW u \in User, Fill(u)
  PROVE  NotYet' /\ NextWords' /\ ReadSoFar' /\ Accepted'
  <1> DEFINE end == IF at[u] + ReadSize < Len(file) THEN at[u] + ReadSize ELSE Len(file)
             words == SubSeq(file, at[u] + 1, end)
  <1>1. /\ pc[u] = "loading" /\ buffer[u] = <<>> /\ at[u] \in Nat /\ file \in Seq(Nat)
        /\ Len(file) \in Nat /\ at[u] <= Len(file) /\ Len(<<>>) = 0
    BY DEF LInv, TInv, TypeOK, Fill, NextWords
  <1>2. Used(u) = at[u]
    BY <1>1 DEF Used
  <1>3. end \in Nat /\ end <= Len(file) /\ at[u] <= end
    BY <1>1, PipelineAssumption
  <1>4. /\ buffer'[u] = words /\ at'[u] = at[u] + Len(words) /\ UNCHANGED <<file, pc>>
        /\ reader'[u] = IF words = <<>> THEN AtEnd(reader[u]) ELSE reader[u]
        /\ \A v \in User \ {u} : /\ reader'[v] = reader[v] /\ at'[v] = at[v]
                                 /\ buffer'[v] = buffer[v]
    <2> HIDE DEF Reader, AtEnd
    <2> QED BY DEF LInv, TInv, TypeOK, Fill
  <1> HIDE DEF end
  <1>5. Len(words) = end - at[u] /\ \A j \in 1 .. Len(words) : words[j] = file[at[u] + j]
    BY <1>1, <1>3, WordsBetween
  <1> HIDE DEF words
  <1>6. at'[u] = end /\ Used(u)' = at[u] /\ Len(buffer'[u]) <= at'[u] /\ at'[u] <= Len(file)
    BY <1>1, <1>3, <1>4, <1>5 DEF Used
  <1>7. \A j \in 1 .. Len(buffer'[u]) : buffer'[u][j] = file[Used(u)' + j]
    BY <1>4, <1>5, <1>6
  <1>8. \A m \in Compiled : Says(file, m) => Agrees(m, reader'[u], Used(u)')
    <2> SUFFICES ASSUME NEW m \in Compiled, Says(file, m) PROVE Agrees(m, reader'[u], at[u])
      BY <1>6
    <2>1. CASE words = <<>>
      <3>1. reader[u] \in Reader
        BY DEF LInv, TInv, TypeOK
      <3>2. reader'[u].want = "error"
        BY <1>4, <2>1, <3>1, WantTyped DEF AtEnd, Verdict
      <3> QED BY <3>2, AgreesIf
    <2>2. CASE words # <<>>
      <3>1. Agrees(m, reader[u], Used(u))
        BY <1>1 DEF LInv, ReadSoFar
      <3> QED BY <1>2, <1>4, <2>2, <3>1
    <2> QED BY <2>1, <2>2
  <1> QED BY <1>1, <1>4, <1>6, <1>7, <1>8, LRead

LEMMA LTake ==
  ASSUME LInv, NEW u \in User, Take(u)
  PROVE  NotYet' /\ NextWords' /\ ReadSoFar' /\ Accepted'
  <1> DEFINE b == buffer[u]
             w == Head(b)
             rest == Tail(b)
             p == Used(u)
  <1>1. /\ pc[u] = "loading" /\ b \in Seq(Nat) /\ b # <<>> /\ at[u] \in Nat /\ Len(file) \in Nat
        /\ at[u] <= Len(file) /\ Len(b) <= at[u]
        /\ \A j \in 1 .. Len(b) : b[j] = file[p + j]
    BY DEF LInv, TInv, TypeOK, Take, NextWords
  <1>2. /\ buffer'[u] = rest /\ at'[u] = at[u] /\ reader'[u] = Feed(reader[u], w)
        /\ UNCHANGED <<file, pc>>
        /\ \A v \in User \ {u} : /\ reader'[v] = reader[v] /\ at'[v] = at[v]
                                 /\ buffer'[v] = buffer[v]
    <2> HIDE DEF Reader, Feed
    <2> QED BY DEF LInv, TInv, TypeOK, Take
  <1>3. /\ reader[u] \in Reader /\ Counts(reader[u])
    BY DEF LInv, TInv, TypeOK
  <1> DEFINE l == Len(b)
  <1>4. l \in Nat /\ l >= 1 /\ Len(rest) = l - 1 /\ w = b[1] /\ w \in Nat
        /\ \A j \in 1 .. l - 1 : rest[j] = b[j + 1]
    BY <1>1
  <1> HIDE DEF w, rest
  <1>5. p = at[u] - l
    BY DEF Used
  <1>6. Used(u)' = at[u] - (l - 1)
    BY <1>2, <1>4 DEF Used
  <1> HIDE DEF p, l
  <1>7. p \in Nat /\ Used(u)' = p + 1 /\ p + 1 <= Len(file) /\ l <= at[u]
    <2>1. l <= at[u]
      BY <1>1 DEF l
    <2>2. PICK a \in Nat : a = at[u]
      BY <1>1
    <2>3. PICK z \in Nat : z = Len(file)
      BY <1>1
    <2>4. /\ p = a - l /\ Used(u)' = a - (l - 1) /\ l <= a /\ a <= z
          /\ l \in Nat /\ l >= 1
      BY <1>1, <1>4, <1>5, <1>6, <2>1, <2>2, <2>3
    <2>5. p \in Nat /\ Used(u)' = p + 1 /\ p + 1 <= z
      BY <2>4
    <2> QED BY <2>1, <2>3, <2>5
  <1>8. at'[u] <= Len(file) /\ Len(buffer'[u]) <= at'[u]
    BY <1>1, <1>2, <1>4, <1>7
  <1>9. \A j \in 1 .. Len(buffer'[u]) : buffer'[u][j] = file[Used(u)' + j]
    <2> SUFFICES ASSUME NEW j \in 1 .. l - 1 PROVE rest[j] = file[p + 1 + j]
      BY <1>2, <1>4, <1>7
    <2>1. j + 1 \in 1 .. l /\ p + (j + 1) = p + 1 + j
      BY <1>4, <1>7
    <2>2. b[j + 1] = file[p + (j + 1)]
      BY <1>1, <2>1 DEF l
    <2> QED BY <1>4, <2>1, <2>2
  <1>10. w = file[p + 1]
    BY <1>1, <1>4 DEF l
  <1>11. \A m \in Compiled : Says(file, m) => Agrees(m, reader'[u], Used(u)')
    <2> SUFFICES ASSUME NEW m \in Compiled, Says(file, m)
                 PROVE  Agrees(m, Feed(reader[u], w), p + 1)
      BY <1>2, <1>7
    <2>1. Agrees(m, reader[u], p)
      BY <1>1 DEF LInv, ReadSoFar, p
    <2>2. Next1(m, p, w)
      <3> SUFFICES ASSUME p >= 3, p < Len(Image(m)) PROVE w = Image(m)[p + 1]
        BY DEF Next1
      <3>1. Len(Image(m)) \in Nat
        <4>1. Image(m) \in Seq(Nat)
          BY CompiledTyped
        <4> QED BY <4>1
      <3>2. p + 1 \in 4 .. Len(file) /\ p + 1 <= Len(Image(m))
        BY <1>1, <1>7, <3>1
      <3>3. file[p + 1] = Image(m)[p + 1]
        BY <3>2 DEF Says
      <3> QED BY <1>10, <3>3
    <2>3. m \in File
      BY CompiledTyped
    <2> HIDE DEF Agrees, Feed, Counts
    <2> QED BY <1>3, <1>4, <2>1, <2>2, <2>3, FeedAgrees
  <1> QED BY <1>1, <1>2, <1>8, <1>9, <1>11, LRead

(* Where u writes or opens the file, nobody else does anything.             *)
LEMMA OthersIdle ==
  ASSUME IInv, NEW u \in User, pc[u] = "writing"
  PROVE  \A v \in User : pc[v] \in {"idle", "writing"}
  BY DEF IInv, Shape, Alone, Busy

LEMMA LNext == ASSUME Together <= 1 PROVE LInv /\ [Next]_vars => LInv'
  <1> SUFFICES ASSUME LInv, [Next]_vars PROVE LInv'
    OBVIOUS
  <1> DEFINE Rest0 == NotYet /\ NextWords /\ ReadSoFar /\ Accepted
  <1>1. IInv' /\ TInv'
    BY NextKept, TNext DEF LInv
  <1>2. CASE UNCHANGED vars
    <2>1. \A v \in User : Used(v)' = Used(v)
      BY <1>2 DEF vars, Used
    <2> HIDE DEF NewReader, Agrees, Says
    <2>2. Rest0'
      BY <1>2, <2>1 DEF LInv, vars, NotYet, NextWords, ReadSoFar, Accepted
    <2> QED BY <1>1, <2>2 DEF LInv
  <1>3. ASSUME NEW u \in User, Flush(u) PROVE Rest0'
    <2>1. \A v \in User : pc[v] \in {"idle", "writing"}
      BY <1>3, OthersIdle DEF LInv, Flush
    <2>2. UNCHANGED <<pc, reader, at, buffer>>
      BY <1>3 DEF Flush
    <2> QED BY <2>1, <2>2, LWrite
  <1>4. ASSUME NEW u \in User, NEW n \in 0 .. FlushSize - 1, LoseRest(u, n) PROVE Rest0'
    <2>1. \A v \in User : pc[v] \in {"idle", "writing"}
      BY <1>4, OthersIdle DEF LInv, LoseRest
    <2>2. UNCHANGED <<pc, reader, at, buffer>>
      BY <1>4 DEF LoseRest
    <2> QED BY <2>1, <2>2, LWrite
  <1>5. ASSUME NEW u \in User, NEW m \in Compiled, Open(u, m) PROVE Rest0'
    <2>1. \A v \in User : pc[v] = "idle"
      BY <1>5, FreeMeansAlone DEF Open, Begin, LInv, IInv, Shape
    <2>2. pc' = [pc EXCEPT ![u] = "writing"] /\ UNCHANGED <<reader, at, buffer>>
      BY <1>5 DEF Open, Begin
    <2>3. \A v \in User : pc'[v] \in {"idle", "writing"}
      BY <2>1, <2>2 DEF LInv, IInv, Shape
    <2> QED BY <2>1, <2>2, <2>3, LWrite
  <1>6. ASSUME NEW u \in User, StartRuntime(u) \/ RunFile(u) PROVE Rest0'
    BY <1>6, LStart DEF StartRuntime, RunFile, Begin
  <1>7. ASSUME NEW u \in User,
               Reject(u) \/ CannotOpen(u) \/ NoRuntime(u) \/ Return(u) \/ Interrupt(u)
        PROVE  Rest0'
    BY <1>7, LEnd DEF Reject, CannotOpen, NoRuntime, Return, Interrupt
  <1>8. CASE Next
    <2>1. Rest0'
      BY <1>3, <1>4, <1>5, <1>6, <1>7, <1>8, LFill, LTake, LAccept DEF Next, Work
    <2> QED BY <1>1, <2>1 DEF LInv
  <1> QED BY <1>2, <1>8

(* The loader inverts the writer, so that what a user runs is what the      *)
(* user's source compiled to: for any programs, buffer sizes, number of     *)
(* users, interrupts, losses and former contents of the file, as long as    *)
(* commands run one after the other (cmd_run, write_module, load_module).   *)
THEOREM OwnProgramRuns == ASSUME Together <= 1 PROVE Spec => []RunsOwnProgram
  <1>1. Init => LInv
    BY InitKept, TInit, LInit DEF LInv
  <1>2. LInv /\ [Next]_vars => LInv'
    BY LNext
  <1>3. LInv => RunsOwnProgram
    <2> SUFFICES ASSUME LInv, NEW u \in User, pc[u] = "running", prog[u] # NoModule
                 PROVE  prog[u] = reader[u].got
      BY DEF RunsOwnProgram
    <2>1. prog[u] \in Compiled /\ file \in Seq(Nat)
      BY DEF LInv, IInv, Shape
    <2>2. Says(file, prog[u])
      <3>1. Matches(file, Output[prog[u]])
        BY DEF LInv, IInv, OwnPart
      <3> QED BY <2>1, <3>1, MatchesSays
    <2>3. Agrees(prog[u], reader[u], Used(u)) /\ reader[u].want = "module"
      BY <2>1, <2>2 DEF LInv, ReadSoFar, Accepted
    <2> QED BY <2>3 DEF Agrees
  <1> QED BY <1>1, <1>2, <1>3, PTL DEF Spec

-----------------------------------------------------------------------------
(* A file cut short anywhere is never taken for a program.  What the file   *)
(* says is always some program's, also between two commands.                *)
Known == \E m \in Compiled : Says(file, m)

LEMMA KnownKept == ASSUME Together <= 1 PROVE LInv /\ Known /\ [Next]_vars => Known'
  <1> SUFFICES ASSUME LInv, Known, [Next]_vars PROVE Known'
    OBVIOUS
  <1>1. IInv'
    BY NextKept DEF LInv
  <1>2. CASE file' = file
    BY <1>2 DEF Known
  <1>3. ASSUME NEW u \in User, NEW m \in Compiled, Open(u, m) PROVE Known'
    <2>1. file' = <<>>
      BY <1>3 DEF Open
    <2>2. Says(<<>>, m)
      BY DEF Says
    <2> QED BY <2>1, <2>2 DEF Known
  <1>4. ASSUME NEW u \in User, pc[u] = "writing", UNCHANGED <<pc, prog>> PROVE Known'
    <2>1. prog'[u] \in Compiled /\ file' \in Seq(Nat) /\ Matches(file', Output[prog'[u]])
      BY <1>1, <1>4 DEF LInv, IInv, Shape, AtItsEnd, OwnPart
    <2>2. Says(file', prog'[u])
      BY <2>1, MatchesSays
    <2> QED BY <2>1, <2>2 DEF Known
  <1>5. CASE UNCHANGED vars
    BY <1>2, <1>5 DEF vars
  <1>6. ASSUME NEW u \in User, Flush(u) PROVE Known'
    BY <1>4, <1>6 DEF Flush
  <1>7. ASSUME NEW u \in User, NEW n \in 0 .. FlushSize - 1, LoseRest(u, n) PROVE Known'
    BY <1>4, <1>7 DEF LoseRest
  <1>8. ASSUME NEW u \in User,
               StartRuntime(u) \/ RunFile(u) \/ Fill(u) \/ Take(u) \/ Accept(u)
        PROVE  Known'
    BY <1>2, <1>8 DEF StartRuntime, RunFile, Fill, Take, Accept
  <1>9. ASSUME NEW u \in User,
               Reject(u) \/ CannotOpen(u) \/ NoRuntime(u) \/ Return(u) \/ Interrupt(u)
        PROVE  Known'
    BY <1>2, <1>9 DEF Reject, CannotOpen, NoRuntime, Return, Interrupt, End
  <1> QED BY <1>3, <1>5, <1>6, <1>7, <1>8, <1>9 DEF Next, Work

(* What runs was compiled as a whole, also when a user starts the runtime   *)
(* on what an interrupt or a full disk has left (write_module, load_module).*)
THEOREM WholeProgramsRun ==
  ASSUME Together <= 1, LeftoversKnown
  PROVE  Spec => []OnlyWholePrograms
  <1>1. Init => LInv /\ Known
    <2>1. Init => Known
      BY DEF Init, Known, LeftoversKnown
    <2> QED BY <2>1, InitKept, TInit, LInit DEF LInv
  <1>2. (LInv /\ Known) /\ [Next]_vars => (LInv /\ Known)'
    BY LNext, KnownKept
  <1>3. LInv /\ Known => OnlyWholePrograms
    <2> SUFFICES ASSUME LInv, Known, NEW u \in User, pc[u] = "running"
                 PROVE  reader[u].got \in Compiled
      BY DEF OnlyWholePrograms
    <2>1. PICK m \in Compiled : Says(file, m)
      BY DEF Known
    <2>2. Agrees(m, reader[u], Used(u)) /\ reader[u].want = "module"
      BY <2>1 DEF LInv, ReadSoFar, Accepted
    <2>3. reader[u].got = m
      BY <2>2 DEF Agrees
    <2> QED BY <2>1, <2>3
  <1> QED BY <1>1, <1>2, <1>3, PTL DEF Spec
=============================================================================
