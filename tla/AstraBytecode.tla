--------------------------- MODULE AstraBytecode ---------------------------
(***************************************************************************)
(* The .asc file: what the compiler writes and how the runtime reads it.   *)
(* A field is one word, whatever its width on disk; of an instruction only *)
(* the opcode is kept.  The reader is a machine fed one field at a time.   *)
(***************************************************************************)
EXTENDS Integers, Sequences, SequencesExt

CONSTANTS
    Magic,         \* "ASTR"
    MinorVersions, \* minor versions of one major version: 2^16 in the code
    Version,       \* ASTRA_BYTECODE_VERSION
    Opcodes,       \* the numbers from_u32 knows
    HaltOp,        \* HALT's number
    MaxCount       \* the largest vector with_capacity can make

ASSUME FormatAssumption ==
    /\ Magic \in Nat /\ Version \in Nat
    /\ MinorVersions \in Nat \ {0}
    /\ Opcodes \subseteq Nat /\ HaltOp \in Opcodes
    /\ MaxCount \in Nat

Text == Seq(Nat)
Unit == [name : Nat, params : Nat, locals : Nat, instrs : Seq(Opcodes)]
File == [strings : Seq(Text), functions : Seq(Unit), entry : Nat]

-----------------------------------------------------------------------------
(* write_module *)
StringImage(s) == <<Len(s)>> \o s
UnitImage(f) == <<f.name, f.params, f.locals, Len(f.instrs)>> \o f.instrs

Each(image(_), s) == FlattenSeq([i \in 1 .. Len(s) |-> image(s[i])])

Header == <<Magic, Version, 2>>       \* flags: ASTRA_FLAG_OPTIMIZED
Body(m) ==
    <<Len(m.strings)>> \o Each(StringImage, m.strings)
        \o <<Len(m.functions)>> \o Each(UnitImage, m.functions)
        \o <<m.entry>>
Image(m) == Header \o Body(m)

-----------------------------------------------------------------------------
(* load_module: the field it wants next, how many strings, characters,      *)
(* functions and instructions are still to come, and what it has so far.    *)
Field == {"magic", "version", "flags", "str_count", "len", "char", "func_count",
          "name", "params", "locals", "instr_count", "instr", "entry"}
Verdict == {"module", "error"}

Empty == [strings |-> <<>>, functions |-> <<>>, entry |-> 0]
Reader ==
    [want : Field \cup Verdict, strings : Nat, chars : Nat, functions : Nat,
     instrs : Nat, got : File]
NewReader ==
    [want |-> "magic", strings |-> 0, chars |-> 0, functions |-> 0, instrs |-> 0,
     got |-> Empty]

Want(r, field) == [r EXCEPT !.want = field]
Check(r, ok, field) == Want(r, IF ok THEN field ELSE "error")

NextString(r) == Want(r, IF r.strings > 0 THEN "len" ELSE "func_count")
NextChar(r) ==
    IF r.chars > 0 THEN Want(r, "char")
    ELSE NextString([r EXCEPT !.strings = @ - 1])
NextFunction(r) == Want(r, IF r.functions > 0 THEN "name" ELSE "entry")
NextInstr(r) ==
    IF r.instrs > 0 THEN Want(r, "instr")
    ELSE NextFunction([r EXCEPT !.functions = @ - 1])

Major(w) == w \div MinorVersions
FromU32(w) == IF w \in Opcodes THEN w ELSE HaltOp

(* What with_capacity cannot allocate kills the process: an error as well.  *)
Counted(r, w, next) == IF w > MaxCount THEN Want(r, "error") ELSE next

Feed(r, w) ==
    LET s == Len(r.got.strings)
        f == Len(r.got.functions)
    IN  CASE r.want = "magic" -> Check(r, w = Magic, "version")
          [] r.want = "version" -> Check(r, Major(w) = Major(Version), "flags")
          [] r.want = "flags" -> Want(r, "str_count")
          [] r.want = "str_count" ->
                Counted(r, w, NextString([r EXCEPT !.strings = w]))
          [] r.want = "len" ->
                Counted(r, w, NextChar([r EXCEPT !.chars = w,
                                          !.got.strings = Append(@, <<>>)]))
          [] r.want = "char" ->
                NextChar([r EXCEPT !.chars = @ - 1,
                                   !.got.strings[s] = Append(@, w)])
          [] r.want = "func_count" ->
                Counted(r, w, NextFunction([r EXCEPT !.functions = w]))
          [] r.want = "name" ->
                Want([r EXCEPT !.got.functions = Append(@,
                        [name |-> w, params |-> 0, locals |-> 0, instrs |-> <<>>])],
                     "params")
          [] r.want = "params" -> Want([r EXCEPT !.got.functions[f].params = w], "locals")
          [] r.want = "locals" ->
                Want([r EXCEPT !.got.functions[f].locals = w], "instr_count")
          [] r.want = "instr_count" ->
                Counted(r, w, NextInstr([r EXCEPT !.instrs = w]))
          [] r.want = "instr" ->
                NextInstr([r EXCEPT !.instrs = @ - 1,
                             !.got.functions[f].instrs = Append(@, FromU32(w))])
          [] r.want = "entry" -> Want([r EXCEPT !.got.entry = w], "module")
          [] OTHER -> r        \* the loader has returned

Reading(r) == r.want \in Field
=============================================================================
