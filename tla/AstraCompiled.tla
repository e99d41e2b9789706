--------------------------- MODULE AstraCompiled ----------------------------
(***************************************************************************)
(* The compiler and the machine together: a source program is optimized at *)
(* some level, generated, loaded and run.                                  *)
(***************************************************************************)
EXTENDS AstraVM, AstraOptimizer, AstraCodegen, AstraCertificate, AstraHeights

CONSTANTS
    Sources,   \* the programs to compile: sequences of items
    Levels     \* optimization levels, of 0 .. 2

VARIABLES
    source,    \* the program as it was written
    level,     \* the level it was compiled at
    verdict    \* "rejected", "died" or "built"

cvars == <<source, level, verdict>>

S == INSTANCE AstraSema

(* compile(), after the parser: the modules it may yield, none if it dies   *)
(* in the optimizer or the code generator.                                  *)
Compile(items, lv) == UNION {Generate(opt) : opt \in Optimize(items, lv)}

Nothing == [functions |-> <<>>, strings |-> <<>>, entry |-> 0]

Verdicts(items, lv) ==
    LET built == {[verdict |-> "built", module |-> m] : m \in Compile(items, lv)}
    IN  IF ~S!Accepts(items) THEN {[verdict |-> "rejected", module |-> Nothing]}
        ELSE IF built = {} THEN {[verdict |-> "died", module |-> Nothing]}
        ELSE built

CInit ==
    /\ source \in Sources /\ level \in Levels
    /\ \E v \in Verdicts(source, level) : verdict = v.verdict /\ module = v.module
    /\ Fresh

CNext == verdict = "built" /\ Next /\ UNCHANGED cvars
CSpec == CInit /\ [][CNext]_<<vars, cvars>>

(* The interpreter loop is never suspended.                                 *)
CFairSpec == CSpec /\ WF_<<vars, cvars>>(CNext)

Finished == status \notin {"loaded", "running"}

-----------------------------------------------------------------------------
M == INSTANCE AstraMeaning

(* Optimizing, generating and running a program yields what the source      *)
(* means: the same output and the same end, at every level.                 *)
MeaningKept ==
    Finished => [output |-> output, status |-> status] = M!Meaning(source)

(* And it does end: a program whose evaluation ends is not compiled into    *)
(* one that runs for ever.                                                  *)
CompiledProgramsEnd == verdict = "built" => <>Finished

(* What the semantic analyzer accepts, optimizer and code generator can     *)
(* translate, at every level.                                               *)
AcceptedIsBuilt == verdict # "died"

(* What it accepts does not go wrong: no instruction of the running program *)
(* meets an operand of another type than its own, a missing operand or a    *)
(* function that does not exist.                                            *)
TypesHold == status \notin {"type", "underflow", "badfn"}

(* A statement that calls a function with a result by its path leaves the   *)
(* result on the stack until the function returns.                          *)
RECURSIVE Discards(_)
Discards(s) ==
    CASE s.k = "expr" ->
            \E i \in DOMAIN CollectFns(source, <<>>) :
                LET f == CollectFns(source, <<>>)[i]
                IN  s.expr.k = "call" /\ Callee(s.expr) = f.path /\ f.fn.ret # Void
      [] s.k = "block" -> \E i \in DOMAIN s.stmts : Discards(s.stmts[i])
      [] s.k = "if" -> Discards(s.then) \/ \E e \in s.else : Discards(e)
      [] s.k = "while" -> Discards(s.body)
      [] s.k = "fn" -> \E b \in s.body : Discards(b)
      [] s.k = "mod" -> \E i \in DOMAIN s.items : Discards(s.items[i])
      [] OTHER -> FALSE

(* Generated code keeps the books of the stack: every instruction is        *)
(* reached at one height, joins of branches and loops included, a function  *)
(* with a result leaves one value and one without leaves none.  It is what  *)
(* AstraVerified's theorems ask of a program.  Programs that discard the    *)
(* result of a call are the exception.                                      *)
Certified ==
    LET table == CollectFns(source, <<>>)
        arity == [i \in DOMAIN table |-> IF table[i].fn.ret # Void THEN 1 ELSE 0]
    IN  [module |-> module, arity |-> arity,
         heights |-> [i \in DOMAIN table |-> Heights(module.functions[i].code, arity)]]

CodeAddsUp ==
    verdict = "built" /\ status = "loaded" /\ (\A i \in DOMAIN source : ~Discards(source[i]))
        => \E c \in {Certified} \cap Certificate : WellShaped(c) /\ Consistent(c)
=============================================================================
