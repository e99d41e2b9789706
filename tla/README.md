# AstraLang, specified and checked

A TLA+ development of the AstraLang toolchain: the compiler `astrac` (C++), its
bytecode, and the runtime `astra` (Rust) with its virtual machine and debugger.
Paths are relative to `src/`.

## 1. The system

| component | code | state | operations |
|---|---|---|---|
| lexer | `lexer/lexer.c` | position, line and column, the token peeked at | next token, peek |
| parser | `compiler/parser/` | position in the tokens | tokens to syntax tree, or an error |
| semantic analyzer | `compiler/sema/` | stack of scopes, function and struct tables | accept or reject a tree |
| optimizer | `compiler/opt/` | the tree, rewritten in place | fold, simplify, remove dead code |
| code generator | `compiler/ir/codegen.cpp` | function table, instructions so far, variable slots | tree to bytecode |
| module resolver | `compiler/module/` | graph by name, depth-first marks, order | entry file to load order |
| compiler driver | `compiler/main.cpp` | `/tmp/astra_run.asc`, a child process | `run`: compile, write, start the runtime |
| bytecode, opcode registry | `include/astra_ir.h`, `compiler/opcode_table.c` | tables | lookup |
| loader | `runtime/src/loader.rs` | position in the file | file to module, or an error |
| virtual machine | `runtime/src/vm.rs` | value stack, frames, globals, heap, output | one handler per opcode, the loop |
| debugger | `runtime/src/debugger.rs` | breakpoints, step mode | the hook of the loop, the prompt |
| disassembler, diagnostics, library | `tools/`, `include/astra_error.h`, `stdlib/` | none | printing |

**How they interact.** `cmd_run` calls `compile` (lexer, parser, analyzer,
optimizer, generator in sequence), writes the module to one fixed file, and
starts `astra` on the file's name in a child process; `astra` loads the module
and lets the machine execute it, and under `--debug` the machine's loop calls
the debugger before each instruction. Compiler and runtime share two hand-kept
facts in two languages: the layout of the file, and what each opcode does to
the stack. The resolver stands alone: no command of the driver calls it.

**What is hard.** The components are sequential; what is hard to test is

- the front end: tokens that end by looking ahead, a peeked token behind the
  position, precedence passed down as one number;
- the analyzer: its idea of what an operator takes against the machine's, tables
  that are never restored;
- the machine: one value stack shared by all frames through base pointers,
  handlers that fail half way, signed operands cast to unsigned indices, limits
  tested in one place and exceeded in another;
- the optimizer and the generator: rewriting that must keep calls, output and
  errors, books of the stack kept by the syntax of a call, jumps patched later,
  names without scopes;
- the pipeline: two processes and a shared file, interrupts, a full disk, other
  users doing the same at the same time;
- the debugger: step mode set in two places and tested in a third;
- the resolver: an explicit work stack, then a depth-first search, on imports
  that may be cyclic, missing, repeated or ambiguous.

`PROJECT.json` lists each hazard at its line with the properties aimed at it.

**What makes a component correct.** The machine: typed and bounded for ANY
bytecode, and isolated activations for bytecode that adds up. The front
end: the tokens tile the text, and the tree says all that the text says. The
compiler: what the analyzer accepts is translated at every level, runs without a
type error and does what the source means, and generated code adds up.
The pipeline: a user runs the user's own program, whole. The debugger: nothing
runs while a question is open, "step" is one instruction, "continue" ends at the
next breakpoint. The resolver: the import closure, dependencies first, or a
cycle that is on disk, as long as no module name means two files.

## 2. The modules

```
AstraLexer <- AstraLexemes <- AstraLexing <- AstraFrontEnd
AstraLexer, AstraAST <- AstraParser <------------+
            AstraAST <- AstraGrammar <-----------+

AstraIR <- AstraValues <- AstraVM <- AstraVMProps <- AstraDebugger ---- implements AstraSession
   |            |            |
   |            |            +-- AstraVerified (+ AstraCertificate) --- implements AstraCalls
   |            +-- AstraAST <- AstraSema, AstraOptimizer, AstraCodegen, AstraMeaning
   |                                    \        |        /
   +-- AstraCertificate, AstraHeights ---- AstraCompiled (+ AstraVM)
AstraBytecode <- AstraPipeline          AstraResolver -- implements AstraLoadOrder
```

`AstraLexing` is the lexer alone, on any text. `AstraParser` builds the nodes of
`AstraAST`. `AstraFrontEnd` goes from a text to a tree, `AstraCompiled` from a tree to the end of its execution.

| module | models | correspondence |
|---|---|---|
| `AstraIR` | opcodes, words, registry, module shape | `StackEffect` is `opcode_table.c`; `Wrap` and `AsUsize` are the casts of `vm.rs` at `WordBits` |
| `AstraValues` | `Value` and its operators | arithmetic is exact at the word size; a string is its length, a float zero or not |
| `AstraVM` | `VM::execute`, `call_fn`, `push`, `pop` | one action per handler; `status` is how `run` ended, panics included; `FallOff` is the loop's test of `ip` |
| `AstraVMProps` | what holds for arbitrary bytecode | |
| `AstraCertificate`, `AstraVerified` | bytecode whose declared stack effects agree along every edge, and the machine on it | `cert` is constant; nothing in the runtime computes it |
| `AstraHeights` | the one candidate certificate of a code sequence (recursive, for TLC only) | |
| `AstraCalls` | abstract: isolated activations | |
| `AstraDebugger` | the loop with its hook and prompt | `hook` is where the loop stands, `stepping` and `points` are the debugger's fields |
| `AstraSession` | abstract: what a session promises | |
| `AstraBytecode` | the file's layout as written and as read | `Image` is `write_module`, `Feed` is one read of `load_module` |
| `AstraPipeline` | `cmd_run`, `run_program`, the runtime's `main` | one step per chunk of stdio and of `BufReader` |
| `AstraResolver` | `build_load_order`, `resolve_node`, `dfs` | one step per node and per import, the recursion of `dfs` is the variable `calls`; `project` is the disk: the imports of each file and the file a name means to each |
| `AstraLoadOrder` | abstract: a load order or a real cycle, once | `needs` is what a node's file imports and means, on disk |
| `AstraAST` | `ast.h` | a node is a record, an optional child a set of at most one |
| `AstraLexer` | `lexer_next`, `lexer_peek`, one operator per `lex_` function | a text is a sequence of characters; the lexer is the record of `pos`, `line`, `col` and `peeked`; a loop is where it ends: `First`, or `Settle` of its turn; `Move` is `advance`, repeated |
| `AstraLexemes` | the reference: which sequences of characters are lexemes, comments and gaps | `TypesOfLexeme` is RFC 001, section 1; `TypesTaken` adds what the lexer takes besides: floats without a fraction before an exponent or without digits in it (`IsNumber`), and strings with any escape (`IsQuoted`); `LexiconAssumption` says what the look-up table has to be like |
| `AstraLexing` | a lexer and the tokens it gave | one step per `lexer_next`, as `lex_all` calls it, `lexer_peek` at any time |
| `AstraParser` | every `parse_` function | the state is `toks_`, `pos_`, the value returned last, and `ok`, false once an error is thrown |
| `AstraGrammar` | the reference: how a tree is written | by the table of RFC 001, 3.1, whose highest level is that of the suffixes; prefix operators, which the table does not list, are on the level it leaves free (13) |
| `AstraFrontEnd` | `lex_all`, then `parse_module` | the steps of `AstraLexing`, then one step per item |
| `AstraSema` | `SemanticAnalyzer::analyze` and all it calls | a set of results per check, empty where the code throws; `scopes`, `fns`, `structs` and `ret` are its fields |
| `AstraOptimizer` | all passes at -O0, -O1, -O2 | the set of results, empty where the compiler dies |
| `AstraCodegen` | function table, expressions, statements | one operator per `gen_` function, over the generator's state |
| `AstraMeaning` | the reference: what a source program prints and how it ends | written from the language, not from the compiler: lexical scopes, short circuits, wrap-around, errors |
| `AstraCompiled` | `compile()` from the tree on, followed by the machine | `verdict` says whether the analyzer rejected the program, the optimizer or generator died, or a module was built; `source` and `level` never change |

Each `_proofs` module holds the theorems of the module it is named after; each
`MC` module holds the instances TLC checks.

**Abstractions.** Data is reduced to what a property tells apart: strings to
their length in the machine, floats to zero and nonzero, a file's field to one
word, operands of instructions left out of the file, a project to what its files
import and what a name means to a file, prompts to the commands that change
state; only the lexer reads characters. All control is kept: guards, early
returns, the order of pops and pushes, every error. Where the generator looks a
bare callee up by its last component and several match, the code takes the one
its hash table yields first; the model takes each (`Picks`).

## 3. The runs

| run | distinct question | bounds |
|---|---|---|
| `machine` | ANY bytecode: every main of up to three control instructions with eight ill-behaved helpers, every data instruction on every pair of operand kinds: limits, frames, traces, pointers, registry effects, overflow, untouched callers, progress | word of 4 bits, stack of 4, heap of 3 |
| `verified` | certified programs: books balance, no underflow, operands isolated, and the machine implements `AstraCalls` | three functions, main of three instructions |
| `compiled` | 1731 source programs: what the analyzer accepts is translated, runs without a type error, prints and ends as in `AstraMeaning`, adds up and terminates: all expressions and statement pairs below, and an operand of every type in every place, at three levels | word of 7 bits, stack of 8 |
| `frontend` | 8126 texts: tokens (`TypesTaken`) tile the text, reading ends, places are right, trees written down are read back, nothing of an accepted text is lost, there is a verdict | 4 characters, 3 tokens, trees of two operators |
| `debugger` | sessions over every main of three instructions out of seven opcodes: the debugged machine implements `AstraSession`, and no command hangs | breakpoints in `Breakable` only |
| `pipeline` | any number of commands one after the other, interrupted or with a full disk anywhere | two users, chunks of 3 words written and 5 read |
| `resolver` | every project of four modules with at most two imports each, flat or in two directories: dependencies come first, the search overlooks nothing, every call ends; and where no name means two files the graph is the import closure, edge by edge, and a cycle is one on disk | one call per resolver |
| `depth` | violation: recursion escapes the documented depth limit | the control half of `machine`, stack of 2 |
| `together` | violation: two `astrac run` at once | `Together = 2` |
| `dropped` | violation: the optimizer drops calls | levels 0 and 2 |
| `shadowed` | violation: a block's declaration outlives the block | levels 0 and 2 |
| `falsecycle` | violation: a circle of names that is none of files is reported | the nested projects of `resolver` |

**Why the bounds are enough.** A word of 4 bits has every boundary case of a
word of 64: both extremes, sign, wrap-around of sums, a negative cast to a large
index (`HalfWord`); 7 bits leave the compiled programs room for jumps and sums.
Stack limits of 2 to 8 are reached and exceeded. Three instructions suffice to
call, disturb and come back; helpers recurse, fall off their end, pop below
their frame and call what does not exist. In the pipeline a chunk is shorter
than every image, one image is a prefix of another up to its last words, and the
reader's chunk is out of step with the writer's; `MinorVersions` packs major and
minor version into a word as the code's 16 bits do, and `MaxCount` is the
largest element count a vector can be made for: a damaged file may announce more. Four modules make diamonds, cycles
of one to four, missing files, the entry imported under a name of its own, and
the same name in two directories: among the nested projects names are ambiguous
in some and not in others. `MaxOutput`
caps what is remembered of the output; `MemLimit` is the size of memory. The
well typed sources of `compiled` are all expressions of one operator over six operands and
a choice of those of two and three, each printed or branched on, and all pairs
of fourteen statements; `MainLength` is that two. The others put an operand of
each of twelve kinds (integers, booleans, strings, floats, function names,
undeclared names, calls with and without a result) into every place that takes
one, and structs, pointers, arrays, casts and fields into a function that is
checked and generated but not called; one program calls by a bare name what two
modules declare alike.

The texts of `frontend` are all strings of up to `TextLength` characters out of six
small alphabets, each chosen so that the interesting characters meet (comment
signs with line ends, digits with points, exponents and signs, quotes with
backslashes, two-character operators with their parts, blanks between letters
and digits), all sequences of up to `SoupLength` tokens in seven settings, and about
1100 trees: an operator of every level around and inside one of every other
level, every statement and item in every form. A prefix operator on a call, an
index or a field has its operand in parentheses, which by the table it does not
need (`Bracketed`, section 6). Longer texts repeat these
situations: the lexer looks at most two characters ahead, the parser one token.

**What the sources of `compiled` leave out**, each for a reason stated where it
is defined: expressions in which the optimizer drops a call or a division
(`Drops`; these are the sources of `dropped`), declarations in a block under an
outer name (`shadowed`), a second declaration in one scope with another type,
`if false { } else if ..`, a bare call, inside a module, of a function without a
result, operands the analyzer accepts and the machine does not (section 6), and
`for` with a body (it is never generated) and variables of modules (they are
read as null). `CodeAddsUp` also leaves out statements that discard a result
(`Discards`): the value stays on the stack until the function returns.
`MeaningKept` covers those. So `AcceptedIsBuilt` and `TypesHold` say that nothing
goes wrong BESIDES these cases.

**What the pipeline assumes of a full disk**: it stays full until the command
ends (`LoseRest`). That a later chunk is written after an earlier one was lost is
not modelled.

**Deadlock.** `CHECK_DEADLOCK FALSE` where programs, sessions, commands and calls
come to an end after which nothing happens. The front end is checked FOR
deadlock, and with `LexingEnds` that is its termination: the only states that may
stop are those with a verdict (`Stop`), every token but the end takes a
character (`LexingEnds`), and every step of the parser takes a token.

## 4. Fairness

Liveness is stated only under the fairness the code's scheduling gives: the
interpreter's loop, the resolver's call and the compiler and runtime of a
started command are never suspended (weak fairness of the loop's step). A user
at the debugger's prompt may wait for ever, and so may a program run:
`CommandsReturn` asks for the prompt or the end only of code that jumps forward
(`ForwardOnly`), and `CommandsGetThere` only for the program's first instruction
or the end of the command. Nothing is assumed to call the resolver.
The front end states no fairness and no liveness; its termination is the absence
of deadlock together with `LexingEnds`.

## 5. What is proved

All theorems hold for every value of the constants; the assumptions are the
named `ASSUME`s of the modules, which TLC evaluates on every run.

The machine, on any bytecode:

- **`AstraVM_proofs`**, first part: `TypeCorrect`, `StackNeverExceedsLimit`,
  `NoFrameUnreachable`, `TraceSafe`. The type invariant is not inductive by
  itself: a fetched instruction is typed only if the frame's function indexes
  the table, and that is what `TraceIndexesFunctions` says. `IInv` joins them;
  there is one lemma per handler.
- Second part: `CallersStayUntouched`, `HandlersFollowRegistry` and
  `OverflowLosesNothing` together, since all three are about what one handler
  does: `StepOK` is proved handler by handler, from `IInv` and from
  `NothingEntered` (a machine that has not started has no frame).
  `AddressesStayInHeap` needs the heap's length as well: an `ALLOC` can shrink
  the heap only when the sum of lengths wraps, which it cannot while the heap
  is within memory, memory is less than half the words (`isize::MAX`) and sizes
  are not negative. `Sound` says that of every place a value can be kept in.

The machine, on certified bytecode:

- **`AstraVerified_proofs`**: `BooksBalance` and `CertifiedNeverUnderflows`. The
  invariant relates the stack's length to the certificate: the running frame has
  its height above its base, and a frame under a call its height at the resume
  point less what the callee will return. It needs a running frame's
  instruction to be one a path reaches, hence `GrantedFrames`. This is the
  argument for a verifier: the registry's effects are all that a check before
  execution would need.
- **`AstraCalls_proofs`**: `CallersOperandsSafe` and the refinement
  `CallsImplemented`. Each handler is shown to be one of four shapes of step
  (`StaysIn`, `CallsOut`, `Leaves`, `Replaces`), and each shape a step of
  `AstraCalls` or a stutter, so that the refinement is about four steps and not
  forty. The books speak of neighbouring frames; that an operand stays whose it
  is needs the bases sorted along the whole chain of calls (`BasesSorted`).

The debugger:

- **`AstraDebugger_proofs`**: `DebuggedMachineSafe` (pausing and quitting keep
  the machine's invariant) and `SessionKept`, the refinement of `AstraSession`,
  by a step or stutter per action. The strengthening ties `stepping` to the
  last command and the place to the fetched instruction.

The pipeline (`AstraPipeline_proofs`):

- `PipelineTypesHold`, for any number of commands at once and whatever the file
  holds. `Reader` alone is not inductive: that a field is added to the function
  being read needs the counts of what is still to come (`Counts`).
- `OwnFile`, for commands one after the other. A next chunk extends the prefix
  only because it goes where the file ends, which is true while the writer is
  alone; `Together <= 1` is the hypothesis of this theorem and of the next two,
  and `together` shows what happens without it.
- `OwnProgramRuns`: what is run is what was compiled. The heart is that the
  loader inverts the writer. The lemmas on the image say which word of it lies
  where (`ImageIs`: a string or function begins where the flattened ones before
  it end), `Agrees(m, r, i)` says that a loader that has used i words has
  collected exactly the part of m those words are, and `FeedAgrees` that one more
  word of the image keeps it so, one lemma per field. Around it the invariant
  `LInv` says that the buffer is the file's next words (`NextWords`), and that
  a loader agrees with every program the file says (`ReadSoFar`).
- `WholeProgramsRun`: what is run was compiled as a whole, also when a user starts
  the runtime on what is there. Its hypothesis `LeftoversKnown` is about the
  file before the first command: from the fourth word on it does not contradict
  every program there is. It may be empty, cut short, of another version or too
  long. A file of somebody else's words may be loaded, of course; `MCPipeline`
  assumes the hypothesis, so TLC evaluates it.

The resolver (`AstraResolver_proofs`), whatever the project:

- `ResolverTypesHold`, for any number of calls.
- `LoadsDepsFirst`, for a resolver asked once, as the next three. The invariant is
  that of a depth-first search with an explicit stack: what is ordered has its
  dependencies ordered, what is active is on the stack, each caller waits for
  the import its successor resolves.
- `SearchOverlooksNothing`. `SearchInv` is the invariant of a work list: an import of a
  node has a node, leads nowhere, or waits; what waits is imported by a node.
- `SearchFindsClosure`, which relates the graph to the disk and so needs
  `Unambiguous`: no name means two files to the files of the closure. `DiskInv`
  says that a node has its file's imports and that its file is in every closed
  set that has the entry; `EdgesAreOwn` and `FilesAreClosure` are the two halves.
- `ResolverKeepsPromise`, the refinement of `AstraLoadOrder`. What a node needs is
  read off the disk (`Needs`), not off the graph. `ChainInv` says that the marks
  are the active calls and each call waits for the next, so that a module found
  marked closes a circle of names; where names are unambiguous that is a circle
  of files (`SameNeeds`), which `Complain` asks for. A complaint in a project with
  ambiguous names is mapped to no answer at all.

The lexer (`AstraLexing_proofs`), on any text:

- `TokensCoverText`, `PlacesAreRight` and `LexerComesToEnd`. `LInv` says that the
  lexer stands where the last token ends, or where the peeked one ends, which is
  good after the last (`PeekedOK`), at the line and column of that place; that
  the last token is good; and that as many characters were read as there are
  tokens. `GoodToken` is the property a token is given when it is found, in a
  form that does not mention the lexer.
- They are about the lexemes the lexer takes, `TypesTaken`; a lexeme of RFC 001 is
  one of them (`LexemesAreTaken`), but not the other way round (section 6).
- That a found token is good (`LexOneIs`) is where the work is. `SettleIs`: a loop
  whose turn never goes back comes to rest, in what its turns keep. What the
  loop over blanks and comments keeps is that a gap ends here, or a line comment
  does whose line end is next (`Skipped`). What the loop over a string keeps is
  that the place is not escaped and every quote passed is (`InStringAt`), where
  escaped means an odd number of backslashes (`OddOrEven`). A number is shown
  longest by its three parts (`NumberParts`), each ending before a character
  that cannot continue it; a word and an operator by their characters. That a
  lexeme's kind follows from its first character (`LexemeOpens`) needs
  `LexiconAssumption`: a keyword is a word, an operator begins like nothing else.
- The theorems are about `LSpec`, where a text is any sequence of characters.
  They carry over to `FSpec`: `FInit` chooses a text, `Lex` and `LexPeek` contain
  `NextToken` and `Peek`, and every other step leaves `lvars` alone. The prover
  does not see that step, because the parser is RECURSIVE; TLC checks the
  three properties of `FSpec` itself.

**`AstraInduction`**. The library's induction theorems are about an operator
`P(_)`, which the provers at hand cannot instantiate. Stated about a set of
numbers and a step function instead, induction (`InductionUpTo`) and the
existence of recursive functions (`RecursionExists`) are first-order and follow
from the well-founded order of the naturals. What the image of a program is
rests on them: an image flattens sequences of any number of strings and
functions (`FlattenPieces`). The resolver's `Wanted`, a recursive function, is
proved about in the same way, and so is where the lexer's loops end.

Some definitions were changed for the proofs. The lexer's loops were RECURSIVE
operators on a string; they are now `First` and the recursive function inside
`Settle`, on a sequence of characters, and give the same tokens. `TypeOfToken`
has a CASE of which no two guards hold at once: that the empty slice at the end
of the text is in no table is part of its proof. `Wanted` is now a recursive
function, with the same meaning. `Overlay` was wrong: the guards of its CASE
overlapped, and a CASE then means any of the branches; TLC takes the first,
which is the one meant, so no run could show it, and the proof failed.

**Only model-checked**: the liveness properties (`CommandsGetThere`, `CallsEnd`,
`ForwardProgramsEnd`, `CommandsReturn`, `CompiledProgramsEnd`), and six
properties of the parser and the compiler: `ReadsBack` and `NothingLost`,
`AcceptedIsBuilt`, `TypesHold`, `MeaningKept` and `CodeAddsUp`. Each says what
operators compute that recurse over a tree of any shape, and the proof of it
would be by induction over trees. The runs check them on every tree up to their
bounds.

## 6. Where code and documents disagree

Five runs show it, quoted in `PROJECT.json`: frames are not bounded by the stack
limit (`depth`), concurrent runs share a file (`together`), optimization drops
calls (`dropped`), scopes end with the function (`shadowed`), and the resolver,
whose graph is keyed by names that mean a file only together with their
importer, reports a cycle that no files have (`falsecycle`). Seen while modelling
and stated in no run:

Runtime
- `IMOD` by zero and the smallest integer divided by -1 panic
  (`runtime/src/vm.rs:348`), where `docs/rfc-001-language-spec.md:272` has a
  runtime error;
- an unknown opcode is decoded as HALT (`runtime/src/vm.rs:74`) and neither
  opcodes nor indices are checked on loading, where `DESIGN.md:421` has "Invalid
  bytecode must never execute"; `AstraPipeline.ExecutesTheFile` states it.

Resolver
- of two modules of one name in different directories it loads one
  (`compiler/module/resolver.cpp:114`), where `compiler/module/resolver.h:17` has
  "relative to source file"; `AstraResolver.OwnModules` states it;
- a second call on one resolver returns the first one's order
  (`compiler/module/resolver.cpp:156`);
- a module named `__main__` is taken for the entry (`:114`, `:141`).

Analyzer: it accepts what the machine cannot run
- arithmetic and minus of floats, and comparisons of booleans, strings and
  floats, which the generator emits as integer instructions
  (`compiler/ir/codegen.cpp:261`): a type error at run time, where
  `docs/rfc-001-language-spec.md:272` has "Float division by zero produces
  infinity";
- calls without a result under `print`, `==` and (in a function without a result)
  `return`, where no value is on the stack;
- a function with a result that ends without `return`: its caller finds no value;
- a second declaration of a name in one scope, of which the analyzer takes the
  first and the generator the last;
- functions of a module under their bare names everywhere after it
  (`compiler/sema/sema.cpp:160`).

Optimizer and generator
- a bare call, inside a module, of a function without a result is followed by
  POP (`compiler/ir/codegen.cpp:151`) and underflows the stack;
- `if false { } else if ..` is rejected at -O1 and -O2
  (`compiler/opt/optimizer.cpp:72`), and folding the smallest integer divided by
  -1 kills the compiler;
- a bare call of a name two modules declare runs the one a hash table yields
  first (`compiler/ir/codegen.cpp:355`), whatever the analyzer took it for;
- casts are no-ops, the body of `for` is dropped, variables of modules are null.

Lexer and parser
- compound assignments lose their operator: `a += 1` is parsed as `a = 1`
  (`compiler/parser/parser.cpp:354`), where `docs/rfc-001-language-spec.md:142`
  lists four of them; `AstraFrontEnd.OperatorsKept` states it;
- a prefix operator binds tighter than a call, an index or a field: `-f(x)` is
  `(-f)(x)`, which the analyzer rejects (`compiler/parser/parser.cpp:372`), where
  `docs/rfc-001-language-spec.md:130` has `() [] .` highest; without the
  parentheses of `Bracketed`, `ReadsBack` fails on these trees;
- `1e`, `1e1` and `1e+` are floats (`lexer/lexer.c:113`), where
  `docs/rfc-001-language-spec.md:61` has a fraction, and a digit in an exponent;
  with `TypesOfLexeme` for `TypesTaken`, `TokensTile` fails on these texts;
- a block comment and a string that are not closed are accepted
  (`lexer/lexer.c:71`, `:127`); a string may have any escape, where
  `docs/rfc-001-language-spec.md:66` lists five, and line ends in it, and escapes
  are kept as they are written;
- nothing calls `lexer_peek`, and the step over a stuck token in `parse_module`
  is never taken.

## 7. What is not modelled

The disassembler: it reads a file once and prints it, keeps no state, and its
reader repeats the layout of `AstraBytecode` without checks. The diagnostics
(output only) and the library (programs). In the driver: `build`, `check` and
`disasm`, which are parts of `run` or print, and the parsing of the arguments.
Source places in the tree, `pub` and `async`, which nothing reads. The magnitude
of floats.

## 8. Plan

The order was: machine, certified machine, resolver, debugger, pipeline, the
compiler on top of the machine, then the analyzer and the front end; each with
its abstract specification or reference, its run and, where it is not recursive,
its proofs. Every safety property the runs check of the machine, the debugger,
the pipeline, the resolver and the lexer is a theorem, and so are the
refinements. What is left is the parser and the compiler: their operators as
recursive functions over a set of trees of bounded depth instead of RECURSIVE
operators, and `AstraInduction` for induction over that depth.
