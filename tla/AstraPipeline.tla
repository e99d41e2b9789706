--------------------------- MODULE AstraPipeline ---------------------------
(***************************************************************************)
(* "astrac run": compile, write the bytecode to one fixed file, start the  *)
(* runtime on it, pass on its exit status.  Several users may do so, one   *)
(* after the other or at a time; each may be interrupted, and the disk may *)
(* be full.  A user may also start the runtime on the file as it is.       *)
(***************************************************************************)
EXTENDS AstraBytecode, FiniteSets

CONSTANTS
    User,        \* each runs one command
    Compiled,    \* the modules their sources compile to
    NoModule,    \* what a user who only starts the runtime has compiled
    Leftovers,   \* the contents the file may have before all this
    FlushSize,   \* words stdio writes at a time
    ReadSize,    \* words BufReader reads at a time
    Together     \* how many commands run at a time

ASSUME PipelineAssumption ==
    /\ Compiled \subseteq File /\ NoModule \notin Compiled
    /\ \A m \in Compiled : Image(m) \in Seq(Nat)
    /\ IsFiniteSet(User)
    /\ Leftovers \subseteq Seq(Nat)
    /\ FlushSize \in Nat \ {0} /\ ReadSize \in Nat \ {0} /\ Together \in Nat

VARIABLES
    file,    \* /tmp/astra_run.asc
    pc,      \* what each user's command is doing
    prog,    \* the module it compiled
    pos,     \* how much of it has left stdio's buffer
    reader,  \* the loader of the runtime it started
    at,      \* how much of the file BufReader has read for it
    buffer,  \* what of that the loader has not used yet
    exit     \* its last command's exit status, -1 while there is none

vars == <<file, pc, prog, pos, reader, at, buffer, exit>>

Busy == {"writing", "loading", "running"}
Interrupted == 130
NotStarted == 127

(* What write_module hands to stdio. *)
Output == [m \in Compiled \cup {NoModule} |-> IF m = NoModule THEN <<>> ELSE Image(m)]

TypeOK ==
    /\ file \in Seq(Nat)
    /\ pc \in [User -> {"idle"} \cup Busy]
    /\ prog \in [User -> Compiled \cup {NoModule}]
    /\ \A u \in User : pos[u] \in 0 .. Len(Output[prog[u]])
    /\ reader \in [User -> Reader]
    /\ at \in [User -> Nat]
    /\ buffer \in [User -> Seq(Nat)]
    /\ exit \in [User -> {-1, 0, 1, Interrupted, NotStarted}]

Init ==
    /\ file \in Leftovers
    /\ pc = [u \in User |-> "idle"]
    /\ prog = [u \in User |-> NoModule]
    /\ pos = [u \in User |-> 0]
    /\ reader = [u \in User |-> NewReader]
    /\ at = [u \in User |-> 0]
    /\ buffer = [u \in User |-> <<>>]
    /\ exit = [u \in User |-> -1]

Free == Cardinality({u \in User : pc[u] \in Busy}) < Together

(* The processes are gone; only the file and the status stay behind.        *)
End(u, status) ==
    /\ pc' = [pc EXCEPT ![u] = "idle"]
    /\ prog' = [prog EXCEPT ![u] = NoModule]
    /\ pos' = [pos EXCEPT ![u] = 0]
    /\ reader' = [reader EXCEPT ![u] = NewReader]
    /\ at' = [at EXCEPT ![u] = 0]
    /\ buffer' = [buffer EXCEPT ![u] = <<>>]
    /\ exit' = [exit EXCEPT ![u] = status]
    /\ UNCHANGED file

Begin(u, stage) ==
    /\ pc[u] = "idle" /\ Free
    /\ pc' = [pc EXCEPT ![u] = stage]
    /\ exit' = [exit EXCEPT ![u] = -1]

-----------------------------------------------------------------------------
(* The compiler's side: cmd_run and write_module. *)

(* Mutant: the file is opened without truncating it.                        *)
OpenKeeping(u, m) ==
    /\ Begin(u, "writing")
    /\ prog' = [prog EXCEPT ![u] = m]
    /\ UNCHANGED <<file, pos, reader, at, buffer>>

Open(u, m) ==
    /\ Begin(u, "writing")
    /\ prog' = [prog EXCEPT ![u] = m]
    /\ file' = <<>>
    /\ UNCHANGED <<pos, reader, at, buffer>>

CannotOpen(u) == pc[u] = "idle" /\ Free /\ End(u, 1)

(* Writing past the end leaves a hole of zeros.                             *)
Overlay(f, start, words) ==
    LET end == start + Len(words)
    IN  [i \in 1 .. (IF end > Len(f) THEN end ELSE Len(f)) |->
            IF i > start /\ i <= end THEN words[i - start]
            ELSE IF i <= Len(f) THEN f[i] ELSE 0]

Rest(u) == Len(Output[prog[u]]) - pos[u]
Chunk == 1 .. FlushSize

(* Mutant: a last chunk as long as the others.                              *)
FlushWhole(u) ==
    /\ pc[u] = "writing" /\ Rest(u) > 0
    /\ file' = Overlay(file, pos[u], SubSeq(Output[prog[u]], pos[u] + 1, Len(Output[prog[u]])))
    /\ pos' = [pos EXCEPT ![u] = @ + FlushSize]
    /\ UNCHANGED <<pc, prog, reader, at, buffer, exit>>

(* Mutant: every chunk goes to the start of the file.                       *)
FlushFromStart(u) ==
    LET n == IF Rest(u) < FlushSize THEN Rest(u) ELSE FlushSize
    IN  /\ pc[u] = "writing" /\ n > 0
        /\ file' = Overlay(file, 0, SubSeq(Output[prog[u]], pos[u] + 1, pos[u] + n))
        /\ pos' = [pos EXCEPT ![u] = @ + n]
        /\ UNCHANGED <<pc, prog, reader, at, buffer, exit>>

Flush(u) ==
    LET n == IF Rest(u) < FlushSize THEN Rest(u) ELSE FlushSize
    IN  /\ pc[u] = "writing" /\ n > 0
        /\ file' = Overlay(file, pos[u], SubSeq(Output[prog[u]], pos[u] + 1, pos[u] + n))
        /\ pos' = [pos EXCEPT ![u] = @ + n]
        /\ UNCHANGED <<pc, prog, reader, at, buffer, exit>>

(* The disk is full, and stays so until the command ends: part of a chunk   *)
(* is written, all the rest is lost, and nobody looks at fwrite's and       *)
(* fclose's results.                                                        *)
LoseRest(u, n) ==
    /\ pc[u] = "writing" /\ n < Rest(u)
    /\ file' = Overlay(file, pos[u], SubSeq(Output[prog[u]], pos[u] + 1, pos[u] + n))
    /\ pos' = [pos EXCEPT ![u] = Len(Output[prog[u]])]
    /\ UNCHANGED <<pc, prog, reader, at, buffer, exit>>

-----------------------------------------------------------------------------
(* run_program and the runtime's main. *)

(* By the compiler, or by the user, on the file as it is.                   *)
StartRuntime(u) ==
    /\ pc[u] = "writing" /\ Rest(u) = 0
    /\ pc' = [pc EXCEPT ![u] = "loading"]
    /\ UNCHANGED <<file, prog, pos, reader, at, buffer, exit>>
RunFile(u) == Begin(u, "loading") /\ UNCHANGED <<file, prog, pos, reader, at, buffer>>

NoRuntime(u) == pc[u] = "writing" /\ Rest(u) = 0 /\ End(u, NotStarted)

(* Mutants: a loader that takes a missing entry index for 0, and one that   *)
(* waits at the end of the file for more.                                   *)
AtEndLenient(r) == Want(r, IF r.want = "entry" THEN "module" ELSE "error")
AtEndPatient(r) == r

AtEnd(r) == Want(r, "error")       \* read_exact: UnexpectedEof

Fill(u) ==
    LET end == IF at[u] + ReadSize < Len(file) THEN at[u] + ReadSize ELSE Len(file)
        words == SubSeq(file, at[u] + 1, end)
    IN  /\ pc[u] = "loading" /\ Reading(reader[u]) /\ buffer[u] = <<>>
        /\ buffer' = [buffer EXCEPT ![u] = words]
        /\ at' = [at EXCEPT ![u] = @ + Len(words)]
        /\ reader' = IF words = <<>> THEN [reader EXCEPT ![u] = AtEnd(@)] ELSE reader
        /\ UNCHANGED <<file, pc, prog, pos, exit>>

Take(u) ==
    /\ pc[u] = "loading" /\ Reading(reader[u]) /\ buffer[u] # <<>>
    /\ reader' = [reader EXCEPT ![u] = Feed(@, Head(buffer[u]))]
    /\ buffer' = [buffer EXCEPT ![u] = Tail(@)]
    /\ UNCHANGED <<file, pc, prog, pos, at, exit>>

Accept(u) ==
    /\ pc[u] = "loading" /\ reader[u].want = "module"
    /\ pc' = [pc EXCEPT ![u] = "running"]
    /\ UNCHANGED <<file, prog, pos, reader, at, buffer, exit>>
Reject(u) == pc[u] = "loading" /\ reader[u].want = "error" /\ End(u, 1)

(* The machine has run: see AstraVM.  The compiler passes its status on.    *)
Return(u) == pc[u] = "running" /\ \E status \in {0, 1} : End(u, status)

(* Ctrl-C ends compiler and runtime together, between any two writes.       *)
Interrupt(u) == pc[u] \in Busy /\ End(u, Interrupted)

Work(u) == Flush(u) \/ StartRuntime(u) \/ Fill(u) \/ Take(u) \/ Accept(u) \/ Reject(u)

Next == \E u \in User :
    \/ Work(u) \/ CannotOpen(u) \/ NoRuntime(u) \/ RunFile(u) \/ Return(u) \/ Interrupt(u)
    \/ \E m \in Compiled : Open(u, m)
    \/ \E n \in 0 .. FlushSize - 1 : LoseRest(u, n)

Spec == Init /\ [][Next]_vars

(* A started command is scheduled; a program may run for ever.              *)
FairSpec == Spec /\ \A u \in User : WF_vars(Work(u))

-----------------------------------------------------------------------------
(* What a user runs is what the user's source compiled to, whatever was     *)
(* interrupted, cut short or lost before or meanwhile.  It holds of         *)
(* commands one after the other; README.md:124 says "Compile and run        *)
(* immediately" without that condition.                                     *)
RunsOwnProgram ==
    \A u \in User :
        pc[u] = "running" => prog[u] \in {reader[u].got, NoModule}

(* One command at a time finds in the file nothing but the beginning of its *)
(* own program: fopen has truncated what an earlier one left, and what the  *)
(* disk has no room for leaves no hole.                                     *)
FileIsOwnPrefix ==
    \A u \in User : prog[u] # NoModule => IsPrefix(file, Output[prog[u]])

(* A file cut short at any place is never taken for a program: what runs    *)
(* was compiled as a whole.                                                 *)
OnlyWholePrograms ==
    \A u \in User : pc[u] = "running" => reader[u].got \in Compiled

(* The words of a file f that are the image's of m, as far as both go.  The *)
(* loader keeps none of the first three.                                    *)
Says(f, m) == \A i \in 4 .. Len(f) : i <= Len(Image(m)) => f[i] = Image(m)[i]

(* What OnlyWholePrograms asks of the file's former contents: they do not   *)
(* contradict every program there is.  They may have another version, lack  *)
(* their end or have something behind it.                                   *)
LeftoversKnown == \A f \in Leftovers : \E m \in Compiled : Says(f, m)

(* Every command gets as far as the program's first instruction or ends:    *)
(* the loader waits for nothing.                                            *)
CommandsGetThere ==
    \A u \in User : pc[u] = "writing" ~> pc[u] \in {"running", "idle"}

(* DESIGN.md 6.3: "opcode validity checked ... Invalid bytecode must never  *)
(* execute."  What runs says what the file says.                            *)
ExecutesTheFile ==
    \A u \in User : pc[u] = "running" => Body(reader[u].got) = SubSeq(file, 4, Len(file))
=============================================================================
