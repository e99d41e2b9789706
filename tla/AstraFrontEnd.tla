--------------------------- MODULE AstraFrontEnd ---------------------------
(***************************************************************************)
(* The compiler's front end: a source text becomes a list of tokens, and   *)
(* the tokens a list of items.  One step is one call of lexer_next or one  *)
(* item of the module.                                                     *)
(***************************************************************************)
EXTENDS AstraLexing, AstraParser, AstraGrammar

CONSTANT Inputs    \* texts, with the items they were written from, if any

VARIABLES
    meant,    \* the items the text was written from: a set of at most one
    pos,      \* pos_: the token the parser is at
    items,    \* the items so far
    phase     \* "lexing", "parsing", "parsed" or "rejected"

pvars == <<meant, pos, items, phase>>
fvars == <<lvars, pvars>>

FInit ==
    /\ \E i \in Inputs : text = i.text /\ meant = i.meant
    /\ lexer = NewLexer /\ tokens = <<>> /\ pos = 1 /\ items = <<>> /\ phase = "lexing"

(* lex_all: an unexpected character is reported, and ends the compiler only *)
(* when the whole text has been read.                                       *)
Lex ==
    /\ phase = "lexing" /\ NextToken
    /\ LET bad == \E i \in DOMAIN tokens' : tokens'[i].type = "error"
       IN  phase' = IF Lexing' THEN "lexing" ELSE IF bad THEN "rejected" ELSE "parsing"
    /\ UNCHANGED <<meant, pos, items>>

LexPeek == phase = "lexing" /\ Peek /\ UNCHANGED pvars

(* One turn of parse_module.  An item that took no token would make it drop *)
(* the token it is stuck at.                                                *)
ParseOne ==
    /\ phase = "parsing" /\ tokens[pos].type # "eof"
    /\ LET s == ParseItem(Start(tokens, pos))
       IN  IF s.ok
           THEN /\ items' = Append(items, s.out)
                /\ pos' = IF s.at = pos THEN pos + 1 ELSE s.at
                /\ UNCHANGED phase
           ELSE phase' = "rejected" /\ UNCHANGED <<items, pos>>
    /\ UNCHANGED <<lvars, meant>>

Finish ==
    /\ phase = "parsing" /\ tokens[pos].type = "eof" /\ phase' = "parsed"
    /\ UNCHANGED <<lvars, meant, pos, items>>

(* The verdict is the only place to stop.  Lexing ends, and every turn of   *)
(* the parser takes a token: without a deadlock there is a verdict.         *)
Stop == phase \in {"parsed", "rejected"} /\ UNCHANGED fvars

FNext == Lex \/ LexPeek \/ ParseOne \/ Finish \/ Stop

FSpec == FInit /\ [][FNext]_fvars

-----------------------------------------------------------------------------
(* A tree that is written down, with the parentheses its operators need and *)
(* no others, is read back as it was.  Not so when a prefix operator is     *)
(* written before a call, an index or a field without parentheses: the      *)
(* parser has it bind tighter, and the table puts () [] . highest.          *)
ReadsBack == phase \in {"parsed", "rejected"} => \A m \in meant : phase = "parsed" /\ items = m

(* What was read says all the text says: written down again it has the same *)
(* tokens, up to parentheses, commas, modifiers and the result type void.   *)
(* Not so of the operators += -= *= /=, which are all read as =.            *)
Words(toks) == [i \in DOMAIN toks |-> Word(toks[i].text)]
Silent == {"(", ")", ",", "pub", "async", "extern", "", "->", "void"}
Skeleton(texts) == SelectSeq(texts, LAMBDA x : x \notin Silent)
OperatorsKept == phase = "parsed" => Skeleton(Words(tokens)) = Skeleton(WriteAll(items))

(* The same, of every text without a compound assignment.  So no string     *)
(* that is not closed, and no character that starts no token, is ever taken *)
(* for a program: no tree is written with them.                             *)
Compound == {"+=", "-=", "*=", "/="}
NothingLost == {tokens[i].type : i \in DOMAIN tokens} \cap Compound = {} => OperatorsKept
=============================================================================
