---------------------------- MODULE AstraLexing ----------------------------
(***************************************************************************)
(* The lexer at work on any text: one step is one call of lexer_next or    *)
(* of lexer_peek.                                                          *)
(***************************************************************************)
EXTENDS AstraLexemes, FiniteSetsExt

VARIABLES
    text,     \* the source file
    lexer,    \* the lexer
    tokens    \* toks: the tokens so far

lvars == <<text, lexer, tokens>>

Lexing == \A i \in DOMAIN tokens : tokens[i].type # "eof"

LInit == text \in Seq(STRING) /\ lexer = NewLexer /\ tokens = <<>>

(* One turn of lex_all.                                                     *)
NextToken ==
    /\ Lexing
    /\ LET r == LexerNext(lexer, text)
       IN  lexer' = r.lexer /\ tokens' = Append(tokens, r.token)
    /\ UNCHANGED text

(* lexer_peek, which lex_all does not call: the lexer allows it at any time. *)
Peek ==
    /\ Lexing /\ lexer.peeked = {}
    /\ lexer' = LexerPeek(lexer, text)
    /\ UNCHANGED <<text, tokens>>

LNext == NextToken \/ Peek

LSpec == LInit /\ [][LNext]_lvars

-----------------------------------------------------------------------------
(* The token list covers the text: each token is a longest one where it     *)
(* starts, has the type of its text, and follows the one before it with     *)
(* nothing but blanks and comments between them; a string that is not       *)
(* closed, or a character that starts no token, is a token too.  What is a  *)
(* token is said by TypesTaken: RFC 001 and the looser floats and strings.  *)
EndOf(k) == k.start + Len(k.text)
Rest(k) == Slice(text, k.start, Len(text))
LongestAt(k) == \A q \in EndOf(k) + 1 .. Len(text) : TypesTaken(Slice(text, k.start, q)) = {}

IsToken(k) ==
    CASE k.type = "eof" -> k.start = Len(text)
      [] k.type = "error" -> Len(k.text) = 1 /\ LongestAt(k) /\ TypesTaken(k.text) = {}
      [] k.type \notin {"eof", "error"} ->
            \/ /\ k.type \in TypesTaken(k.text) /\ LongestAt(k)
               /\ Opens(Rest(k)) \notin {LineSign, BlockSign}
            \/ k.type = "string" /\ k.text = Rest(k) /\ IsOpenString(Rest(k))

ReadTo(toks) == IF toks = <<>> THEN 0 ELSE EndOf(toks[Len(toks)])

TokensTile ==
    tokens # <<>> =>
        LET k == tokens[Len(tokens)]
            from == ReadTo(SubSeq(tokens, 1, Len(tokens) - 1))
        IN  k.text = Slice(text, k.start, EndOf(k)) /\ IsToken(k) /\ IsGap(text, from, k.start)

(* Reading comes to an end: every token but the last takes a character.     *)
LexingEnds == Lexing => Len(tokens) <= Len(text)

(* A diagnostic points where its token is: the line is the number of line   *)
(* ends before it, comments and strings included, and the column counts     *)
(* from the last of them; a token peeked at is no exception.                *)
PositionsRight ==
    tokens # <<>> =>
        LET k == tokens[Len(tokens)]
            ends == {p \in 0 .. k.start - 1 : At(text, p) = "\n"}
        IN  k.line = 1 + Cardinality(ends) /\ k.col = k.start - Max(ends \cup {-1})
=============================================================================
