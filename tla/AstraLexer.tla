----------------------------- MODULE AstraLexer -----------------------------
(***************************************************************************)
(* The lexer.  A text is a sequence of characters, which are strings of    *)
(* length one, numbered from 0; the lexer l is its position with line and  *)
(* column, and the token that was peeked at, if any.  The type of a        *)
(* keyword or an operator is its text.                                     *)
(***************************************************************************)
EXTENDS Integers, Sequences, FiniteSets

Spell(word) == [i \in 1 .. Len(word) |-> SubSeq(word, i, i)]
Slice(t, p, q) == SubSeq(t, p + 1, IF q < Len(t) THEN q ELSE Len(t))
At(t, p) == IF p < Len(t) THEN t[p + 1] ELSE ""
Chars(s) == {s[i] : i \in DOMAIN s}

Letters ==
    {"a", "b", "c", "d", "e", "f", "g", "h", "i", "j", "k", "l", "m", "n", "o", "p", "q", "r",
     "s", "t", "u", "v", "w", "x", "y", "z", "A", "B", "C", "D", "E", "F", "G", "H", "I", "J",
     "K", "L", "M", "N", "O", "P", "Q", "R", "S", "T", "U", "V", "W", "X", "Y", "Z", "_"}
Digits == {"0", "1", "2", "3", "4", "5", "6", "7", "8", "9"}
Blanks == {" ", "\t", "\r", "\n"}
Quote == "\""
Backslash == "\\"

PrimitiveWords ==
    {"i8", "i16", "i32", "i64", "u8", "u16", "u32", "u64", "f32", "f64", "bool", "str", "void"}
Keywords ==
    {"let", "mut", "fn", "return", "if", "else", "while", "for", "in", "struct", "mod", "use",
     "pub", "extern", "true", "false", "null", "as", "async", "await", "ptr"} \cup PrimitiveWords
Operators ==
    {"+", "-", "*", "/", "%", "&", "|", "^", "~", "!", "=", "<", ">", ".", ":",
     "+=", "->", "-=", "*=", "/=", "&&", "||", "!=", "==", "=>", "<=", "<<", ">=", ">>", "..",
     "::", ";", ",", "(", ")", "{", "}", "[", "]"}

(* The texts of keywords and operators, and which is whose.                 *)
KeywordTexts == {Spell(w) : w \in Keywords}
OperatorTexts == {Spell(w) : w \in Operators}
Lexicon ==
    [s \in KeywordTexts \cup OperatorTexts |->
        CHOOSE w \in Keywords \cup Operators : Spell(w) = s]

(* Where a loop ends: at the first hit from p on, or n; or where one turn,  *)
(* next, goes nowhere.                                                      *)
First(n, p, hits) ==
    CHOOSE q \in p .. n : (q = n \/ q \in hits) /\ \A r \in p .. q - 1 : r \notin hits
RunEnd(t, p, set) == First(Len(t), p, {q \in p .. Len(t) - 1 : At(t, q) \notin set})
Settle(next, p) ==
    LET end[q \in DOMAIN next] == IF next[q] = q THEN q ELSE end[next[q]]
    IN  end[p]

-----------------------------------------------------------------------------
(* skip_whitespace_and_comments: one turn of its loop, and where it ends.   *)
CloserAt(t, q) == Slice(t, q, q + 2) = <<"*", "/">>

(* Mutant: the star that opens a comment may also close it.                 *)
CommentEndOverlap(t, p) ==
    LET q == First(Len(t), p + 1, {r \in p + 1 .. Len(t) - 1 : CloserAt(t, r)})
    IN  IF q + 2 <= Len(t) THEN q + 2 ELSE Len(t)

CommentEnd(t, p) ==
    LET q == First(Len(t), p + 2, {r \in p + 2 .. Len(t) - 1 : CloserAt(t, r)})
    IN  IF q + 2 <= Len(t) THEN q + 2 ELSE Len(t)

Skip(t, p) ==
    IF At(t, p) \in Blanks THEN p + 1
    ELSE IF Slice(t, p, p + 2) = <<"/", "/">>
         THEN First(Len(t), p, {q \in p .. Len(t) - 1 : At(t, q) = "\n"})
    ELSE IF Slice(t, p, p + 2) = <<"/", "*">> THEN CommentEnd(t, p)
    ELSE p
SkipTo(t, p) == Settle([q \in 0 .. Len(t) |-> Skip(t, q)], p)

(* lex_number: where it ends.  An exponent needs no digits.                 *)
WholeEnd(t, p) == RunEnd(t, p, Digits)
NumberEnd(t, p) ==
    LET a == WholeEnd(t, p)
        b == IF At(t, a) = "." /\ At(t, a + 1) \in Digits THEN RunEnd(t, a + 1, Digits) ELSE a
        c == IF At(t, b + 1) \in {"+", "-"} THEN b + 2 ELSE b + 1
    IN  IF At(t, b) \in {"e", "E"} THEN RunEnd(t, c, Digits) ELSE b

(* lex_string: past the quote that closes it, or the end.                   *)
InString(t, p) ==
    IF p = Len(t) \/ At(t, p) = Quote THEN p
    ELSE IF At(t, p) = Backslash /\ p + 2 <= Len(t) THEN p + 2 ELSE p + 1
StringEnd(t, p) ==
    LET q == Settle([r \in 0 .. Len(t) |-> InString(t, r)], p)
    IN  IF q < Len(t) THEN q + 1 ELSE q

(* Where the token that starts at p ends, and its type.                     *)
(* Mutant: a character that starts no token is left where it is.            *)
TokenEndStuck(t, p) ==
    CASE At(t, p) \in Letters -> RunEnd(t, p, Letters \cup Digits)
      [] At(t, p) \in Digits -> NumberEnd(t, p)
      [] At(t, p) = Quote -> StringEnd(t, p + 1)
      [] OTHER ->
            IF p + 2 <= Len(t) /\ Slice(t, p, p + 2) \in OperatorTexts THEN p + 2
            ELSE IF Slice(t, p, p + 1) \in OperatorTexts THEN p + 1 ELSE p

TokenEnd(t, p) ==
    CASE At(t, p) \in Letters -> RunEnd(t, p, Letters \cup Digits)
      [] At(t, p) \in Digits -> NumberEnd(t, p)
      [] At(t, p) = Quote -> StringEnd(t, p + 1)
      [] OTHER ->
            IF p + 2 <= Len(t) /\ Slice(t, p, p + 2) \in OperatorTexts THEN p + 2
            ELSE IF p < Len(t) THEN p + 1 ELSE p

TypeOfToken(t, p, q) ==
    LET s == Slice(t, p, q)
    IN  CASE p = Len(t) -> "eof"
          [] s \in DOMAIN Lexicon -> Lexicon[s]
          [] At(t, p) \in Letters /\ s \notin DOMAIN Lexicon -> "ident"
          [] At(t, p) \in Digits -> IF q = WholeEnd(t, p) THEN "int" ELSE "float"
          [] At(t, p) = Quote -> "string"
          [] OTHER -> "error"

-----------------------------------------------------------------------------
(* advance(), as often as it takes to get to q.                             *)
NewLexer == [pos |-> 0, line |-> 1, col |-> 1, peeked |-> {}]

(* Mutant: a line does not start at its first column.                       *)
MoveSameColumn(l, t, q) ==
    [l EXCEPT !.pos = q, !.col = @ + q - l.pos,
              !.line = @ + Cardinality({p \in l.pos .. q - 1 : At(t, p) = "\n"})]
Move(l, t, q) ==
    LET newlines == {p \in l.pos .. q - 1 : At(t, p) = "\n"}
        last == CHOOSE p \in newlines : \A r \in newlines : r <= p
    IN  [l EXCEPT !.pos = q, !.line = @ + Cardinality(newlines),
                  !.col = IF newlines = {} THEN @ + q - l.pos ELSE q - last]

(* lex_one: the lexer after the token, and the token.                       *)
LexOne(l, t) ==
    LET at == Move(l, t, SkipTo(t, l.pos))
        q == TokenEnd(t, at.pos)
    IN  [lexer |-> Move(at, t, q),
         token |-> [type |-> TypeOfToken(t, at.pos, q), text |-> Slice(t, at.pos, q),
                    start |-> at.pos, line |-> at.line, col |-> at.col]]

(* lexer_next and lexer_peek.                                               *)
LexerNext(l, t) ==
    IF l.peeked = {} THEN LexOne(l, t)
    ELSE [lexer |-> [l EXCEPT !.peeked = {}], token |-> CHOOSE k \in l.peeked : TRUE]
LexerPeek(l, t) ==
    IF l.peeked = {} THEN [LexOne(l, t).lexer EXCEPT !.peeked = {LexOne(l, t).token}] ELSE l
=============================================================================
