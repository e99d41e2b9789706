---------------------------- MODULE AstraLexemes ----------------------------
(***************************************************************************)
(* What texts look like, said without the lexer: which sequences of        *)
(* characters are tokens, and which may stand between two tokens.  The     *)
(* lexemes are those of RFC 001, section 1 (TypesOfLexeme).  The lexer     *)
(* takes more: some floats without a fraction or an exponent's digits, and *)
(* strings with any escape.  They have names of their own here (IsNumber,  *)
(* IsQuoted), and TypesTaken says of which texts tokens are made.          *)
(***************************************************************************)
EXTENDS AstraLexer

IsWord(s) == At(s, 0) \in Letters /\ Chars(s) \subseteq Letters \cup Digits
AreDigits(s, i, j) == \A k \in i .. j - 1 : At(s, k) \in Digits
IsDigits(s) == s # <<>> /\ AreDigits(s, 0, Len(s))

(* [0-9]+ '.' [0-9]+ ([eE][+-]?[0-9]+)?                                     *)
ExponentDigits(s, j) == IF At(s, j + 1) \in {"+", "-"} THEN j + 2 ELSE j + 1
IsFloat(s) ==
    \E i \in {n \in 1 .. Len(s) : AreDigits(s, 0, n)} : \E j \in i + 2 .. Len(s) :
       /\ At(s, i) = "." /\ AreDigits(s, i + 1, j)
       /\ j # Len(s) => /\ At(s, j) \in {"e", "E"} /\ ExponentDigits(s, j) < Len(s)
                        /\ AreDigits(s, ExponentDigits(s, j), Len(s))

(* What the lexer takes for a number: the fraction may be missing before an *)
(* exponent, and the exponent's digits may be missing.                      *)
IsNumber(s) ==
    \E i \in {n \in 1 .. Len(s) : AreDigits(s, 0, n)} : \E j \in i .. Len(s) :
       /\ i # j => At(s, i) = "." /\ i + 2 <= j /\ AreDigits(s, i + 1, j)
       /\ j # Len(s) => /\ At(s, j) \in {"e", "E"}
                        /\ AreDigits(s, ExponentDigits(s, j), Len(s))

(* A quote that an odd number of backslashes precedes closes nothing.       *)
Escaped(s, p) ==
    \E k \in 1 .. p - 1 : /\ k % 2 = 1 /\ At(s, p - k - 1) # Backslash
                          /\ \A i \in p - k .. p - 1 : At(s, i) = Backslash
Quotes(s) == {p \in 1 .. Len(s) - 1 : At(s, p) = Quote /\ ~Escaped(s, p)}
IsQuoted(s) == At(s, 0) = Quote /\ Quotes(s) = {Len(s) - 1}
IsOpenString(s) == At(s, 0) = Quote /\ Quotes(s) = {}

(* A string has the listed escapes; the lexer takes a quoted text with any. *)
IsString(s) ==
    IsQuoted(s) /\ \A p \in 1 .. Len(s) - 2 : At(s, p) = Backslash /\ ~Escaped(s, p) =>
                      At(s, p + 1) \in {"n", "t", "r", Backslash, Quote}

TypesOfLexeme(s) ==
    {Lexicon[x] : x \in {s} \cap DOMAIN Lexicon}
      \cup {x \in {"ident"} : IsWord(s) /\ s \notin KeywordTexts}
      \cup {x \in {"int"} : IsDigits(s)}
      \cup {x \in {"float"} : IsFloat(s)}
      \cup {x \in {"string"} : IsString(s)}

TypesTaken(s) ==
    TypesOfLexeme(s) \cup {x \in {"float"} : IsNumber(s) /\ ~IsDigits(s)}
                     \cup {x \in {"string"} : IsQuoted(s)}

(* A comment that is not closed reaches to the end of the text.             *)
LineSign == <<"/", "/">>
BlockSign == <<"/", "*">>
Opens(s) == Slice(s, 0, 2)
LineEnds(s) == {p \in 0 .. Len(s) - 1 : At(s, p) = "\n"}
BlockEnds(s) == {p \in 2 .. Len(s) : Slice(s, p, p + 2) = <<"*", "/">>}
IsComment(s) ==
    \/ Opens(s) = LineSign /\ LineEnds(s) = {Len(s) - 1}
    \/ Opens(s) = BlockSign /\ BlockEnds(s) = {Len(s) - 2}
IsOpenComment(s) ==
    \/ Opens(s) = LineSign /\ LineEnds(s) = {}
    \/ Opens(s) = BlockSign /\ BlockEnds(s) = {}

(* What t has from p to q can be cut into blanks and comments, of which one *)
(* at the end of the text may be open.                                      *)
IsPiece(t, i, j) ==
    \/ j = i + 1 /\ At(t, i) \in Blanks
    \/ IsComment(Slice(t, i, j))
    \/ j = Len(t) /\ IsOpenComment(Slice(t, i, j))
IsGap(t, p, q) ==
    \E cuts \in SUBSET (p .. q) :
       /\ {p, q} \subseteq cuts
       /\ \A i \in cuts \ {q} : \E j \in cuts :
             i < j /\ IsPiece(t, i, j) /\ \A k \in cuts : k <= i \/ j <= k

(* The look-up table says of each word what it is: a keyword is a word, an  *)
(* operator is one or two characters of which the first is none of a word,  *)
(* a number or a string.                                                    *)
ASSUME LexiconAssumption ==
    /\ \A s \in KeywordTexts : IsWord(s)
    /\ \A s \in OperatorTexts :
          Len(s) \in {1, 2} /\ At(s, 0) \notin Letters \cup Digits \cup {Quote}
=============================================================================
