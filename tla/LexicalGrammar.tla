--------------------------- MODULE LexicalGrammar ---------------------------
(***************************************************************************)
(* The lexical grammar of JSON as predicates on ranges of a text, and what *)
(* it is to read a text as tokens.  A position counts from 0; the range    *)
(* from a to b is the bytes s[a + 1] to s[b].  Nothing here reads a text   *)
(* from left to right, and a text may be of any length.                    *)
(***************************************************************************)
EXTENDS Utf8

CONSTANT HexDigits  \* digits of a \u escape: 4

Digit == 48..57
Letters == (65..90) \cup (97..122)
HexLetters == (65..70) \cup (97..102)
Blank == {9, 10, 13, 32}

\* White space, perhaps none, from a to b.
IsBlank(s, a, b) == a <= b /\ \A p \in (a + 1)..b : s[p] \in Blank

IsDigits(s, a, b) == a < b /\ \A p \in (a + 1)..b : s[p] \in Digit
IsInteger(s, a, b) == IsDigits(s, a, b) /\ (s[a + 1] = 48 => b = a + 1)
IsFraction(s, a, b) == a = b \/ (a < b /\ s[a + 1] = 46 /\ IsDigits(s, a + 1, b))
IsPower(s, a, b) ==
  \/ a = b
  \/ /\ a + 1 < b /\ s[a + 1] \in {69, 101}
     /\ \/ IsDigits(s, a + 1, b)
        \/ s[a + 2] \in {43, 45} /\ IsDigits(s, a + 2, b)

\* A number from a to b: its integer from i to f, its fraction to e.
IsSign(s, a, i) == i = a \/ (i = a + 1 /\ s[i] = 45)
NumberCut(s, a, i, f, e, b) ==
  IsSign(s, a, i) /\ IsInteger(s, i, f) /\ IsFraction(s, f, e) /\ IsPower(s, e, b)

\* A number is not cut short before a digit, nor a word before a letter.
IsNumber(s, a, b) ==
  /\ \E i, f, e \in a..b : NumberCut(s, a, i, f, e, b)
  /\ b < Len(s) => s[b + 1] \notin Digit

\* What the inside of a string is cut into: bytes and escapes.
IsByte(s, p, q) == q = p + 1 /\ s[q] \in (32..255) \ {34, 92}
IsSimpleEscape(s, p, q) ==
  q = p + 2 /\ s[p + 1] = 92 /\ s[q] \in {34, 47, 92, 98, 102, 110, 114, 116}
IsUnicodeEscape(s, p, q) ==
  /\ q = p + 2 + HexDigits /\ s[p + 1] = 92 /\ s[p + 2] = 117
  /\ \A h \in (p + 3)..q : s[h] \in Digit \cup HexLetters
IsPiece(s, p, q) == IsByte(s, p, q) \/ IsSimpleEscape(s, p, q) \/ IsUnicodeEscape(s, p, q)

\* The cuts are the ends of the pieces from a to b.
IsCut(s, a, b, cuts) ==
  /\ a \in cuts /\ b \in cuts
  /\ \A p \in cuts \ {b} : \E q \in cuts : p < q /\ IsPiece(s, p, q)

IsString(s, a, b) ==
  /\ a + 2 <= b /\ s[a + 1] = 34 /\ s[b] = 34
  /\ \E cuts \in SUBSET ((a + 1)..(b - 1)) : IsCut(s, a + 1, b - 1, cuts)
  /\ isValidUtf8(SubSeq(s, a + 2, b - 1))

PunctuatorBytes ==
  [LeftBrace |-> 123, RightBrace |-> 125, LeftBracket |-> 91, RightBracket |-> 93,
   Colon |-> 58, Comma |-> 44]
WordBytesOf ==
  [True |-> <<116, 114, 117, 101>>, False |-> <<102, 97, 108, 115, 101>>,
   Null |-> <<110, 117, 108, 108>>]

IsPunctuator(type, s, a, b) ==
  type \in DOMAIN PunctuatorBytes /\ b = a + 1 /\ s[b] = PunctuatorBytes[type]

IsWord(type, s, a, b) ==
  /\ type \in DOMAIN WordBytesOf /\ SubSeq(s, a + 1, b) = WordBytesOf[type]
  /\ b < Len(s) => s[b + 1] \notin Letters

\* A token covers its lexeme, a string's without the quotes.
Skip(type) == IF type = "String" THEN 1 ELSE 0
EndOf(t) == t.start + t.length + Skip(t.type)

IsLexeme(s, t) ==
  LET a == t.position
      b == EndOf(t)
  IN  /\ t.start = a + Skip(t.type)
      /\ \/ IsPunctuator(t.type, s, a, b)
         \/ t.type = "Number" /\ IsNumber(s, a, b)
         \/ t.type = "String" /\ IsString(s, a, b)
         \/ IsWord(t.type, s, a, b)

\* Up to n the text is the lexemes of the tokens ts, with white space between.
EndBefore(ts, k) == IF k = 1 THEN 0 ELSE EndOf(ts[k - 1])
Reads(s, ts, n) ==
  /\ \A k \in 1..Len(ts) :
       /\ EndOf(ts[k]) <= n
       /\ IsBlank(s, EndBefore(ts, k), ts[k].position)
       /\ IsLexeme(s, ts[k])
  /\ IsBlank(s, EndBefore(ts, Len(ts) + 1), n)
=============================================================================
