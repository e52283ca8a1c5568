------------------------------- MODULE MCLexer ------------------------------
(***************************************************************************)
(* JsonLexer on all short texts over four small alphabets, beside the      *)
(* lexical grammar of Lexemes: for numbers, for words, for strings and for *)
(* the encodings of characters in strings, with the bytes at the bounds of *)
(* the well-formed ones.                                                   *)
(***************************************************************************)
EXTENDS JsonLexer, Lexemes

CONSTANTS
  TextLength,   \* bytes of a text, at most
  CodeLength    \* bytes in a string of the encodings, at most

Space == 32       LowerB == 98      LowerE == 101     LowerR == 114     LowerT == 116
LeadByte == 195   TailByte == 169

NumberBytes == {Space, Plus, Minus, Point, Zero, Zero + 1, LowerE, Comma}
StringBytes == {Quote, Backslash, LowerU, LowerB, Newline, Nul, LeadByte, TailByte}
WordBytes   == {LowerT, LowerR, LowerU, LowerE, Newline, Comma, Zero}
CodeBytes   == {193, 194, 224, 237, 240, 244, 128, 143, 144, 159, 160}

\* A text of the string alphabet opens a string at once, or on its second line;
\* one of the encodings is all inside a string.
MCSources ==
  BoundedSeq(NumberBytes, TextLength)
  \cup BoundedSeq(WordBytes, TextLength)
  \cup {<<Quote>> \o s : s \in BoundedSeq(StringBytes, TextLength)}
  \cup {<<Newline, Quote>> \o s : s \in BoundedSeq(StringBytes, TextLength - 1)}
  \cup {<<Quote>> \o s \o <<Quote>> : s \in BoundedSeq(CodeBytes, CodeLength)}

Texts ==
  TextsOf(NumberBytes, HexDigits, TextLength) \cup TextsOf(WordBytes, HexDigits, TextLength)
  \cup TextsOf(StringBytes, HexDigits, TextLength + 1)
  \cup TextsOf({Quote} \cup CodeBytes, HexDigits, CodeLength + 2)

EofOf(text) == [type |-> "EndOfFile", position |-> Len(text), start |-> Len(text), length |-> 0]

Sentences == {t.text : t \in Texts}
Meaning == {<<t.text, Append(t.tokens, EofOf(t.text))>> : t \in Texts}

\* tokenize() answers every text: with the one way to read it as lexemes with
\* white space between them and an EOF behind, each token covering its lexeme,
\* or with an exception when there is no such way.
Answer == INSTANCE TextPass WITH text <- source, outcome <- Outcome

ImplementsTextPass == Answer!Spec
=============================================================================
