------------------------------ MODULE JsonLexer -----------------------------
(***************************************************************************)
(* JsonLexer: one pass over the bytes of the source that turns them into   *)
(* tokens, each with its place in the source, one character to a step.     *)
(* pc says where tokenize() and the functions it calls stand:              *)
(*   "next"      at the head of its loop                                   *)
(*   "string"    in string()'s loop       "escape"  behind a backslash     *)
(*   "hex"       in parseUnicodeEscape()                                   *)
(*   "integer"   number(), its sign read  "zero", "digits"  in its integer *)
(*   "point"     behind the point         "fraction"  in the fraction      *)
(*   "exponent"  behind the e             "sign"  behind the e's sign      *)
(*   "power"     in the exponent          "keyword"  in keyword()          *)
(*   "done", "failed"   tokenize() returned, or threw                      *)
(* A position counts from 0, as in the code; lines and columns from 1.     *)
(***************************************************************************)
EXTENDS LexicalGrammar, Diagnostics, FiniteSets

CONSTANT
  Sources     \* the texts the lexer is run on, sequences of bytes

ASSUME LexerAssumption ==
  /\ HexDigits \in Nat \ {0}
  /\ Sources \subseteq Seq(0..255)

VARIABLES
  source, position, line, column,
  token,     \* tokenPosition, tokenLine and tokenColumn
  start,     \* local start of string(), number() and keyword()
  hexLeft,   \* digits of the escape still to come
  tokens, pc,
  error      \* what was thrown, and the line and column it carries

vars == <<source, position, line, column, token, start, hexLeft, tokens, pc, error>>

-----------------------------------------------------------------------------
Nul == 0         Newline == 10    Quote == 34      Comma == 44      Backslash == 92
Plus == 43       Minus == 45      Point == 46      Zero == 48       LowerU == 117

White == {32, 9, 10, 13}
isDigit(c) == c \in 48..57
isAlpha(c) == c \in (97..122) \cup (65..90)
isHex(c) == isDigit(c) \/ c \in (97..102) \cup (65..70)
isExponent(c) == c \in {101, 69}
Control == 0..31

\* The characters that are tokens, and those that may follow a backslash.
Punctuation ==
  [c \in {123, 125, 91, 93, 58, 44} |->
     CASE c = 123 -> "LeftBrace" [] c = 125 -> "RightBrace" [] c = 91 -> "LeftBracket"
       [] c = 93 -> "RightBracket" [] c = 58 -> "Colon" [] c = 44 -> "Comma"]
SimpleEscapes == {110, 116, 34, 92, 114, 98, 102, 47}

Keywords ==
  LET true  == <<116, 114, 117, 101>>
      false == <<102, 97, 108, 115, 101>>
      null  == <<110, 117, 108, 108>>
  IN  [word \in {true, false, null} |->
         CASE word = true -> "True" [] word = false -> "False" [] word = null -> "Null"]

NoError == [why |-> "none", line |-> 0, column |-> 0]

Init ==
  /\ source \in Sources
  /\ position = 0 /\ line = 1 /\ column = 1
  /\ token = [position |-> 0, line |-> 1, column |-> 1]
  /\ start = 0
  /\ hexLeft = 0
  /\ tokens = <<>>
  /\ pc = "next"
  /\ error = NoError

isAtEnd == position >= Len(source)

\* '\0' at the end, and also for a zero byte before the end.
Peek == IF isAtEnd THEN Nul ELSE source[position + 1]
-----------------------------------------------------------------------------
\* Where the lexer is after advance(): a newline starts a line.
NextLine == IF Peek = Newline THEN line + 1 ELSE line

\* A mutant of the next: a newline is a character like any other.
OneColumnOn == column + 1

NextColumn == IF Peek = Newline THEN 1 ELSE column + 1

advance ==
  /\ position' = position + 1
  /\ line' = NextLine
  /\ column' = NextColumn

stay == UNCHANGED <<position, line, column>>

\* One character is consumed, or none, on the way to the control point to.
Consume(to) ==
  /\ advance
  /\ pc' = to
  /\ UNCHANGED <<source, token, start, hexLeft, tokens, error>>

Fail(why, l, c) ==
  /\ pc' = "failed"
  /\ error' = [why |-> why, line |-> l, column |-> c]
  /\ UNCHANGED <<source, token, start, hexLeft, tokens>>

\* The exception carries the place of the character it is about ...
FailHere(why) == stay /\ Fail(why, line, column)

\* ... or of the one behind the character it is about.
FailAfter(why) == advance /\ Fail(why, NextLine, NextColumn)

makeToken(type, at, first, length) ==
  [type |-> type, position |-> at.position, line |-> at.line, column |-> at.column,
   start |-> first, length |-> length]

\* A token is appended and tokenize() goes on with its loop.
Push(t) ==
  /\ tokens' = Append(tokens, t)
  /\ pc' = "next"
  /\ UNCHANGED <<source, start, hexLeft, error>>

Here == [position |-> position, line |-> line, column |-> column]

(***************************************************************************)
(* tokenize().                                                             *)
(***************************************************************************)
skipWhitespace ==
  /\ pc = "next"
  /\ Peek \in White
  /\ Consume("next")

Punctuate ==
  /\ pc = "next"
  /\ ~isAtEnd
  /\ Peek \in DOMAIN Punctuation
  /\ advance
  /\ token' = Here
  /\ Push(makeToken(Punctuation[Peek], Here, position, 1))

\* string(), number() and keyword() are entered with the token's place saved.
Begin(to, first) ==
  /\ token' = Here
  /\ start' = first
  /\ pc' = to
  /\ UNCHANGED <<source, hexLeft, tokens, error>>

BeginString ==
  /\ pc = "next"
  /\ Peek = Quote
  /\ advance
  /\ Begin("string", position + 1)

BeginNumber ==
  /\ pc = "next"
  /\ isDigit(Peek) \/ Peek = Minus
  /\ IF Peek = Minus THEN advance ELSE stay
  /\ Begin("integer", position)

BeginKeyword ==
  /\ pc = "next"
  /\ isAlpha(Peek)
  /\ stay
  /\ Begin("keyword", position)

Recognised == White \cup DOMAIN Punctuation \cup {Quote, Minus}

Unexpected ==
  /\ pc = "next"
  /\ ~isAtEnd
  /\ Peek \notin Recognised /\ ~isDigit(Peek) /\ ~isAlpha(Peek)
  /\ stay
  /\ pc' = "failed"
  /\ token' = Here
  /\ error' = [why |-> "character", line |-> line, column |-> column]
  /\ UNCHANGED <<source, start, hexLeft, tokens>>

PushEof ==
  /\ pc = "next"
  /\ isAtEnd
  /\ token' = Here
  /\ tokens' = Append(tokens, makeToken("EndOfFile", Here, position, 0))
  /\ pc' = "done"
  /\ stay
  /\ UNCHANGED <<source, start, hexLeft, error>>

(***************************************************************************)
(* string() and parseUnicodeEscape().                                      *)
(***************************************************************************)
StringByte ==
  /\ pc = "string"
  /\ ~isAtEnd
  /\ Peek \notin Control \cup {Quote, Backslash}
  /\ Consume("string")

\* A mutant of the next: the '\0' that stands for the end is taken for a character.
ControlOrEnd ==
  /\ pc = "string"
  /\ Peek \in Control
  /\ advance
  /\ Fail("control", line, column)

\* A control character is consumed, but reported where it stands.
StringControl ==
  /\ pc = "string"
  /\ ~isAtEnd
  /\ Peek \in Control
  /\ advance
  /\ Fail("control", line, column)

BeginEscape ==
  /\ pc = "string"
  /\ Peek = Backslash
  /\ Consume("escape")

SimpleEscape ==
  /\ pc = "escape"
  /\ Peek \in SimpleEscapes
  /\ Consume("string")

UnicodeEscape ==
  /\ pc = "escape"
  /\ Peek = LowerU
  /\ advance
  /\ hexLeft' = HexDigits
  /\ pc' = "hex"
  /\ UNCHANGED <<source, token, start, tokens, error>>

BadEscape ==
  /\ pc = "escape"
  /\ \/ isAtEnd /\ FailHere("unterminated")
     \/ ~isAtEnd /\ Peek \notin SimpleEscapes \cup {LowerU} /\ FailAfter("escape")

HexDigit ==
  /\ pc = "hex"
  /\ isHex(Peek)
  /\ advance
  /\ hexLeft' = hexLeft - 1
  /\ pc' = IF hexLeft = 1 THEN "string" ELSE "hex"
  /\ UNCHANGED <<source, token, start, tokens, error>>

BadHexDigit ==
  /\ pc = "hex"
  /\ ~isHex(Peek)
  /\ FailHere("unicode escape")

Unterminated ==
  /\ pc = "string"
  /\ isAtEnd
  /\ FailHere("unterminated")

\* The bytes of the source from position first on.
Bytes(first, length) == SubSeq(source, first + 1, first + length)

CloseString ==
  /\ pc = "string"
  /\ Peek = Quote
  /\ advance
  /\ LET length == position - start
     IN  \/ /\ isValidUtf8(Bytes(start, length))
            /\ Push(makeToken("String", token, start, length))
            /\ UNCHANGED token
         \/ /\ ~isValidUtf8(Bytes(start, length))
            /\ Fail("UTF-8", token.line, token.column)

(***************************************************************************)
(* number().                                                               *)
(***************************************************************************)
\* A mutant of the next: a zero may lead an integer.
AnyIntegerDigit ==
  /\ pc = "integer"
  /\ isDigit(Peek)
  /\ Consume("digits")

IntegerDigit ==
  /\ pc = "integer"
  /\ isDigit(Peek)
  /\ Consume(IF Peek = Zero THEN "zero" ELSE "digits")

NoInteger ==
  /\ pc = "integer"
  /\ ~isDigit(Peek)
  /\ FailHere("number")

LeadingZero ==
  /\ pc = "zero"
  /\ isDigit(Peek)
  /\ FailHere("leading zero")

\* The digits of the integer, of the fraction and of the exponent.
MoreDigits ==
  /\ pc \in {"digits", "fraction", "power"}
  /\ isDigit(Peek)
  /\ Consume(pc)

Fraction ==
  /\ pc \in {"zero", "digits"}
  /\ Peek = Point
  /\ Consume("point")

FractionDigit ==
  /\ pc = "point"
  /\ \/ isDigit(Peek) /\ Consume("fraction")
     \/ ~isDigit(Peek) /\ FailHere("fraction")

Exponent ==
  /\ pc \in {"zero", "digits", "fraction"}
  /\ isExponent(Peek)
  /\ Consume("exponent")

ExponentSign ==
  /\ pc = "exponent"
  /\ Peek \in {Plus, Minus}
  /\ Consume("sign")

ExponentDigit ==
  /\ \/ pc = "exponent" /\ Peek \notin {Plus, Minus}
     \/ pc = "sign"
  /\ \/ isDigit(Peek) /\ Consume("power")
     \/ ~isDigit(Peek) /\ FailHere("exponent")

\* The number ends at the first character that cannot go on with it.
NumberGoesOn ==
  \/ isDigit(Peek)
  \/ pc # "power" /\ isExponent(Peek)
  \/ pc \in {"zero", "digits"} /\ Peek = Point

EndNumber ==
  /\ pc \in {"zero", "digits", "fraction", "power"}
  /\ ~NumberGoesOn
  /\ stay
  /\ Push(makeToken("Number", token, start, position - start))
  /\ UNCHANGED token

(***************************************************************************)
(* keyword(): all the letters there are, then one of the three words.      *)
(***************************************************************************)
Letter ==
  /\ pc = "keyword"
  /\ isAlpha(Peek)
  /\ Consume("keyword")

EndKeyword ==
  /\ pc = "keyword"
  /\ ~isAlpha(Peek)
  /\ LET word == Bytes(start, position - start)
     IN  \/ /\ word \in DOMAIN Keywords
            /\ stay
            /\ Push(makeToken(Keywords[word], token, start, position - start))
            /\ UNCHANGED token
         \/ word \notin DOMAIN Keywords /\ FailHere("keyword")

\* tokenize() has returned or thrown.
Ended ==
  /\ pc \in {"done", "failed"}
  /\ UNCHANGED vars

Lex ==
  \/ skipWhitespace \/ Punctuate \/ BeginString \/ BeginNumber \/ BeginKeyword
  \/ Unexpected \/ PushEof
  \/ StringByte \/ StringControl \/ BeginEscape \/ SimpleEscape \/ UnicodeEscape
  \/ BadEscape \/ HexDigit \/ BadHexDigit \/ Unterminated \/ CloseString
  \/ IntegerDigit \/ NoInteger \/ LeadingZero \/ MoreDigits \/ Fraction
  \/ FractionDigit \/ Exponent \/ ExponentSign \/ ExponentDigit \/ EndNumber
  \/ Letter \/ EndKeyword

Next == Lex \/ Ended

\* A call of tokenize() runs until it returns or throws.
Spec == Init /\ [][Next]_vars /\ WF_vars(Lex)
-----------------------------------------------------------------------------
\* The types of the variables.  The position never leaves the source, so no
\* advance() reads past its end, wherever the source stops.
TypeOK ==
  /\ source \in Seq(0..255)
  /\ position \in 0..Len(source)
  /\ line \in 1..(position + 1) /\ column \in 1..(position + 1)
  /\ start \in 0..position
  /\ hexLeft \in 0..HexDigits
  /\ pc \in {"next", "string", "escape", "hex", "integer", "zero", "digits", "point", "fraction",
             "exponent", "sign", "power", "keyword", "done", "failed"}
  /\ \A i \in DOMAIN tokens : tokens[i].start + tokens[i].length <= position

\* The place of a position, counted from the start of the source.
LineOf(p) == Cardinality({i \in 1..p : source[i] = Newline}) + 1
ColumnOf(p) == Cardinality({i \in 1..p : \A j \in i..p : source[j] # Newline}) + 1
PlacedAt(place, p) == place.line = LineOf(p) /\ place.column = ColumnOf(p)

\* Line and column are those of a byte of the source: of the current one, of
\* the first byte of each token, and, in an exception, of a byte between the
\* start of the token it is about and the place where the lexer stopped.
PlacesTrue ==
  /\ PlacedAt(Here, position)
  /\ \A i \in DOMAIN tokens : PlacedAt(tokens[i], tokens[i].position)
  /\ pc = "failed" => \E p \in token.position..position : PlacedAt(error, p)

\* An exception is about the first lexeme that is wrong: all that stands before
\* it is lexemes and white space, and has become the tokens so far.
ErrorInFirstBadLexeme == pc = "failed" => Reads(source, tokens, token.position)

\* Tokens without their lines and columns, which PlacesTrue is about.
RangeOf(t) == [type |-> t.type, position |-> t.position, start |-> t.start, length |-> t.length]
Ranges == [i \in DOMAIN tokens |-> RangeOf(tokens[i])]

\* What the caller of tokenize() has got so far.
Outcome ==
  IF pc = "done" THEN [kind |-> "accepted", value |-> Ranges]
  ELSE [kind |-> IF pc = "failed" THEN "rejected" ELSE "pending"]

\* What a message shows is the place it is about: the caret of an exception, of
\* the lexer's or of the parser's about a token, is below a byte the exception
\* is about, or just behind the line shown where that byte ends it or is none.
ShownAt(place, p) ==
  LET ends == p = Len(source) \/ source[p + 1] = Newline
  IN  /\ Marked(source, place.line, place.column) = IF ends THEN None ELSE source[p + 1]
      /\ ends => place.column = Len(getLine(source, place.line)) + 1

CaretTrue ==
  /\ \A i \in DOMAIN tokens : ShownAt(tokens[i], tokens[i].position)
  /\ pc = "failed" => \E p \in token.position..position : ShownAt(error, p)
=============================================================================
