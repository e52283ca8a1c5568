--------------------------- MODULE JsonLexerProofs ---------------------------
(***************************************************************************)
(* What MCLexer checks for short texts over small alphabets, for texts of  *)
(* any length over all bytes: the lexer never reads past the end of the    *)
(* source, every line and column it gives is that of the byte it is about, *)
(* the caret of a message stands below that byte, and the tokens are what  *)
(* the text reads as in the lexical grammar.                               *)
(***************************************************************************)
EXTENDS JsonLexer, FiniteSetTheorems, SequenceTheorems, WellFoundedInduction, TLAPS

TypeNames ==
  {"String", "Number", "EndOfFile"}
  \cup {Punctuation[c] : c \in DOMAIN Punctuation} \cup {Keywords[w] : w \in DOMAIN Keywords}

Token == [type : TypeNames, position : Nat, line : Nat, column : Nat, start : Nat, length : Nat]

\* What a step relies on besides the two properties: no token begins behind
\* the position, the token begun has its place, and an escape that is read
\* still misses a digit.
TokenBegun ==
  /\ tokens \in Seq(Token)
  /\ \A i \in DOMAIN tokens : tokens[i].position <= position
  /\ token.position \in 0..position
  /\ token.line \in Nat /\ token.column \in Nat
  /\ PlacedAt(token, token.position)
  /\ pc = "hex" => hexLeft >= 1

Inv == TypeOK /\ PlacesTrue /\ TokenBegun

-----------------------------------------------------------------------------
\* Counting newlines one byte further.
LEMMA CountLines ==
  ASSUME NEW s, NEW p \in Nat
  PROVE  LET L(n) == {i \in 1..n : s[i] = Newline}
         IN  /\ Cardinality(L(p)) \in Nat
             /\ Cardinality(L(p + 1)) = IF s[p + 1] = Newline THEN Cardinality(L(p)) + 1
                                        ELSE Cardinality(L(p))
<1> DEFINE L(n) == {i \in 1..n : s[i] = Newline}
<1>1. IsFiniteSet(L(p))
  <2>1. IsFiniteSet(1..p)
    BY FS_Interval
  <2> QED
    BY <2>1, FS_Subset
<1>2. CASE s[p + 1] = Newline
  <2>1. L(p + 1) = L(p) \cup {p + 1} /\ p + 1 \notin L(p)
    BY <1>2
  <2> QED
    BY <1>1, <1>2, <2>1, FS_AddElement, FS_CardinalityType
<1>3. CASE s[p + 1] # Newline
  <2>1. L(p + 1) = L(p)
    BY <1>3
  <2> QED
    BY <1>1, <1>3, <2>1, FS_CardinalityType
<1> QED
  BY <1>2, <1>3

\* Counting the bytes of the last line one byte further.
LEMMA CountColumns ==
  ASSUME NEW s, NEW p \in Nat
  PROVE  LET C(n) == {i \in 1..n : \A j \in i..n : s[j] # Newline}
         IN  /\ Cardinality(C(p)) \in Nat
             /\ Cardinality(C(p + 1)) = IF s[p + 1] = Newline THEN 0 ELSE Cardinality(C(p)) + 1
<1> DEFINE C(n) == {i \in 1..n : \A j \in i..n : s[j] # Newline}
<1>1. IsFiniteSet(C(p))
  <2>1. IsFiniteSet(1..p)
    BY FS_Interval
  <2> QED
    BY <2>1, FS_Subset
<1>2. CASE s[p + 1] = Newline
  <2>1. C(p + 1) = {}
    BY <1>2
  <2> QED
    BY <1>1, <1>2, <2>1, FS_EmptySet, FS_CardinalityType
<1>3. CASE s[p + 1] # Newline
  <2>1. C(p + 1) = C(p) \cup {p + 1} /\ p + 1 \notin C(p)
    BY <1>3
  <2> QED
    BY <1>1, <1>3, <2>1, FS_AddElement, FS_CardinalityType
<1> QED
  BY <1>2, <1>3

\* No byte is consumed at the end, and line and column go on with it.
LEMMA AdvanceKeepsPlace ==
  ASSUME TypeOK, PlacedAt(Here, position), ~isAtEnd, advance, UNCHANGED source
  PROVE  /\ position' = position + 1 /\ position' \in 0..Len(source')
         /\ line' \in 1..(position' + 1) /\ column' \in 1..(position' + 1)
         /\ PlacedAt(Here, position)'
         /\ NextLine = LineOf(position + 1) /\ NextColumn = ColumnOf(position + 1)
<1>1. position \in Nat /\ position < Len(source) /\ Len(source) \in Nat
  BY LenProperties DEF TypeOK, isAtEnd
<1>2. Peek = source[position + 1]
  BY DEF Peek
<1>3. LineOf(position + 1) = NextLine
  <2>1. LineOf(position) = line
    BY DEF PlacedAt, Here
  <2>2. LineOf(position + 1) = IF Peek = Newline THEN LineOf(position) + 1 ELSE LineOf(position)
    BY <1>1, <1>2, CountLines DEF LineOf
  <2> QED
    BY <2>1, <2>2 DEF NextLine
<1>4. ColumnOf(position + 1) = NextColumn
  <2>1. ColumnOf(position) = column
    BY DEF PlacedAt, Here
  <2>2. ColumnOf(position + 1) = IF Peek = Newline THEN 1 ELSE ColumnOf(position) + 1
    <3> DEFINE C(n) == {i \in 1..n : \A j \in i..n : source[j] # Newline}
    <3>1. \A n : ColumnOf(n) = Cardinality(C(n)) + 1
      BY DEF ColumnOf
    <3>2. /\ Cardinality(C(position)) \in Nat
          /\ Cardinality(C(position + 1)) = IF source[position + 1] = Newline THEN 0
                                            ELSE Cardinality(C(position)) + 1
      BY <1>1, CountColumns
    <3> HIDE DEF C
    <3> QED
      BY <1>2, <3>1, <3>2
  <2> QED
    BY <2>1, <2>2 DEF NextColumn
<1>5. PlacedAt(Here, position)'
  BY <1>3, <1>4 DEF PlacedAt, Here, LineOf, ColumnOf, advance
<1> QED
  BY <1>1, <1>3, <1>4, <1>5 DEF TypeOK, advance, NextLine, NextColumn

\* Where the lexer is after a step that consumes one byte or none.
LEMMA StepKeepsPlace ==
  ASSUME Inv, UNCHANGED source, stay \/ (advance /\ ~isAtEnd)
  PROVE  /\ position \in Nat /\ position' \in {position, position + 1}
         /\ position' \in 0..Len(source')
         /\ line' \in 1..(position' + 1) /\ column' \in 1..(position' + 1)
         /\ PlacedAt(Here, position)'
<1>1. CASE stay
  BY <1>1 DEF Inv, TypeOK, PlacesTrue, PlacedAt, Here, LineOf, ColumnOf, stay
<1>2. CASE advance /\ ~isAtEnd
  BY <1>2, AdvanceKeepsPlace DEF Inv, TypeOK, PlacesTrue
<1> QED
  BY <1>1, <1>2

\* What a step has to do to the other variables.
LEMMA StepKeepsInv ==
  ASSUME Inv, UNCHANGED source, stay \/ (advance /\ ~isAtEnd),
         pc' \in {"next", "string", "escape", "hex", "integer", "zero", "digits", "point",
                  "fraction", "exponent", "sign", "power", "keyword", "done", "failed"},
         start' \in 0..position',
         hexLeft' \in 0..HexDigits, pc' = "hex" => hexLeft' >= 1,
         token' \in {token, Here},
         \/ tokens' = tokens
         \/ \E t \in Token : /\ tokens' = Append(tokens, t) /\ t.start + t.length <= position'
                             /\ t.position <= position' /\ PlacedAt(t, t.position),
         pc' = "failed" => \E p \in token'.position..position' : PlacedAt(error', p)
  PROVE  Inv'
<1>1. /\ position \in Nat /\ position' \in {position, position + 1}
      /\ position' \in 0..Len(source')
      /\ line' \in 1..(position' + 1) /\ column' \in 1..(position' + 1)
      /\ PlacedAt(Here, position)'
  BY StepKeepsPlace
<1>2. \A x, p : PlacedAt(x, p) => /\ x.line = LineOf(p)' /\ x.column = ColumnOf(p)'
  BY DEF PlacedAt, LineOf, ColumnOf
<1>3. /\ tokens' \in Seq(Token)
      /\ \A i \in DOMAIN tokens' :
           /\ tokens'[i].start + tokens'[i].length <= position'
           /\ tokens'[i].position <= position'
           /\ PlacedAt(tokens'[i], tokens'[i].position)
  <2>1. /\ tokens \in Seq(Token)
        /\ \A i \in DOMAIN tokens : /\ tokens[i].start + tokens[i].length <= position
                                    /\ tokens[i].position <= position
                                    /\ PlacedAt(tokens[i], tokens[i].position)
                                    /\ tokens[i].start \in Nat /\ tokens[i].length \in Nat
                                    /\ tokens[i].position \in Nat
    <3>1. \A i \in DOMAIN tokens : tokens[i] \in Token
      BY ElementOfSeq DEF Inv, TokenBegun
    <3> QED
      BY <3>1 DEF Inv, TokenBegun, TypeOK, PlacesTrue, Token
  <2>2. CASE tokens' = tokens
    BY <1>1, <2>1, <2>2
  <2>3. CASE \E t \in Token : /\ tokens' = Append(tokens, t) /\ t.start + t.length <= position'
                              /\ t.position <= position' /\ PlacedAt(t, t.position)
    <3>1. PICK t \in Token : /\ tokens' = Append(tokens, t) /\ t.start + t.length <= position'
                             /\ t.position <= position' /\ PlacedAt(t, t.position)
      BY <2>3
    <3>2. /\ tokens' \in Seq(Token) /\ DOMAIN tokens' = 1..(Len(tokens) + 1) /\ Len(tokens) \in Nat
          /\ DOMAIN tokens = 1..Len(tokens)
          /\ \A i \in 1..Len(tokens) : tokens'[i] = tokens[i]
          /\ tokens'[Len(tokens) + 1] = t
      BY <2>1, <3>1, AppendProperties, LenProperties
    <3>3. ASSUME NEW i \in DOMAIN tokens'
          PROVE  /\ tokens'[i].start + tokens'[i].length <= position'
                 /\ tokens'[i].position <= position'
                 /\ PlacedAt(tokens'[i], tokens'[i].position)
      <4>1. CASE i = Len(tokens) + 1
        BY <3>1, <3>2, <4>1
      <4>2. CASE i # Len(tokens) + 1
        <5>1. i \in DOMAIN tokens /\ tokens'[i] = tokens[i]
          BY <3>2, <3>3, <4>2
        <5> QED
          BY <1>1, <2>1, <5>1
      <4> QED
        BY <4>1, <4>2
    <3> QED
      BY <3>2, <3>3
  <2> QED
    BY <2>2, <2>3
<1>4. /\ token'.position \in 0..position'
      /\ token'.line \in Nat /\ token'.column \in Nat
      /\ PlacedAt(token', token'.position)
  <2>1. CASE token' = token
    BY <1>1, <2>1 DEF Inv, TokenBegun, TypeOK
  <2>2. CASE token' = Here
    BY <1>1, <2>2 DEF Inv, PlacesTrue, TypeOK, Here
  <2> QED
    BY <2>1, <2>2
<1>5. TypeOK'
  BY <1>1, <1>3 DEF Inv, TypeOK
<1>6. PlacesTrue'
  <2>1. pc' = "failed" => \E p \in token'.position..position' : PlacedAt(error, p)'
    BY <1>2 DEF PlacedAt
  <2>2. \A i \in DOMAIN tokens' : PlacedAt(tokens[i], tokens[i].position)'
    BY <1>2, <1>3 DEF PlacedAt
  <2> QED
    BY <1>1, <2>1, <2>2 DEF PlacesTrue
<1>7. TokenBegun'
  <2>1. PlacedAt(token, token.position)'
    BY <1>2, <1>4 DEF PlacedAt
  <2> QED
    BY <1>3, <1>4, <2>1 DEF TokenBegun
<1> QED
  BY <1>5, <1>6, <1>7 DEF Inv

-----------------------------------------------------------------------------
\* Only at the end of the source there is nothing to look at but '\0'.
LEMMA NotAtEnd ==
  Peek # Nul => ~isAtEnd
BY DEF Peek

\* A byte consumed, on the way to a control point.
LEMMA ConsumeKeepsInv ==
  ASSUME Inv, ~isAtEnd,
         NEW to \in {"next", "string", "escape", "integer", "zero", "digits", "point",
                     "fraction", "exponent", "sign", "power", "keyword"},
         Consume(to)
  PROVE  Inv'
<1>1. start' \in 0..position' /\ hexLeft' \in 0..HexDigits
  BY StepKeepsPlace DEF Consume, Inv, TypeOK
<1> QED
  BY <1>1, StepKeepsInv DEF Consume

\* An exception about the place the lexer was at, or is now at.
LEMMA FailHereKeepsInv ==
  ASSUME Inv, NEW why, FailHere(why)
  PROVE  Inv'
<1>1. start' \in 0..position' /\ hexLeft' \in 0..HexDigits
  BY StepKeepsPlace DEF FailHere, Fail, Inv, TypeOK
<1>2. position \in token'.position..position' /\ PlacedAt(error', position)
  BY StepKeepsPlace DEF FailHere, Fail, stay, Inv, TypeOK, PlacesTrue, TokenBegun, PlacedAt, Here
<1> QED
  BY <1>1, <1>2, StepKeepsInv DEF FailHere, Fail

LEMMA FailAfterKeepsInv ==
  ASSUME Inv, ~isAtEnd, NEW why, FailAfter(why)
  PROVE  Inv'
<1>1. start' \in 0..position' /\ hexLeft' \in 0..HexDigits
  BY StepKeepsPlace DEF FailAfter, Fail, Inv, TypeOK
<1>2. position + 1 \in token'.position..position' /\ PlacedAt(error', position + 1)
  <2>1. NextLine = LineOf(position + 1) /\ NextColumn = ColumnOf(position + 1)
    BY AdvanceKeepsPlace DEF Inv, PlacesTrue, FailAfter, Fail
  <2> QED
    BY <2>1, StepKeepsPlace DEF FailAfter, Fail, advance, Inv, TypeOK, TokenBegun, PlacedAt
<1> QED
  BY <1>1, <1>2, StepKeepsInv DEF FailAfter, Fail

\* A token of the place at, which ends where the lexer now is or before.
LEMMA PushKeepsInv ==
  ASSUME Inv, UNCHANGED source, stay \/ (advance /\ ~isAtEnd),
         NEW type \in TypeNames, NEW at \in {token, Here},
         NEW first \in Nat, NEW length \in Nat, first + length <= position',
         tokens' = Append(tokens, makeToken(type, at, first, length)),
         pc' \in {"next", "done"}, UNCHANGED <<start, hexLeft>>, token' \in {token, Here}
  PROVE  Inv'
<1> DEFINE t == makeToken(type, at, first, length)
<1>1. start' \in 0..position' /\ hexLeft' \in 0..HexDigits
  BY StepKeepsPlace DEF Inv, TypeOK
<1>2. /\ at.position \in Nat /\ at.line \in Nat /\ at.column \in Nat
      /\ at.position <= position' /\ PlacedAt(at, at.position)
  <2>1. position \in Nat /\ position' \in {position, position + 1}
    BY StepKeepsPlace
  <2> QED
    BY <2>1 DEF Inv, TokenBegun, TypeOK, PlacesTrue, Here
<1>3. /\ t \in Token /\ t.start + t.length <= position'
      /\ t.position <= position' /\ PlacedAt(t, t.position)
  BY <1>2 DEF makeToken, Token, PlacedAt
<1> QED
  BY <1>1, <1>3, StepKeepsInv

-----------------------------------------------------------------------------
\* tokenize()'s own steps.
LEMMA TokenizeKeepsInv ==
  ASSUME Inv,
         \/ skipWhitespace \/ Punctuate \/ BeginString \/ BeginNumber \/ BeginKeyword
         \/ Unexpected \/ PushEof
  PROVE  Inv'
<1>0. /\ position \in Nat /\ start \in 0..position /\ hexLeft \in 0..HexDigits
      /\ token.position \in 0..position
  BY DEF Inv, TypeOK, TokenBegun
<1>1. CASE skipWhitespace
  BY <1>1, NotAtEnd, ConsumeKeepsInv DEF skipWhitespace, White, Nul
<1>2. CASE Punctuate
  <2>1. Punctuation[Peek] \in TypeNames
    BY <1>2 DEF Punctuate, TypeNames
  <2> QED
    BY <1>0, <1>2, <2>1, PushKeepsInv DEF Punctuate, Push, advance
<1>3. CASE BeginString
  BY <1>0, <1>3, NotAtEnd, StepKeepsInv DEF BeginString, Begin, advance, Quote, Nul
<1>4. CASE BeginNumber
  <2>1. stay \/ (advance /\ ~isAtEnd)
    BY <1>4, NotAtEnd DEF BeginNumber, Minus, Nul
  <2>2. position <= position'
    BY <1>0, <2>1 DEF stay, advance
  <2> QED
    BY <1>0, <1>4, <2>1, <2>2, StepKeepsPlace, StepKeepsInv DEF BeginNumber, Begin
<1>5. CASE BeginKeyword
  BY <1>0, <1>5, StepKeepsInv DEF BeginKeyword, Begin, stay
<1>6. CASE Unexpected
  <2>1. position \in token'.position..position' /\ PlacedAt(error', position)
    BY <1>0, <1>6 DEF Unexpected, stay, Inv, PlacesTrue, PlacedAt, Here
  <2> QED
    BY <1>0, <1>6, <2>1, StepKeepsInv DEF Unexpected, stay
<1>7. CASE PushEof
  <2>1. /\ UNCHANGED source /\ stay /\ UNCHANGED <<start, hexLeft>>
        /\ tokens' = Append(tokens, makeToken("EndOfFile", Here, position, 0))
        /\ pc' \in {"next", "done"} /\ token' \in {token, Here}
        /\ position + 0 <= position'
    BY <1>0, <1>7 DEF PushEof, stay
  <2> QED
    BY <1>0, <2>1, PushKeepsInv DEF TypeNames
<1> QED
  BY <1>1, <1>2, <1>3, <1>4, <1>5, <1>6, <1>7

\* The steps of string() and parseUnicodeEscape().
LEMMA StringKeepsInv ==
  ASSUME Inv,
         \/ StringByte \/ StringControl \/ BeginEscape \/ SimpleEscape \/ UnicodeEscape
         \/ BadEscape \/ HexDigit \/ BadHexDigit \/ Unterminated \/ CloseString
  PROVE  Inv'
<1>0. /\ position \in Nat /\ start \in 0..position /\ hexLeft \in 0..HexDigits
      /\ token.position \in 0..position /\ HexDigits \in Nat \ {0}
      /\ PlacedAt(token, token.position)
  BY LexerAssumption DEF Inv, TypeOK, TokenBegun
<1>1. CASE StringByte \/ BeginEscape \/ SimpleEscape
  BY <1>1, NotAtEnd, ConsumeKeepsInv
  DEF StringByte, BeginEscape, SimpleEscape, Backslash, SimpleEscapes, Nul
<1>2. CASE StringControl
  <2>1. position \in token'.position..position' /\ PlacedAt(error', position)
    BY <1>0, <1>2 DEF StringControl, Fail, advance, Inv, PlacesTrue, PlacedAt, Here
  <2> QED
    BY <1>0, <1>2, <2>1, StepKeepsInv DEF StringControl, Fail, advance
<1>3. CASE UnicodeEscape
  BY <1>0, <1>3, NotAtEnd, StepKeepsInv DEF UnicodeEscape, advance, LowerU, Nul
<1>4. CASE BadEscape
  BY <1>4, FailHereKeepsInv, FailAfterKeepsInv DEF BadEscape
<1>5. CASE HexDigit
  <2>1. ~isAtEnd
    BY <1>5, NotAtEnd DEF HexDigit, isHex, isDigit, Nul
  <2>2. hexLeft >= 1
    BY <1>5 DEF HexDigit, Inv, TokenBegun
  <2> QED
    BY <1>0, <1>5, <2>1, <2>2, StepKeepsInv DEF HexDigit, advance
<1>6. CASE BadHexDigit \/ Unterminated
  BY <1>6, FailHereKeepsInv DEF BadHexDigit, Unterminated
<1>7. CASE CloseString
  <2>0. ~isAtEnd /\ advance /\ UNCHANGED source /\ UNCHANGED <<start, hexLeft, token>>
    BY <1>7, NotAtEnd DEF CloseString, Quote, Nul, Push, Fail
  <2>1. CASE Push(makeToken("String", token, start, position - start))
    BY <1>0, <2>0, <2>1, PushKeepsInv DEF Push, TypeNames, advance
  <2>2. CASE Fail("UTF-8", token.line, token.column)
    <3>1. token.position \in token'.position..position' /\ PlacedAt(error', token.position)
      BY <1>0, <2>0, <2>2 DEF Fail, advance, PlacedAt
    <3> QED
      BY <1>0, <2>0, <2>2, <3>1, StepKeepsInv DEF Fail, advance
  <2> QED
    BY <1>7, <2>1, <2>2 DEF CloseString
<1> QED
  BY <1>1, <1>2, <1>3, <1>4, <1>5, <1>6, <1>7

\* The steps of number() and of keyword().
LEMMA NumberKeepsInv ==
  ASSUME Inv,
         \/ IntegerDigit \/ NoInteger \/ LeadingZero \/ MoreDigits \/ Fraction
         \/ FractionDigit \/ Exponent \/ ExponentSign \/ ExponentDigit \/ EndNumber
         \/ Letter \/ EndKeyword
  PROVE  Inv'
<1>0. /\ position \in Nat /\ start \in 0..position /\ hexLeft \in 0..HexDigits
  BY DEF Inv, TypeOK
<1>1. /\ isDigit(Peek) => ~isAtEnd
      /\ isAlpha(Peek) => ~isAtEnd
      /\ isExponent(Peek) => ~isAtEnd
      /\ Peek \in {Point, Plus, Minus} => ~isAtEnd
  BY NotAtEnd DEF isDigit, isAlpha, isExponent, Point, Plus, Minus, Nul
<1>2. CASE IntegerDigit \/ MoreDigits
  BY <1>1, <1>2, ConsumeKeepsInv DEF IntegerDigit, MoreDigits
<1>3. CASE Fraction \/ Exponent \/ ExponentSign \/ Letter
  BY <1>1, <1>3, ConsumeKeepsInv DEF Fraction, Exponent, ExponentSign, Letter
<1>4. CASE NoInteger \/ LeadingZero
  BY <1>4, FailHereKeepsInv DEF NoInteger, LeadingZero
<1>5. CASE FractionDigit \/ ExponentDigit
  BY <1>1, <1>5, ConsumeKeepsInv, FailHereKeepsInv DEF FractionDigit, ExponentDigit
<1>6. CASE EndNumber
  BY <1>0, <1>6, PushKeepsInv DEF EndNumber, Push, TypeNames, stay
<1>7. CASE EndKeyword
  <2> DEFINE word == Bytes(start, position - start)
  <2>1. CASE word \in DOMAIN Keywords /\ stay /\ UNCHANGED token
             /\ Push(makeToken(Keywords[word], token, start, position - start))
    <3>1. Keywords[word] \in TypeNames
      BY <2>1 DEF TypeNames
    <3> QED
      BY <1>0, <2>1, <3>1, PushKeepsInv DEF Push, stay
  <2>2. CASE FailHere("keyword")
    BY <2>2, FailHereKeepsInv
  <2> QED
    BY <1>7, <2>1, <2>2 DEF EndKeyword
<1> QED
  BY <1>2, <1>3, <1>4, <1>5, <1>6, <1>7

-----------------------------------------------------------------------------
\* Before the first byte the lexer is at line 1, column 1.
LEMMA InitImpliesInv ==
  Init => Inv
<1> SUFFICES ASSUME Init PROVE Inv
  OBVIOUS
<1>1. source \in Seq(0..255) /\ Len(source) \in Nat /\ HexDigits \in Nat
  BY LexerAssumption, LenProperties DEF Init
<1>2. LineOf(0) = 1 /\ ColumnOf(0) = 1
  <2>1. /\ {i \in 1..0 : source[i] = Newline} = {}
        /\ {i \in 1..0 : \A j \in i..0 : source[j] # Newline} = {}
    OBVIOUS
  <2> QED
    BY <2>1, FS_EmptySet DEF LineOf, ColumnOf
<1>3. tokens \in Seq(Token) /\ DOMAIN tokens = {}
  BY DEF Init
<1> QED
  BY <1>1, <1>2, <1>3 DEF Init, Inv, TypeOK, PlacesTrue, TokenBegun, PlacedAt, Here

LEMMA NextKeepsInv ==
  Inv /\ [Next]_vars => Inv'
<1>1. ASSUME Inv, Lex PROVE Inv'
  BY <1>1, TokenizeKeepsInv, StringKeepsInv, NumberKeepsInv DEF Lex
<1>2. ASSUME Inv, UNCHANGED vars PROVE Inv'
  <2>1. /\ UNCHANGED <<source, position, line, column, token, start, hexLeft, tokens, pc, error>>
        /\ \A p : LineOf(p)' = LineOf(p) /\ ColumnOf(p)' = ColumnOf(p)
    BY <1>2 DEF vars, LineOf, ColumnOf
  <2>2. TypeOK' /\ TokenBegun'
    BY <1>2, <2>1 DEF Inv, TypeOK, TokenBegun, PlacedAt
  <2>3. PlacesTrue'
    BY <1>2, <2>1 DEF Inv, PlacesTrue, PlacedAt, Here
  <2> QED
    BY <2>2, <2>3 DEF Inv
<1> QED
  BY <1>1, <1>2 DEF Next, Ended

\* The lexer stays inside the source, for every source: no step advances past
\* the last byte, also where a token is cut off by the end.
THEOREM LexerStaysInside == Spec => []TypeOK
<1>1. Inv => TypeOK
  BY DEF Inv
<1> QED
  BY <1>1, InitImpliesInv, NextKeepsInv, PTL DEF Spec

\* Every line and column, of a token or of an exception, is that of a byte that
\* the token or the exception is about.
THEOREM PlacesAreTrue == Spec => []PlacesTrue
<1>1. Inv => PlacesTrue
  BY DEF Inv
<1> QED
  BY <1>1, InitImpliesInv, NextKeepsInv, PTL DEF Spec

-----------------------------------------------------------------------------
\* Induction over the numbers, and over those up to n.
LEMMA NatInduct ==
  ASSUME NEW S, 0 \in S, \A n \in Nat : n \in S => n + 1 \in S
  PROVE  Nat \subseteq S
<1> DEFINE T == Nat \ S
           R == OpToRel(<, Nat)
<1>1. SUFFICES ASSUME T # {} PROVE FALSE
  OBVIOUS
<1>2. IsWellFoundedOn(R, Nat) /\ T \subseteq Nat
  BY NatLessThanWellFounded
<1>3. PICK m \in T : \A k \in T : ~(<<k, m>> \in R)
  <2> HIDE DEF R, T
  <2> QED
    BY <1>1, <1>2, WFMin
<1>4. m # 0 /\ m \in Nat /\ m - 1 \in Nat /\ m - 1 < m
  OBVIOUS
<1>5. <<m - 1, m>> \in R
  BY <1>4 DEF OpToRel
<1>6. m - 1 \in S
  BY <1>3, <1>4, <1>5
<1>7. (m - 1) + 1 = m
  BY <1>4
<1> QED
  BY <1>4, <1>6, <1>7

LEMMA FromTo ==
  ASSUME NEW m \in Nat, NEW n \in Nat, NEW S, m \in S, \A k \in m..(n - 1) : k \in S => k + 1 \in S
  PROVE  m..n \subseteq S
<1> DEFINE T == {k \in Nat : k \in m..n => k \in S}
<1>1. 0 \in T
  OBVIOUS
<1>2. ASSUME NEW k \in Nat, k \in T PROVE k + 1 \in T
  <2>1. CASE k \in m..(n - 1)
    BY <1>2, <2>1
  <2>2. CASE k + 1 = m
    BY <2>2
  <2>3. CASE k \notin m..(n - 1) /\ k + 1 # m
    BY <2>3
  <2> QED
    BY <2>1, <2>2, <2>3
<1>3. Nat \subseteq T
  <2> HIDE DEF T
  <2> QED
    BY <1>1, <1>2, NatInduct
<1> QED
  BY <1>3

\* What getLine has behind a byte is what it had before, and the byte.
LEMMA ScannedDef ==
  ASSUME NEW text, Len(text) \in Nat, NEW target
  PROVE  Scanned(text, target) =
           [i \in 0..Len(text) |->
              IF i = 0 THEN FirstLine ELSE Scan(Scanned(text, target)[i - 1], text[i], target)]
<1> DEFINE n == Len(text)
           S == {m \in Nat : \E f : f = [i \in 0..m |-> IF i = 0 THEN FirstLine ELSE Scan(f[i - 1], text[i], target)]}
<1>1. 0 \in S
  <2>1. LET f == [i \in 0..0 |-> FirstLine]
        IN  f = [i \in 0..0 |-> IF i = 0 THEN FirstLine ELSE Scan(f[i - 1], text[i], target)]
    OBVIOUS
  <2> QED
    BY <2>1
<1>2. ASSUME NEW m \in Nat, m \in S PROVE m + 1 \in S
  <2>1. PICK f : f = [i \in 0..m |-> IF i = 0 THEN FirstLine ELSE Scan(f[i - 1], text[i], target)]
    BY <1>2
  <2> DEFINE g == [i \in 0..(m + 1) |-> IF i = m + 1 THEN Scan(f[m], text[m + 1], target) ELSE f[i]]
  <2>2. \A i \in 0..m : g[i] = f[i]
    OBVIOUS
  <2>3. ASSUME NEW i \in 0..(m + 1)
        PROVE  g[i] = IF i = 0 THEN FirstLine ELSE Scan(g[i - 1], text[i], target)
    <3>1. CASE i = m + 1
      <4>1. g[i] = Scan(f[m], text[i], target) /\ i # 0 /\ i - 1 = m
        BY <3>1
      <4> QED
        BY <4>1, <2>2
    <3>2. CASE i # m + 1
      <4>1. i \in 0..m /\ (i # 0 => i - 1 \in 0..m)
        BY <3>2
      <4>2. f[i] = IF i = 0 THEN FirstLine ELSE Scan(f[i - 1], text[i], target)
        BY <2>1, <4>1
      <4> QED
        BY <2>2, <4>1, <4>2
    <3> QED
      BY <3>1, <3>2
  <2>4. g = [i \in 0..(m + 1) |-> IF i = 0 THEN FirstLine ELSE Scan(g[i - 1], text[i], target)]
    <3> DEFINE h == [i \in 0..(m + 1) |-> IF i = 0 THEN FirstLine ELSE Scan(g[i - 1], text[i], target)]
    <3>1. \A i \in 0..(m + 1) : g[i] = h[i]
      <4> HIDE DEF g
      <4> QED
        BY <2>3
    <3>2. g = [i \in 0..(m + 1) |-> g[i]] /\ h = [i \in 0..(m + 1) |-> h[i]]
      OBVIOUS
    <3> HIDE DEF g, h
    <3>3. g = h
      BY <3>1, <3>2
    <3> QED
      BY <3>3 DEF h
  <2> HIDE DEF g
  <2> QED
    BY <2>4
<1>3. \E f : f = [i \in 0..n |-> IF i = 0 THEN FirstLine ELSE Scan(f[i - 1], text[i], target)]
  <2>1. Nat \subseteq S
    <3> HIDE DEF S
    <3> QED
      BY <1>1, <1>2, NatInduct
  <2> QED
    BY <2>1
<1> QED
  BY <1>3 DEF Scanned

LEMMA ScannedAt ==
  ASSUME NEW text, Len(text) \in Nat, NEW target
  PROVE  /\ Scanned(text, target)[0] = FirstLine
         /\ \A k \in 0..(Len(text) - 1) :
              Scanned(text, target)[k + 1] = Scan(Scanned(text, target)[k], text[k + 1], target)
<1> DEFINE state == Scanned(text, target)
<1>1. state = [k \in 0..Len(text) |->
                 IF k = 0 THEN FirstLine ELSE Scan(state[k - 1], text[k], target)]
  BY ScannedDef
<1> HIDE DEF state
<1>2. state[0] = FirstLine
  BY <1>1
<1>3. ASSUME NEW k \in 0..(Len(text) - 1) PROVE state[k + 1] = Scan(state[k], text[k + 1], target)
  <2>1. k + 1 \in 0..Len(text) /\ k + 1 # 0 /\ (k + 1) - 1 = k
    OBVIOUS
  <2> QED
    BY <1>1, <2>1
<1> QED
  BY <1>2, <1>3 DEF state

Byte == 0..255

\* What getLine keeps: the number of the line, and the bytes of the target.
Scanning(state) ==
  /\ state.number \in Nat /\ state.text \in Seq(0..255)
  /\ state = [number |-> state.number, text |-> state.text]

\* What one byte does to it.
LEMMA ScanStep ==
  ASSUME NEW s, Scanning(s), NEW b \in Byte, NEW target
  PROVE  LET t == Scan(s, b, target)
         IN  /\ Scanning(t)
             /\ t.number = IF b = Newline THEN s.number + 1 ELSE s.number
             /\ b = Newline \/ s.number # target => t.text = s.text
             /\ b # Newline /\ s.number = target =>
                  /\ Len(t.text) = Len(s.text) + 1
                  /\ t.text[Len(s.text) + 1] = b
                  /\ \A k \in 1..Len(s.text) : t.text[k] = s.text[k]
<1> DEFINE t == Scan(s, b, target)
<1> USE DEF Scanning, Byte
<1>1. CASE b = Newline
  <2>1. t = [number |-> s.number + 1, text |-> s.text]
    BY <1>1 DEF Scan, LineEnd, Newline
  <2> QED
    BY <1>1, <2>1
<1>2. CASE b # Newline /\ s.number = target
  <2>1. t = [number |-> s.number, text |-> Append(s.text, b)]
    BY <1>2 DEF Scan, LineEnd, Newline
  <2>2. /\ Append(s.text, b) \in Seq(0..255)
        /\ Len(Append(s.text, b)) = Len(s.text) + 1
        /\ Append(s.text, b)[Len(s.text) + 1] = b
        /\ \A k \in 1..Len(s.text) : Append(s.text, b)[k] = s.text[k]
    BY AppendProperties
  <2> QED
    BY <1>2, <2>1, <2>2
<1>3. CASE b # Newline /\ s.number # target
  <2>1. t = s
    BY <1>3 DEF Scan, LineEnd, Newline
  <2> QED
    BY <1>3, <2>1
<1> QED
  BY <1>1, <1>2, <1>3

\* The line and column of the byte behind one.
LEMMA PlaceBehind ==
  ASSUME NEW p \in Nat
  PROVE  /\ LineOf(p) \in Nat /\ ColumnOf(p) \in Nat \ {0}
         /\ LineOf(p + 1) = IF source[p + 1] = Newline THEN LineOf(p) + 1 ELSE LineOf(p)
         /\ ColumnOf(p + 1) = IF source[p + 1] = Newline THEN 1 ELSE ColumnOf(p) + 1
<1> DEFINE L(n) == {i \in 1..n : source[i] = Newline}
           C(n) == {i \in 1..n : \A j \in i..n : source[j] # Newline}
<1>1. \A n : LineOf(n) = Cardinality(L(n)) + 1 /\ ColumnOf(n) = Cardinality(C(n)) + 1
  BY DEF LineOf, ColumnOf
<1>2. /\ Cardinality(L(p)) \in Nat
      /\ Cardinality(L(p + 1)) = IF source[p + 1] = Newline THEN Cardinality(L(p)) + 1
                                 ELSE Cardinality(L(p))
  BY CountLines
<1>3. /\ Cardinality(C(p)) \in Nat
      /\ Cardinality(C(p + 1)) = IF source[p + 1] = Newline THEN 0 ELSE Cardinality(C(p)) + 1
  BY CountColumns
<1> HIDE DEF L, C
<1> QED
  BY <1>1, <1>2, <1>3

LEMMA FirstPlace == LineOf(0) = 1 /\ ColumnOf(0) = 1
<1>1. /\ {i \in 1..0 : source[i] = Newline} = {}
      /\ {i \in 1..0 : \A j \in i..0 : source[j] # Newline} = {}
  OBVIOUS
<1> QED
  BY <1>1, FS_EmptySet DEF LineOf, ColumnOf

\* Up to p: it counts the lines as the lexer does, and has of the line of p
\* what stands before the column of the byte that comes next.
Towards(p, k) ==
  LET state == Scanned(source, LineOf(p))[k]
  IN  /\ Scanning(state)
      /\ state.number = LineOf(k)
      /\ LineOf(k) < LineOf(p) => Len(state.text) = 0
      /\ LineOf(k) = LineOf(p) => Len(state.text) = ColumnOf(k) - 1

\* Behind p: if a newline stood there, the line stays as it is; if another
\* byte did, it stands in the column of p.
Beyond(p, k) ==
  LET state == Scanned(source, LineOf(p))[k]
  IN  /\ Scanning(state)
      /\ IF source[p + 1] = Newline
         THEN state.number > LineOf(p) /\ Len(state.text) = ColumnOf(p) - 1
         ELSE /\ state.number >= LineOf(p)
              /\ Len(state.text) >= ColumnOf(p)
              /\ state.text[ColumnOf(p)] = source[p + 1]

LEMMA TowardsStep ==
  ASSUME source \in Seq(0..255), NEW p \in 0..Len(source), NEW k \in 0..(p - 1), Towards(p, k)
  PROVE  Towards(p, k + 1)
<1> DEFINE T == LineOf(p)
           s == Scanned(source, T)[k]
           t == Scanned(source, T)[k + 1]
           b == source[k + 1]
<1>1. Len(source) \in Nat /\ p \in Nat /\ k \in Nat /\ k \in 0..(Len(source) - 1)
  BY LenProperties
<1>2. b \in Byte
  BY <1>1, ElementOfSeq DEF Byte
<1>3. t = Scan(s, b, T)
  BY <1>1, ScannedAt
<1>4. /\ Scanning(s) /\ s.number = LineOf(k)
      /\ LineOf(k) < T => Len(s.text) = 0
      /\ LineOf(k) = T => Len(s.text) = ColumnOf(k) - 1
  BY DEF Towards
<1>5. /\ LineOf(k) \in Nat /\ ColumnOf(k) \in Nat /\ T \in Nat
      /\ LineOf(k + 1) = IF b = Newline THEN LineOf(k) + 1 ELSE LineOf(k)
      /\ ColumnOf(k + 1) = IF b = Newline THEN 1 ELSE ColumnOf(k) + 1
  BY <1>1, PlaceBehind
<1> HIDE DEF T, s, t, b
<1>6. /\ Scanning(t)
      /\ t.number = IF b = Newline THEN s.number + 1 ELSE s.number
      /\ b = Newline \/ s.number # T => t.text = s.text
      /\ b # Newline /\ s.number = T => Len(t.text) = Len(s.text) + 1
  BY <1>2, <1>3, <1>4, ScanStep
<1>7. t.number = LineOf(k + 1)
  BY <1>4, <1>5, <1>6
<1>8. LineOf(k + 1) < T => Len(t.text) = 0
  BY <1>4, <1>5, <1>6
<1>9. LineOf(k + 1) = T => Len(t.text) = ColumnOf(k + 1) - 1
  BY <1>4, <1>5, <1>6
<1> QED
  BY <1>6, <1>7, <1>8, <1>9 DEF Towards, T, t

LEMMA BeyondStep ==
  ASSUME source \in Seq(0..255), NEW p \in 0..(Len(source) - 1), NEW k \in (p + 1)..(Len(source) - 1),
         Beyond(p, k)
  PROVE  Beyond(p, k + 1)
<1> DEFINE T == LineOf(p)
           s == Scanned(source, T)[k]
           t == Scanned(source, T)[k + 1]
           b == source[k + 1]
           c == ColumnOf(p)
<1>1. Len(source) \in Nat /\ p \in Nat /\ k \in 0..(Len(source) - 1)
  BY LenProperties
<1>2. b \in Byte
  BY <1>1, ElementOfSeq DEF Byte
<1>3. t = Scan(s, b, T)
  BY <1>1, ScannedAt
<1>4. /\ Scanning(s)
      /\ source[p + 1] = Newline => s.number > T /\ Len(s.text) = c - 1
      /\ source[p + 1] # Newline => s.number >= T /\ Len(s.text) >= c /\ s.text[c] = source[p + 1]
  BY DEF Beyond
<1>5. T \in Nat /\ c \in Nat \ {0}
  BY <1>1, PlaceBehind
<1> HIDE DEF T, s, t, b, c
<1>6. /\ Scanning(t)
      /\ t.number = IF b = Newline THEN s.number + 1 ELSE s.number
      /\ b = Newline \/ s.number # T => t.text = s.text
      /\ b # Newline /\ s.number = T =>
           /\ Len(t.text) = Len(s.text) + 1
           /\ \A j \in 1..Len(s.text) : t.text[j] = s.text[j]
  BY <1>2, <1>3, <1>4, ScanStep
<1>7. source[p + 1] = Newline => t.number > T /\ Len(t.text) = c - 1
  BY <1>4, <1>5, <1>6 DEF Scanning
<1>8. ASSUME source[p + 1] # Newline
      PROVE  t.number >= T /\ Len(t.text) >= c /\ t.text[c] = source[p + 1]
  <2>1. s.number \in Nat /\ Len(s.text) \in Nat /\ Len(s.text) >= c /\ c \in 1..Len(s.text)
    BY <1>4, <1>5, <1>8, LenProperties DEF Scanning
  <2> QED
    BY <1>4, <1>5, <1>6, <1>8, <2>1
<1> QED
  BY <1>6, <1>7, <1>8 DEF Beyond, T, t, c

\* The message of an exception that has the place of a byte, or of the end,
\* shows the line of this byte with the caret below it.
LEMMA PlacedIsShown ==
  ASSUME source \in Seq(0..255), NEW p \in 0..Len(source), NEW place, PlacedAt(place, p)
  PROVE  ShownAt(place, p)
<1> DEFINE n == Len(source)
           T == LineOf(p)
           c == ColumnOf(p)
           state == Scanned(source, T)
           shown == getLine(source, T)
<1>1. n \in Nat /\ p \in Nat /\ T \in Nat /\ c \in Nat \ {0}
  BY LenProperties, PlaceBehind
<1>2. place.line = T /\ place.column = c /\ shown = state[n].text
  BY DEF PlacedAt, getLine
<1>3. Towards(p, 0)
  <2>1. state[0] = [number |-> 1, text |-> <<>>]
    BY <1>1, ScannedAt DEF FirstLine
  <2>2. Scanning(state[0]) /\ state[0].number = 1 /\ Len(state[0].text) = 0
    BY <2>1 DEF Scanning
  <2> QED
    BY <2>2, FirstPlace DEF Towards
<1>4. Towards(p, p)
  <2> DEFINE S == {k \in 0..p : Towards(p, k)}
  <2>1. 0 \in S
    BY <1>1, <1>3
  <2>2. \A k \in 0..(p - 1) : k \in S => k + 1 \in S
    BY <1>1, TowardsStep
  <2>3. 0..p \subseteq S
    <3> HIDE DEF S
    <3> QED
      BY <1>1, <2>1, <2>2, FromTo
  <2> QED
    BY <1>1, <2>3
<1>5. Scanning(state[p]) /\ state[p].number = T /\ Len(state[p].text) = c - 1
  BY <1>4 DEF Towards
<1>6. ASSUME p < n PROVE Beyond(p, n)
  <2> DEFINE b == source[p + 1]
             s == state[p]
             t == state[p + 1]
  <2>1. b \in Byte
    <3>1. p + 1 \in 1..Len(source)
      BY <1>1, <1>6
    <3> QED
      BY <3>1, ElementOfSeq DEF Byte
  <2>2. t = Scan(s, b, T)
    BY <1>1, <1>6, ScannedAt
  <2>3. Beyond(p, p + 1)
    <3> HIDE DEF T, c, b, s, t, state
    <3>1. Scanning(s) /\ s.number = T /\ Len(s.text) = c - 1
      BY <1>5 DEF s
    <3>2. /\ Scanning(t)
          /\ t.number = IF b = Newline THEN s.number + 1 ELSE s.number
          /\ b = Newline => t.text = s.text
          /\ b # Newline /\ s.number = T =>
               Len(t.text) = Len(s.text) + 1 /\ t.text[Len(s.text) + 1] = b
      BY <2>1, <2>2, <3>1, ScanStep
    <3>3. b = Newline => t.number > T /\ Len(t.text) = c - 1
      BY <1>1, <3>1, <3>2
    <3>4. b # Newline => t.number >= T /\ Len(t.text) >= c /\ t.text[c] = b
      BY <1>1, <3>1, <3>2
    <3> QED
      BY <3>2, <3>3, <3>4 DEF Beyond, T, c, b, t, state
  <2> DEFINE S == {k \in (p + 1)..n : Beyond(p, k)}
  <2>4. p + 1 \in S
    BY <1>1, <1>6, <2>3
  <2>5. \A k \in (p + 1)..(n - 1) : k \in S => k + 1 \in S
    BY <1>1, <1>6, BeyondStep
  <2>6. (p + 1)..n \subseteq S
    <3> HIDE DEF S, n, T, c, state, shown
    <3>1. p + 1 \in Nat
      BY <1>1
    <3> QED
      BY <1>1, <2>4, <2>5, <3>1, FromTo
  <2> QED
    BY <1>1, <1>6, <2>6
<1>7. CASE p = n
  <2>1. Len(shown) = c - 1 /\ shown \in Seq(0..255)
    BY <1>2, <1>5, <1>7 DEF Scanning
  <2>2. c \notin DOMAIN shown /\ c = Len(shown) + 1
    BY <1>1, <2>1, LenProperties
  <2> HIDE DEF T, c, shown, state
  <2> QED
    BY <1>2, <1>7, <2>2 DEF ShownAt, Marked, shown
<1>8. CASE p < n /\ source[p + 1] = Newline
  <2>1. Len(shown) = c - 1 /\ shown \in Seq(0..255)
    BY <1>2, <1>6, <1>8 DEF Beyond, Scanning
  <2>2. c \notin DOMAIN shown /\ c = Len(shown) + 1
    BY <1>1, <2>1, LenProperties
  <2> HIDE DEF T, c, shown, state
  <2> QED
    BY <1>2, <1>8, <2>2 DEF ShownAt, Marked, shown
<1>9. CASE p < n /\ source[p + 1] # Newline
  <2>1. Len(shown) >= c /\ shown[c] = source[p + 1] /\ shown \in Seq(0..255)
    BY <1>2, <1>6, <1>9 DEF Beyond, Scanning
  <2>2. c \in DOMAIN shown
    BY <1>1, <2>1, LenProperties
  <2> HIDE DEF T, c, shown, state
  <2> QED
    BY <1>1, <1>2, <1>9, <2>1, <2>2 DEF ShownAt, Marked, shown
<1> QED
  BY <1>1, <1>7, <1>8, <1>9

\* The caret of a message, whether of the lexer's exception or of one of the
\* parser's that carries the place of a token, stands below a byte that it is
\* about, or behind the line where this byte ends it: DiagnosticFormatter finds
\* the lines and columns the lexer has counted, in any text.
THEOREM CaretIsTrue == Spec => []CaretTrue
<1>1. ASSUME Inv PROVE CaretTrue
  <2>1. source \in Seq(0..255) /\ Len(source) \in Nat /\ position \in 0..Len(source)
    BY <1>1, LenProperties DEF Inv, TypeOK
  <2>2. ASSUME NEW i \in DOMAIN tokens PROVE ShownAt(tokens[i], tokens[i].position)
    <3>1. tokens[i] \in Token
      BY <1>1, ElementOfSeq DEF Inv, TokenBegun
    <3>2. tokens[i].position \in 0..Len(source) /\ PlacedAt(tokens[i], tokens[i].position)
      BY <1>1, <2>1, <3>1 DEF Inv, TokenBegun, PlacesTrue, Token
    <3> QED
      BY <2>1, <3>2, PlacedIsShown
  <2>3. ASSUME pc = "failed" PROVE \E p \in token.position..position : ShownAt(error, p)
    <3>1. PICK p \in token.position..position : PlacedAt(error, p)
      BY <1>1, <2>3 DEF Inv, PlacesTrue
    <3>2. p \in 0..Len(source)
      BY <1>1, <2>1, <3>1 DEF Inv, TokenBegun
    <3> QED
      BY <2>1, <3>1, <3>2, PlacedIsShown
  <2> QED
    BY <2>2, <2>3 DEF CaretTrue
<1> QED
  BY <1>1, InitImpliesInv, NextKeepsInv, PTL DEF Spec

-----------------------------------------------------------------------------
\* A token without its place, and the texts' readings: the ways to read one as
\* lexemes.
TokenRange == [type : TypeNames, position : Nat, start : Nat, length : Nat]
EndOfFile(s) == [type |-> "EndOfFile", position |-> Len(s), start |-> Len(s), length |-> 0]
IsReading(s, r) == r \in Seq(TokenRange) /\ Reads(s, r, Len(s))

NumberPoints ==
  {"integer", "zero", "digits", "point", "fraction", "exponent", "sign", "power"}
StringPoints == {"string", "escape", "hex"}

\* What has been read of a number from a on when number() stands at q: its sign
\* up to i, and the parts that are complete.
NumberParts(at, s, a, i, f, e, q) ==
  /\ IsSign(s, a, i)
  /\ \/ at = "integer" /\ q = i
     \/ at = "zero" /\ IsInteger(s, i, q) /\ s[i + 1] = 48
     \/ at = "digits" /\ IsInteger(s, i, q) /\ s[i + 1] # 48
     \/ at = "point" /\ IsInteger(s, i, f) /\ q = f + 1 /\ s[q] = 46
     \/ at = "fraction" /\ IsInteger(s, i, f) /\ s[f + 1] = 46 /\ IsDigits(s, f + 1, q)
     \/ /\ IsInteger(s, i, f) /\ IsFraction(s, f, e) /\ e < q /\ s[e + 1] \in {69, 101}
        /\ \/ at = "exponent" /\ q = e + 1
           \/ at = "sign" /\ q = e + 2 /\ s[q] \in {43, 45}
           \/ at = "power" /\ IsPower(s, e, q)

NumberSoFar(at, s, a, q) == \E i, f, e \in a..q : NumberParts(at, s, a, i, f, e, q)

\* Where it stands in a number of the grammar from a to b, however that is cut.
StandsIn(at, s, i, f, e, b, q) ==
  \/ at = "integer" /\ q = i
  \/ at = "zero" /\ q = f /\ s[i + 1] = 48
  \/ at = "digits" /\ i < q /\ q <= f /\ s[i + 1] # 48
  \/ at = "point" /\ q = f + 1 /\ f < e
  \/ at = "fraction" /\ f + 1 < q /\ q <= e
  \/ at = "exponent" /\ q = e + 1 /\ e < b
  \/ at = "sign" /\ q = e + 2 /\ e < b /\ s[q] \in {43, 45}
  \/ at = "power" /\ e + 1 < q /\ q <= b /\ (s[e + 2] \in {43, 45} => e + 2 < q)

NumberAhead(at, s, a, b, q) ==
  \A i, f, e \in a..b : NumberCut(s, a, i, f, e, b) => StandsIn(at, s, i, f, e, b, q)

\* Where string() stands behind a cut p: before a piece, or inside an escape.
BehindCut(at, s, p, left, q) ==
  \/ at = "string" /\ q = p
  \/ at = "escape" /\ q = p + 1 /\ s[q] = 92
  \/ /\ at = "hex" /\ left \in 1..HexDigits /\ q + left = p + 2 + HexDigits
     /\ s[p + 1] = 92 /\ s[p + 2] = 117
     /\ \A h \in (p + 3)..q : s[h] \in Digit \cup HexLetters

StringSoFar(at, s, a, left, q) ==
  /\ s[a + 1] = 34
  /\ \E p \in (a + 1)..q : \E cuts \in SUBSET ((a + 1)..p) :
       IsCut(s, a + 1, p, cuts) /\ BehindCut(at, s, p, left, q)

StringAhead(at, s, a, b, left, q) ==
  \A cuts \in SUBSET ((a + 1)..(b - 1)) :
    IsCut(s, a + 1, b - 1, cuts) => \E p \in cuts : BehindCut(at, s, p, left, q)

\* The tokens so far are those of the text up to the lexeme begun, and that is
\* one of the grammar as far as it has been read.
ReadSoFar ==
  /\ pc = "next" => Reads(source, tokens, position)
  /\ pc \notin {"next", "done"} => Reads(source, tokens, token.position)
  /\ pc \in NumberPoints =>
       start = token.position /\ NumberSoFar(pc, source, token.position, position)
  /\ pc \in StringPoints =>
       start = token.position + 1 /\ StringSoFar(pc, source, token.position, hexLeft, position)
  /\ pc = "keyword" => start = token.position

\* The lexer is on its way along a reading: it has its first tokens, and stands
\* before its next lexeme, or inside it.
Along(r) ==
  LET m == Len(tokens)
      t == r[m + 1]
      a == token.position
  IN  /\ pc # "failed"
      /\ pc = "done" => Ranges = Append(r, EndOfFile(source))
      /\ pc # "done" => m <= Len(r) /\ \A k \in 1..m : RangeOf(tokens[k]) = r[k]
      /\ pc = "next" => EndBefore(r, m + 1) <= position /\ (m < Len(r) => position <= t.position)
      /\ pc \notin {"next", "done"} => m < Len(r) /\ t.position = a
      /\ pc \in NumberPoints =>
           t.type = "Number" /\ NumberAhead(pc, source, a, EndOf(t), position)
      /\ pc \in StringPoints =>
           t.type = "String" /\ StringAhead(pc, source, a, EndOf(t), hexLeft, position)
      /\ pc = "keyword" => t.type \in DOMAIN WordBytesOf /\ position <= EndOf(t)

-----------------------------------------------------------------------------
\* One digit more, or a first one.
LEMMA DigitsGrow ==
  ASSUME NEW s, NEW a \in Nat, NEW q \in Nat, s[q + 1] \in Digit, a = q \/ IsDigits(s, a, q)
  PROVE  IsDigits(s, a, q + 1)
<1>1. \A p \in (a + 1)..(q + 1) : p = q + 1 \/ p \in (a + 1)..q
  OBVIOUS
<1> QED
  BY <1>1 DEF IsDigits

LEMMA PowerGrows ==
  ASSUME NEW s, NEW e \in Nat, NEW q \in Nat, s[q + 1] \in Digit, IsPower(s, e, q), e < q
  PROVE  IsPower(s, e, q + 1)
<1>1. CASE IsDigits(s, e + 1, q)
  BY <1>1, DigitsGrow DEF IsPower
<1>2. CASE s[e + 2] \in {43, 45} /\ IsDigits(s, e + 2, q)
  BY <1>2, DigitsGrow DEF IsPower
<1> QED
  BY <1>1, <1>2 DEF IsPower

LEMMA ReadIntegerDigit ==
  ASSUME NEW s, NEW a \in Nat, NEW q \in Nat, NumberSoFar("integer", s, a, q), s[q + 1] \in Digit
  PROVE  NumberSoFar(IF s[q + 1] = 48 THEN "zero" ELSE "digits", s, a, q + 1)
<1>1. PICK i, f, e \in a..q : NumberParts("integer", s, a, i, f, e, q)
  BY DEF NumberSoFar
<1>2. i = q /\ IsSign(s, a, i) /\ i \in a..(q + 1)
  BY <1>1 DEF NumberParts
<1>3. IsInteger(s, i, q + 1)
  BY <1>2, DigitsGrow DEF IsInteger
<1>4. NumberParts(IF s[q + 1] = 48 THEN "zero" ELSE "digits", s, a, i, i, i, q + 1)
  BY <1>2, <1>3 DEF NumberParts
<1> QED
  BY <1>2, <1>4 DEF NumberSoFar

LEMMA ReadMoreDigits ==
  ASSUME NEW s, NEW a \in Nat, NEW q \in Nat, NEW at \in {"digits", "fraction", "power"},
         NumberSoFar(at, s, a, q), s[q + 1] \in Digit
  PROVE  NumberSoFar(at, s, a, q + 1)
<1>1. PICK i, f, e \in a..q : NumberParts(at, s, a, i, f, e, q)
  BY DEF NumberSoFar
<1>2. /\ i \in Nat /\ f \in Nat /\ e \in Nat
      /\ i \in a..(q + 1) /\ f \in a..(q + 1) /\ e \in a..(q + 1)
  BY <1>1
<1>3. CASE at = "digits"
  <2>1. IsInteger(s, i, q) /\ s[i + 1] # 48
    BY <1>1, <1>3 DEF NumberParts
  <2>2. IsInteger(s, i, q + 1)
    BY <1>2, <2>1, DigitsGrow DEF IsInteger
  <2>3. NumberParts(at, s, a, i, f, e, q + 1)
    BY <1>1, <1>3, <2>1, <2>2 DEF NumberParts
  <2> QED
    BY <1>2, <2>3 DEF NumberSoFar
<1>4. CASE at = "fraction"
  <2>1. IsInteger(s, i, f) /\ s[f + 1] = 46 /\ IsDigits(s, f + 1, q)
    BY <1>1, <1>4 DEF NumberParts
  <2>2. IsDigits(s, f + 1, q + 1)
    BY <1>2, <2>1, DigitsGrow
  <2>3. NumberParts(at, s, a, i, f, e, q + 1)
    BY <1>1, <1>4, <2>1, <2>2 DEF NumberParts
  <2> QED
    BY <1>2, <2>3 DEF NumberSoFar
<1>5. CASE at = "power"
  <2>1. /\ IsInteger(s, i, f) /\ IsFraction(s, f, e) /\ e < q /\ s[e + 1] \in {69, 101}
        /\ IsPower(s, e, q)
    BY <1>1, <1>5 DEF NumberParts
  <2>2. IsPower(s, e, q + 1)
    BY <1>2, <2>1, PowerGrows
  <2>3. NumberParts(at, s, a, i, f, e, q + 1)
    BY <1>1, <1>2, <1>5, <2>1, <2>2 DEF NumberParts
  <2> QED
    BY <1>2, <2>3 DEF NumberSoFar
<1> QED
  BY <1>3, <1>4, <1>5

LEMMA ReadPoint ==
  ASSUME NEW s, NEW a \in Nat, NEW q \in Nat, NEW at \in {"zero", "digits"},
         NumberSoFar(at, s, a, q), s[q + 1] = 46
  PROVE  NumberSoFar("point", s, a, q + 1)
<1>1. PICK i, f, e \in a..q : NumberParts(at, s, a, i, f, e, q)
  BY DEF NumberSoFar
<1>2. q \in a..(q + 1) /\ i \in a..(q + 1) /\ IsInteger(s, i, q) /\ IsSign(s, a, i)
  BY <1>1 DEF NumberParts
<1>3. NumberParts("point", s, a, i, q, q, q + 1)
  BY <1>2 DEF NumberParts
<1> QED
  BY <1>2, <1>3 DEF NumberSoFar

LEMMA ReadFractionDigit ==
  ASSUME NEW s, NEW a \in Nat, NEW q \in Nat, NumberSoFar("point", s, a, q), s[q + 1] \in Digit
  PROVE  NumberSoFar("fraction", s, a, q + 1)
<1>1. PICK i, f, e \in a..q : NumberParts("point", s, a, i, f, e, q)
  BY DEF NumberSoFar
<1>2. /\ i \in a..(q + 1) /\ f \in a..(q + 1) /\ f \in Nat
      /\ IsInteger(s, i, f) /\ IsSign(s, a, i) /\ q = f + 1 /\ s[f + 1] = 46
  BY <1>1 DEF NumberParts
<1>3. IsDigits(s, f + 1, q + 1)
  BY <1>2, DigitsGrow
<1>4. NumberParts("fraction", s, a, i, f, f, q + 1)
  BY <1>2, <1>3 DEF NumberParts
<1> QED
  BY <1>2, <1>4 DEF NumberSoFar

\* The parts of a number read up to where its power may begin.
LEMMA IntegerAndFraction ==
  ASSUME NEW s, NEW a \in Nat, NEW q \in Nat, NEW at \in {"zero", "digits", "fraction"},
         NumberSoFar(at, s, a, q)
  PROVE  \E i, f \in a..q : IsSign(s, a, i) /\ IsInteger(s, i, f) /\ IsFraction(s, f, q)
<1>1. PICK i, f, e \in a..q : NumberParts(at, s, a, i, f, e, q)
  BY DEF NumberSoFar
<1>2. CASE at \in {"zero", "digits"}
  <2>1. q \in a..q /\ IsSign(s, a, i) /\ IsInteger(s, i, q) /\ IsFraction(s, q, q)
    BY <1>1, <1>2 DEF NumberParts, IsFraction
  <2> QED
    BY <1>1, <2>1
<1>3. CASE at = "fraction"
  <2>1. IsSign(s, a, i) /\ IsInteger(s, i, f) /\ s[f + 1] = 46 /\ IsDigits(s, f + 1, q)
    BY <1>1, <1>3 DEF NumberParts
  <2>2. IsFraction(s, f, q)
    BY <1>1, <2>1 DEF IsFraction, IsDigits
  <2> QED
    BY <1>1, <2>1, <2>2
<1> QED
  BY <1>2, <1>3

LEMMA ReadExponent ==
  ASSUME NEW s, NEW a \in Nat, NEW q \in Nat, NEW at \in {"zero", "digits", "fraction"},
         NumberSoFar(at, s, a, q), s[q + 1] \in {69, 101}
  PROVE  NumberSoFar("exponent", s, a, q + 1)
<1>1. PICK i, f \in a..q : IsSign(s, a, i) /\ IsInteger(s, i, f) /\ IsFraction(s, f, q)
  BY IntegerAndFraction
<1>2. i \in a..(q + 1) /\ f \in a..(q + 1) /\ q \in a..(q + 1)
  BY <1>1
<1>3. NumberParts("exponent", s, a, i, f, q, q + 1)
  BY <1>1 DEF NumberParts
<1> QED
  BY <1>2, <1>3 DEF NumberSoFar

LEMMA ReadExponentSign ==
  ASSUME NEW s, NEW a \in Nat, NEW q \in Nat, NumberSoFar("exponent", s, a, q), s[q + 1] \in {43, 45}
  PROVE  NumberSoFar("sign", s, a, q + 1)
<1>1. PICK i, f, e \in a..q : NumberParts("exponent", s, a, i, f, e, q)
  BY DEF NumberSoFar
<1>2. NumberParts("sign", s, a, i, f, e, q + 1)
  BY <1>1 DEF NumberParts
<1>3. i \in a..(q + 1) /\ f \in a..(q + 1) /\ e \in a..(q + 1)
  BY <1>1
<1> QED
  BY <1>2, <1>3 DEF NumberSoFar

LEMMA ReadExponentDigit ==
  ASSUME NEW s, NEW a \in Nat, NEW q \in Nat, NEW at \in {"exponent", "sign"},
         NumberSoFar(at, s, a, q), s[q + 1] \in Digit
  PROVE  NumberSoFar("power", s, a, q + 1)
<1>1. PICK i, f, e \in a..q : NumberParts(at, s, a, i, f, e, q)
  BY DEF NumberSoFar
<1>2. /\ IsSign(s, a, i) /\ IsInteger(s, i, f) /\ IsFraction(s, f, e) /\ s[e + 1] \in {69, 101}
      /\ q = e + 1 \/ (q = e + 2 /\ s[e + 2] \in {43, 45})
  BY <1>1 DEF NumberParts
<1>3. IsDigits(s, q, q + 1)
  BY DigitsGrow
<1>4. IsPower(s, e, q + 1) /\ e < q + 1
  BY <1>1, <1>2, <1>3 DEF IsPower
<1>5. NumberParts("power", s, a, i, f, e, q + 1)
  BY <1>1, <1>2, <1>4 DEF NumberParts
<1>6. i \in a..(q + 1) /\ f \in a..(q + 1) /\ e \in a..(q + 1)
  BY <1>1
<1> QED
  BY <1>5, <1>6 DEF NumberSoFar

LEMMA ReadNumber ==
  ASSUME NEW s, NEW a \in Nat, NEW q \in Nat, NEW at \in {"zero", "digits", "fraction", "power"},
         NumberSoFar(at, s, a, q), q < Len(s) => s[q + 1] \notin Digit
  PROVE  IsNumber(s, a, q)
<1>1. CASE at # "power"
  <2>1. PICK i, f \in a..q : IsSign(s, a, i) /\ IsInteger(s, i, f) /\ IsFraction(s, f, q)
    BY <1>1, IntegerAndFraction
  <2>2. q \in a..q /\ IsPower(s, q, q)
    BY <2>1 DEF IsPower
  <2>3. \E k, m, e \in a..q : NumberCut(s, a, k, m, e, q)
    BY <2>1, <2>2 DEF NumberCut
  <2> QED
    BY <2>3 DEF IsNumber
<1>2. CASE at = "power"
  <2>1. PICK i, f, e \in a..q : NumberParts(at, s, a, i, f, e, q)
    BY DEF NumberSoFar
  <2>2. NumberCut(s, a, i, f, e, q)
    BY <1>2, <2>1 DEF NumberParts, NumberCut
  <2> QED
    BY <2>1, <2>2 DEF IsNumber
<1> QED
  BY <1>1, <1>2

-----------------------------------------------------------------------------
\* What a byte behind a lexeme is not: it does not go on with a number.
Stops(s, b) == b < Len(s) => s[b + 1] \notin Digit \cup {46, 69, 101}

\* A number that is cut at i, f and e.
CutShape(s, i, f, e, b) ==
  /\ i < f /\ f <= e /\ e <= b
  /\ \A p \in (i + 1)..f : s[p] \in Digit
  /\ s[i + 1] = 48 => f = i + 1
  /\ f < e => /\ s[f + 1] = 46 /\ f + 1 < e
              /\ \A p \in (f + 2)..e : s[p] \in Digit
  /\ e < b => /\ s[e + 1] \in {69, 101} /\ e + 1 < b
              /\ s[e + 2] \in {43, 45} => e + 2 < b
              /\ s[e + 2] \notin {43, 45} => s[e + 2] \in Digit
              /\ \A p \in (e + 3)..b : s[p] \in Digit

LEMMA ShapeOfCut ==
  ASSUME NEW s, NEW a \in Nat, NEW b \in Nat, NEW i \in a..b, NEW f \in a..b, NEW e \in a..b,
         NumberCut(s, a, i, f, e, b)
  PROVE  CutShape(s, i, f, e, b)
<1>1. IsInteger(s, i, f) /\ IsFraction(s, f, e) /\ IsPower(s, e, b)
  BY DEF NumberCut
<1>2. i < f /\ (\A p \in (i + 1)..f : s[p] \in Digit) /\ (s[i + 1] = 48 => f = i + 1)
  BY <1>1 DEF IsInteger, IsDigits
<1>3. /\ f <= e
      /\ f < e => /\ s[f + 1] = 46 /\ f + 1 < e
                  /\ \A p \in (f + 2)..e : s[p] \in Digit
  BY <1>1 DEF IsFraction, IsDigits
<1>4. ASSUME e # b
      PROVE  /\ e + 1 < b /\ s[e + 1] \in {69, 101}
             /\ s[e + 2] \in {43, 45} => e + 2 < b
             /\ s[e + 2] \notin {43, 45} => s[e + 2] \in Digit
             /\ \A p \in (e + 3)..b : s[p] \in Digit
  <2>1. e + 1 < b /\ s[e + 1] \in {69, 101} /\ e \in Nat
    BY <1>1, <1>4 DEF IsPower
  <2>2. CASE IsDigits(s, e + 1, b)
    <3>1. \A p \in (e + 2)..b : s[p] \in Digit
      BY <2>1, <2>2 DEF IsDigits
    <3>2. s[e + 2] \in Digit
      BY <2>1, <3>1
    <3> QED
      BY <2>1, <3>1, <3>2 DEF Digit
  <2>3. CASE s[e + 2] \in {43, 45} /\ IsDigits(s, e + 2, b)
    BY <2>1, <2>3 DEF IsDigits
  <2> QED
    BY <1>1, <1>4, <2>2, <2>3 DEF IsPower
<1> QED
  BY <1>2, <1>3, <1>4 DEF CutShape

\* In the integer of a number there is a digit next.
LEMMA IntegerAhead ==
  ASSUME NEW s, NEW a \in Nat, NEW b \in Nat, NEW q \in Nat,
         IsNumber(s, a, b), NumberAhead("integer", s, a, b, q)
  PROVE  /\ q < b /\ s[q + 1] \in Digit
         /\ NumberAhead(IF s[q + 1] = 48 THEN "zero" ELSE "digits", s, a, b, q + 1)
<1>1. ASSUME NEW i \in a..b, NEW f \in a..b, NEW e \in a..b, NumberCut(s, a, i, f, e, b)
      PROVE  /\ q < b /\ s[q + 1] \in Digit
             /\ StandsIn(IF s[q + 1] = 48 THEN "zero" ELSE "digits", s, i, f, e, b, q + 1)
  <2>0. CutShape(s, i, f, e, b)
    BY <1>1, ShapeOfCut
  <2>1. q = i
    BY <1>1 DEF NumberAhead, StandsIn
  <2>2. i < f /\ (\A p \in (i + 1)..f : s[p] \in Digit) /\ (s[i + 1] = 48 => f = i + 1)
    BY <2>0 DEF CutShape
  <2> QED
    BY <2>1, <2>2 DEF StandsIn
<1> QED
  BY <1>1 DEF IsNumber, NumberAhead

\* Behind a digit the number goes on in one way, or ends where the grammar's does.
LEMMA DigitsAhead ==
  ASSUME NEW s, Len(s) \in Nat, NEW a \in Nat, NEW b \in 0..Len(s), NEW q \in Nat,
         IsNumber(s, a, b), Stops(s, b),
         NEW at \in {"zero", "digits", "fraction", "power"}, NumberAhead(at, s, a, b, q)
  PROVE  /\ q <= b
         /\ q < Len(s) /\ s[q + 1] \in Digit => at # "zero" /\ NumberAhead(at, s, a, b, q + 1)
         /\ q < Len(s) /\ s[q + 1] = 46 /\ at \in {"zero", "digits"} =>
              NumberAhead("point", s, a, b, q + 1)
         /\ q < Len(s) /\ s[q + 1] \in {69, 101} /\ at # "power" =>
              NumberAhead("exponent", s, a, b, q + 1)
         /\ q = b \/ s[q + 1] \in Digit \/ (s[q + 1] = 46 /\ at \in {"zero", "digits"})
            \/ (s[q + 1] \in {69, 101} /\ at # "power")
<1>1. ASSUME NEW i \in a..b, NEW f \in a..b, NEW e \in a..b, NumberCut(s, a, i, f, e, b)
      PROVE  /\ q <= b
             /\ q < Len(s) /\ s[q + 1] \in Digit => at # "zero" /\ StandsIn(at, s, i, f, e, b, q + 1)
             /\ q < Len(s) /\ s[q + 1] = 46 /\ at \in {"zero", "digits"} =>
                  StandsIn("point", s, i, f, e, b, q + 1)
             /\ q < Len(s) /\ s[q + 1] \in {69, 101} /\ at # "power" =>
                  StandsIn("exponent", s, i, f, e, b, q + 1)
             /\ q = b \/ s[q + 1] \in Digit \/ (s[q + 1] = 46 /\ at \in {"zero", "digits"})
                \/ (s[q + 1] \in {69, 101} /\ at # "power")
  <2>0. CutShape(s, i, f, e, b)
    BY <1>1, ShapeOfCut
  <2>1. StandsIn(at, s, i, f, e, b, q)
    BY <1>1 DEF NumberAhead
  <2>2. /\ i < f /\ f <= e /\ e <= b
        /\ \A p \in (i + 1)..f : s[p] \in Digit
        /\ f < e => /\ s[f + 1] = 46 /\ f + 1 < e
                    /\ \A p \in (f + 2)..e : s[p] \in Digit
        /\ e < b => /\ s[e + 1] \in {69, 101} /\ e + 1 < b
                    /\ s[e + 2] \in {43, 45} => e + 2 < b
                    /\ s[e + 2] \notin {43, 45} => s[e + 2] \in Digit
                    /\ \A p \in (e + 3)..b : s[p] \in Digit
    BY <2>0 DEF CutShape
  <2>3. /\ b < Len(s) => s[b + 1] \notin Digit /\ s[b + 1] \notin {46, 69, 101}
        /\ \A c \in Digit : c \notin {46, 69, 101, 43, 45}
    BY DEF Stops, Digit
  <2>4. CASE at = "zero"
    <3>1. q = f
      BY <2>1, <2>4 DEF StandsIn
    <3> QED
      BY <2>2, <2>3, <2>4, <3>1 DEF StandsIn
  <2>5. CASE at = "digits"
    <3>1. i < q /\ q <= f /\ s[i + 1] # 48
      BY <2>1, <2>5 DEF StandsIn
    <3>2. CASE q = f
      BY <2>2, <2>3, <2>5, <3>1, <3>2 DEF StandsIn
    <3>3. CASE q < f
      <4>1. s[q + 1] \in Digit
        BY <2>2, <3>1, <3>3
      <4> QED
        BY <2>2, <2>3, <2>5, <3>1, <3>3, <4>1 DEF StandsIn
    <3> QED
      BY <3>1, <3>2, <3>3
  <2>6. CASE at = "fraction"
    <3>1. f + 1 < q /\ q <= e
      BY <2>1, <2>6 DEF StandsIn
    <3>2. CASE q = e
      BY <2>2, <2>3, <2>6, <3>1, <3>2 DEF StandsIn
    <3>3. CASE q < e
      <4>1. s[q + 1] \in Digit
        BY <2>2, <3>1, <3>3
      <4> QED
        BY <2>2, <2>3, <2>6, <3>1, <3>3, <4>1 DEF StandsIn
    <3> QED
      BY <3>1, <3>2, <3>3
  <2>7. CASE at = "power"
    <3>1. e + 1 < q /\ q <= b /\ (s[e + 2] \in {43, 45} => e + 2 < q)
      BY <2>1, <2>7 DEF StandsIn
    <3>2. CASE q = b
      BY <2>2, <2>3, <2>7, <3>1, <3>2 DEF StandsIn
    <3>3. CASE q < b
      <4>1. s[q + 1] \in Digit
        BY <2>2, <3>1, <3>3
      <4> QED
        BY <2>2, <2>3, <2>7, <3>1, <3>3, <4>1 DEF StandsIn
    <3> QED
      BY <3>1, <3>2, <3>3
  <2> QED
    BY <2>4, <2>5, <2>6, <2>7
<1> QED
  BY <1>1 DEF IsNumber, NumberAhead

LEMMA PointAhead ==
  ASSUME NEW s, NEW a \in Nat, NEW b \in Nat, NEW q \in Nat,
         IsNumber(s, a, b), NumberAhead("point", s, a, b, q)
  PROVE  q < b /\ s[q + 1] \in Digit /\ NumberAhead("fraction", s, a, b, q + 1)
<1>1. ASSUME NEW i \in a..b, NEW f \in a..b, NEW e \in a..b, NumberCut(s, a, i, f, e, b)
      PROVE  q < b /\ s[q + 1] \in Digit /\ StandsIn("fraction", s, i, f, e, b, q + 1)
  <2>0. CutShape(s, i, f, e, b)
    BY <1>1, ShapeOfCut
  <2>1. q = f + 1 /\ f < e
    BY <1>1 DEF NumberAhead, StandsIn
  <2>2. e <= b /\ f + 1 < e /\ (\A p \in (f + 2)..e : s[p] \in Digit)
    BY <2>0, <2>1 DEF CutShape
  <2> QED
    BY <2>1, <2>2 DEF StandsIn
<1> QED
  BY <1>1 DEF IsNumber, NumberAhead

LEMMA ExponentAhead ==
  ASSUME NEW s, NEW a \in Nat, NEW b \in Nat, NEW q \in Nat,
         IsNumber(s, a, b), NumberAhead("exponent", s, a, b, q)
  PROVE  /\ q < b
         /\ s[q + 1] \in {43, 45} => NumberAhead("sign", s, a, b, q + 1)
         /\ s[q + 1] \notin {43, 45} => s[q + 1] \in Digit /\ NumberAhead("power", s, a, b, q + 1)
<1>1. ASSUME NEW i \in a..b, NEW f \in a..b, NEW e \in a..b, NumberCut(s, a, i, f, e, b)
      PROVE  /\ q < b
             /\ s[q + 1] \in {43, 45} => StandsIn("sign", s, i, f, e, b, q + 1)
             /\ s[q + 1] \notin {43, 45} =>
                  s[q + 1] \in Digit /\ StandsIn("power", s, i, f, e, b, q + 1)
  <2>0. CutShape(s, i, f, e, b)
    BY <1>1, ShapeOfCut
  <2>1. q = e + 1 /\ e < b
    BY <1>1 DEF NumberAhead, StandsIn
  <2>2. e + 1 < b /\ (s[e + 2] \notin {43, 45} => s[e + 2] \in Digit)
    BY <2>0, <2>1 DEF CutShape
  <2> QED
    BY <2>1, <2>2 DEF StandsIn
<1> QED
  BY <1>1 DEF IsNumber, NumberAhead

LEMMA SignAhead ==
  ASSUME NEW s, NEW a \in Nat, NEW b \in Nat, NEW q \in Nat,
         IsNumber(s, a, b), NumberAhead("sign", s, a, b, q)
  PROVE  q < b /\ s[q + 1] \in Digit /\ NumberAhead("power", s, a, b, q + 1)
<1>1. ASSUME NEW i \in a..b, NEW f \in a..b, NEW e \in a..b, NumberCut(s, a, i, f, e, b)
      PROVE  q < b /\ s[q + 1] \in Digit /\ StandsIn("power", s, i, f, e, b, q + 1)
  <2>0. CutShape(s, i, f, e, b)
    BY <1>1, ShapeOfCut
  <2>1. q = e + 2 /\ e < b /\ s[q] \in {43, 45}
    BY <1>1 DEF NumberAhead, StandsIn
  <2>2. e + 2 < b /\ (\A p \in (e + 3)..b : s[p] \in Digit)
    BY <2>0, <2>1 DEF CutShape
  <2>3. s[q + 1] \in Digit
    BY <2>1, <2>2
  <2> QED
    BY <2>1, <2>2, <2>3 DEF StandsIn
<1> QED
  BY <1>1 DEF IsNumber, NumberAhead

\* Behind the minus, or with none, number() stands before the integer.
LEMMA NumberBegins ==
  ASSUME NEW s, NEW a \in Nat, NEW b \in Nat, IsNumber(s, a, b)
  PROVE  /\ a < b /\ s[a + 1] \in Digit \cup {45}
         /\ NumberAhead("integer", s, a, b, IF s[a + 1] = 45 THEN a + 1 ELSE a)
<1>1. ASSUME NEW i \in a..b, NEW f \in a..b, NEW e \in a..b, NumberCut(s, a, i, f, e, b)
      PROVE  /\ a < b /\ s[a + 1] \in Digit \cup {45}
             /\ StandsIn("integer", s, i, f, e, b, IF s[a + 1] = 45 THEN a + 1 ELSE a)
  <2>0. CutShape(s, i, f, e, b)
    BY <1>1, ShapeOfCut
  <2>1. i < f /\ (\A p \in (i + 1)..f : s[p] \in Digit)
    BY <2>0 DEF CutShape
  <2>2. s[i + 1] \in Digit
    BY <2>1
  <2>3. i = a \/ (i = a + 1 /\ s[a + 1] = 45)
    BY <1>1 DEF NumberCut, IsSign
  <2> QED
    BY <2>1, <2>2, <2>3 DEF StandsIn, Digit
<1> QED
  BY <1>1 DEF IsNumber, NumberAhead

-----------------------------------------------------------------------------
\* One piece more.
LEMMA CutGrows ==
  ASSUME NEW s, NEW a \in Nat, NEW p \in Nat, NEW q \in Nat, NEW cuts \in SUBSET (a..p),
         IsCut(s, a, p, cuts), p < q, IsPiece(s, p, q)
  PROVE  /\ cuts \cup {q} \in SUBSET (a..q)
         /\ IsCut(s, a, q, cuts \cup {q})
<1> DEFINE more == cuts \cup {q}
<1>1. a \in cuts /\ p \in cuts /\ a <= p
  BY DEF IsCut
<1>2. more \in SUBSET (a..q) /\ a \in more /\ q \in more
  BY <1>1
<1>3. ASSUME NEW k \in more \ {q} PROVE \E m \in more : k < m /\ IsPiece(s, k, m)
  <2>1. CASE k = p
    BY <2>1
  <2>2. CASE k # p
    BY <1>3, <2>2 DEF IsCut
  <2> QED
    BY <2>1, <2>2
<1> QED
  BY <1>2, <1>3 DEF IsCut

LEMMA StringOfCut ==
  ASSUME NEW s, NEW a \in Nat, NEW q \in Nat, NEW at, NEW left,
         s[a + 1] = 34, NEW p \in (a + 1)..q, NEW cuts \in SUBSET ((a + 1)..p),
         IsCut(s, a + 1, p, cuts), BehindCut(at, s, p, left, q)
  PROVE  StringSoFar(at, s, a, left, q)
BY DEF StringSoFar

LEMMA ReadQuote ==
  ASSUME NEW s, NEW a \in Nat, NEW left, s[a + 1] = 34
  PROVE  StringSoFar("string", s, a, left, a + 1)
<1>1. IsCut(s, a + 1, a + 1, {a + 1})
  BY DEF IsCut
<1>2. BehindCut("string", s, a + 1, left, a + 1)
  BY DEF BehindCut
<1> QED
  BY <1>1, <1>2, StringOfCut

\* A piece is complete: the next begins behind it.
LEMMA ReadPiece ==
  ASSUME NEW s, NEW a \in Nat, NEW q \in Nat, NEW left,
         s[a + 1] = 34, NEW p \in (a + 1)..q, NEW cuts \in SUBSET ((a + 1)..p),
         IsCut(s, a + 1, p, cuts), IsPiece(s, p, q + 1)
  PROVE  StringSoFar("string", s, a, left, q + 1)
<1>1. p < q + 1 /\ p \in Nat /\ q + 1 \in Nat /\ a + 1 \in Nat
  OBVIOUS
<1>2. /\ cuts \cup {q + 1} \in SUBSET ((a + 1)..(q + 1))
      /\ IsCut(s, a + 1, q + 1, cuts \cup {q + 1})
  BY <1>1, CutGrows
<1>3. BehindCut("string", s, q + 1, left, q + 1)
  BY DEF BehindCut
<1> QED
  BY <1>1, <1>2, <1>3, StringOfCut

LEMMA ReadStringByte ==
  ASSUME NEW s, NEW a \in Nat, NEW q \in Nat, NEW left, NEW more,
         StringSoFar("string", s, a, left, q)
  PROVE  /\ s[q + 1] \in (32..255) \ {34, 92} => StringSoFar("string", s, a, more, q + 1)
         /\ s[q + 1] = 92 => StringSoFar("escape", s, a, more, q + 1)
<1>1. PICK p \in (a + 1)..q : \E cuts \in SUBSET ((a + 1)..p) :
        IsCut(s, a + 1, p, cuts) /\ BehindCut("string", s, p, left, q)
  BY DEF StringSoFar
<1>2. PICK cuts \in SUBSET ((a + 1)..p) :
        IsCut(s, a + 1, p, cuts) /\ BehindCut("string", s, p, left, q)
  BY <1>1
<1>3. p = q /\ s[a + 1] = 34
  BY <1>2 DEF BehindCut, StringSoFar
<1>4. ASSUME s[q + 1] \in (32..255) \ {34, 92} PROVE StringSoFar("string", s, a, more, q + 1)
  <2>1. IsPiece(s, p, q + 1)
    BY <1>3, <1>4 DEF IsPiece, IsByte
  <2> QED
    BY <1>2, <1>3, <2>1, ReadPiece
<1>5. ASSUME s[q + 1] = 92 PROVE StringSoFar("escape", s, a, more, q + 1)
  <2>1. BehindCut("escape", s, p, more, q + 1)
    BY <1>3, <1>5 DEF BehindCut
  <2>2. p \in (a + 1)..(q + 1)
    BY <1>1
  <2> QED
    BY <1>2, <1>3, <2>1, <2>2, StringOfCut
<1> QED
  BY <1>4, <1>5

LEMMA ReadEscape ==
  ASSUME NEW s, NEW a \in Nat, NEW q \in Nat, NEW left, NEW more,
         StringSoFar("escape", s, a, left, q), HexDigits \in Nat \ {0}
  PROVE  /\ s[q + 1] \in {34, 47, 92, 98, 102, 110, 114, 116} =>
              StringSoFar("string", s, a, more, q + 1)
         /\ s[q + 1] = 117 => StringSoFar("hex", s, a, HexDigits, q + 1)
<1>1. PICK p \in (a + 1)..q : \E cuts \in SUBSET ((a + 1)..p) :
        IsCut(s, a + 1, p, cuts) /\ BehindCut("escape", s, p, left, q)
  BY DEF StringSoFar
<1>2. PICK cuts \in SUBSET ((a + 1)..p) :
        IsCut(s, a + 1, p, cuts) /\ BehindCut("escape", s, p, left, q)
  BY <1>1
<1>3. q = p + 1 /\ s[p + 1] = 92 /\ s[a + 1] = 34
  BY <1>2 DEF BehindCut, StringSoFar
<1>4. ASSUME s[q + 1] \in {34, 47, 92, 98, 102, 110, 114, 116}
      PROVE  StringSoFar("string", s, a, more, q + 1)
  <2>1. IsPiece(s, p, q + 1)
    BY <1>1, <1>3, <1>4 DEF IsPiece, IsSimpleEscape
  <2> QED
    BY <1>2, <1>3, <2>1, ReadPiece
<1>5. ASSUME s[q + 1] = 117 PROVE StringSoFar("hex", s, a, HexDigits, q + 1)
  <2>1. q + 1 = p + 2 /\ s[p + 2] = 117
    BY <1>1, <1>3, <1>5
  <2>2. BehindCut("hex", s, p, HexDigits, q + 1)
    BY <1>1, <1>3, <2>1 DEF BehindCut
  <2>3. p \in (a + 1)..(q + 1)
    BY <1>1
  <2> QED
    BY <1>2, <1>3, <2>2, <2>3, StringOfCut
<1> QED
  BY <1>4, <1>5

LEMMA ReadHexDigit ==
  ASSUME NEW s, NEW a \in Nat, NEW q \in Nat, NEW left,
         StringSoFar("hex", s, a, left, q), HexDigits \in Nat \ {0},
         s[q + 1] \in Digit \cup HexLetters
  PROVE  StringSoFar(IF left = 1 THEN "string" ELSE "hex", s, a, left - 1, q + 1)
<1>1. PICK p \in (a + 1)..q : \E cuts \in SUBSET ((a + 1)..p) :
        IsCut(s, a + 1, p, cuts) /\ BehindCut("hex", s, p, left, q)
  BY DEF StringSoFar
<1>2. PICK cuts \in SUBSET ((a + 1)..p) :
        IsCut(s, a + 1, p, cuts) /\ BehindCut("hex", s, p, left, q)
  BY <1>1
<1>3. /\ left \in 1..HexDigits /\ q + left = p + 2 + HexDigits
      /\ s[p + 1] = 92 /\ s[p + 2] = 117
      /\ \A h \in (p + 3)..q : s[h] \in Digit \cup HexLetters
      /\ s[a + 1] = 34 /\ p \in Nat
  BY <1>1, <1>2 DEF BehindCut, StringSoFar
<1>4. \A h \in (p + 3)..(q + 1) : s[h] \in Digit \cup HexLetters
  <2>1. \A h \in (p + 3)..(q + 1) : h = q + 1 \/ h \in (p + 3)..q
    BY <1>3
  <2> QED
    BY <1>3, <2>1
<1>5. CASE left = 1
  <2>1. q + 1 = p + 2 + HexDigits
    BY <1>3, <1>5
  <2>2. IsPiece(s, p, q + 1)
    BY <1>3, <1>4, <2>1 DEF IsPiece, IsUnicodeEscape
  <2> QED
    BY <1>2, <1>3, <1>5, <2>2, ReadPiece
<1>6. CASE left # 1
  <2>1. left - 1 \in 1..HexDigits /\ (q + 1) + (left - 1) = p + 2 + HexDigits
    BY <1>3, <1>6
  <2>2. BehindCut("hex", s, p, left - 1, q + 1)
    BY <1>3, <1>4, <2>1 DEF BehindCut
  <2>3. p \in (a + 1)..(q + 1)
    BY <1>1
  <2> QED
    BY <1>2, <1>3, <1>6, <2>2, <2>3, StringOfCut
<1> QED
  BY <1>5, <1>6

LEMMA ReadString ==
  ASSUME NEW s, NEW a \in Nat, NEW q \in Nat, NEW left, StringSoFar("string", s, a, left, q),
         s[q + 1] = 34, isValidUtf8(SubSeq(s, a + 2, q))
  PROVE  a + 2 <= q + 1 /\ IsString(s, a, q + 1)
<1>1. PICK p \in (a + 1)..q : \E cuts \in SUBSET ((a + 1)..p) :
        IsCut(s, a + 1, p, cuts) /\ BehindCut("string", s, p, left, q)
  BY DEF StringSoFar
<1>2. PICK cuts \in SUBSET ((a + 1)..p) :
        IsCut(s, a + 1, p, cuts) /\ BehindCut("string", s, p, left, q)
  BY <1>1
<1>3. p = q /\ s[a + 1] = 34 /\ (q + 1) - 1 = q /\ a + 2 <= q + 1
  BY <1>1, <1>2 DEF BehindCut, StringSoFar
<1> QED
  BY <1>2, <1>3 DEF IsString

-----------------------------------------------------------------------------
\* In a string of the grammar the quote at its end is the first that string()
\* finds before a piece.
LEMMA StringBegins ==
  ASSUME NEW s, NEW a, NEW b, NEW left
  PROVE  StringAhead("string", s, a, b, left, a + 1)
BY DEF StringAhead, BehindCut, IsCut

LEMMA PieceNext ==
  ASSUME NEW s, NEW a \in Nat, NEW b \in Nat, s[b] = 34,
         NEW cuts \in SUBSET ((a + 1)..(b - 1)), IsCut(s, a + 1, b - 1, cuts),
         NEW p \in cuts, s[p + 1] # 34
  PROVE  p \in Nat /\ \E m \in cuts : m \in Nat /\ p < m /\ m < b /\ IsPiece(s, p, m)
<1>1. p \in Nat /\ p <= b - 1
  OBVIOUS
<1>2. p # b - 1
  BY <1>1
<1>3. PICK m \in cuts : p < m /\ IsPiece(s, p, m)
  BY <1>2 DEF IsCut
<1> QED
  BY <1>1, <1>3

LEMMA StringByteAhead ==
  ASSUME NEW s, NEW a \in Nat, NEW b \in Nat, NEW q \in Nat, NEW left, NEW more,
         IsString(s, a, b), StringAhead("string", s, a, b, left, q)
  PROVE  /\ q < b
         /\ s[q + 1] = 34 \/ s[q + 1] \in (32..255) \ {34}
         /\ s[q + 1] = 34 => q = b - 1
         /\ s[q + 1] = 92 => StringAhead("escape", s, a, b, more, q + 1)
         /\ s[q + 1] \notin {34, 92} => StringAhead("string", s, a, b, more, q + 1)
<1>0. a + 2 <= b /\ s[b] = 34
  BY DEF IsString
<1>1. ASSUME NEW cuts \in SUBSET ((a + 1)..(b - 1)), IsCut(s, a + 1, b - 1, cuts)
      PROVE  /\ q < b
             /\ s[q + 1] = 34 \/ s[q + 1] \in (32..255) \ {34}
             /\ s[q + 1] = 34 => q = b - 1
             /\ s[q + 1] = 92 => \E p \in cuts : BehindCut("escape", s, p, more, q + 1)
             /\ s[q + 1] \notin {34, 92} => \E p \in cuts : BehindCut("string", s, p, more, q + 1)
  <2>1. q \in cuts
    BY <1>1 DEF StringAhead, BehindCut
  <2>2. q < b
    BY <2>1
  <2>3. CASE s[q + 1] = 34
    <3>1. ASSUME q # b - 1 PROVE FALSE
      <4>1. PICK m \in cuts : q < m /\ IsPiece(s, q, m)
        BY <1>1, <2>1, <3>1 DEF IsCut
      <4> QED
        BY <2>3, <4>1 DEF IsPiece, IsByte, IsSimpleEscape, IsUnicodeEscape
    <3> QED
      BY <2>2, <2>3, <3>1
  <2>4. CASE s[q + 1] # 34
    <3>1. PICK m \in cuts : m \in Nat /\ q < m /\ m < b /\ IsPiece(s, q, m)
      BY <1>0, <1>1, <2>1, <2>4, PieceNext
    <3>2. s[q + 1] \in (32..255) \ {34}
      BY <3>1 DEF IsPiece, IsByte, IsSimpleEscape, IsUnicodeEscape
    <3>3. s[q + 1] = 92 => BehindCut("escape", s, q, more, q + 1)
      BY DEF BehindCut
    <3>4. s[q + 1] # 92 => m = q + 1 /\ BehindCut("string", s, m, more, q + 1)
      BY <3>1 DEF BehindCut, IsPiece, IsByte, IsSimpleEscape, IsUnicodeEscape
    <3> QED
      BY <2>1, <2>2, <2>4, <3>1, <3>2, <3>3, <3>4
  <2> QED
    BY <2>3, <2>4
<1>2. PICK cuts \in SUBSET ((a + 1)..(b - 1)) : IsCut(s, a + 1, b - 1, cuts)
  BY DEF IsString
<1> QED
  BY <1>1, <1>2 DEF StringAhead

LEMMA EscapeAhead ==
  ASSUME NEW s, NEW a \in Nat, NEW b \in Nat, NEW q \in Nat, NEW left, NEW more,
         HexDigits \in Nat \ {0}, IsString(s, a, b), StringAhead("escape", s, a, b, left, q)
  PROVE  /\ q < b
         /\ s[q + 1] \in {34, 47, 92, 98, 102, 110, 114, 116, 117}
         /\ s[q + 1] # 117 => StringAhead("string", s, a, b, more, q + 1)
         /\ s[q + 1] = 117 => StringAhead("hex", s, a, b, HexDigits, q + 1)
<1>0. a + 2 <= b /\ s[b] = 34
  BY DEF IsString
<1>1. ASSUME NEW cuts \in SUBSET ((a + 1)..(b - 1)), IsCut(s, a + 1, b - 1, cuts)
      PROVE  /\ q < b
             /\ s[q + 1] \in {34, 47, 92, 98, 102, 110, 114, 116, 117}
             /\ s[q + 1] # 117 => \E p \in cuts : BehindCut("string", s, p, more, q + 1)
             /\ s[q + 1] = 117 => \E p \in cuts : BehindCut("hex", s, p, HexDigits, q + 1)
  <2>1. PICK p \in cuts : q = p + 1 /\ s[p + 1] = 92
    BY <1>1 DEF StringAhead, BehindCut
  <2>2. p \in Nat
    OBVIOUS
  <2>3. PICK m \in cuts : m \in Nat /\ p < m /\ m < b /\ IsPiece(s, p, m)
    BY <1>0, <1>1, <2>1, PieceNext
  <2>4. CASE IsSimpleEscape(s, p, m)
    <3>1. m = q + 1 /\ s[q + 1] \in {34, 47, 92, 98, 102, 110, 114, 116}
      BY <2>1, <2>2, <2>4 DEF IsSimpleEscape
    <3>2. BehindCut("string", s, m, more, q + 1)
      BY <3>1 DEF BehindCut
    <3> QED
      BY <2>3, <3>1, <3>2
  <2>5. CASE IsUnicodeEscape(s, p, m)
    <3>1. m = p + 2 + HexDigits /\ s[p + 2] = 117 /\ q + 1 = p + 2
      BY <2>1, <2>2, <2>5 DEF IsUnicodeEscape
    <3>2. BehindCut("hex", s, p, HexDigits, q + 1)
      BY <2>1, <2>2, <3>1 DEF BehindCut
    <3> QED
      BY <2>2, <2>3, <3>1, <3>2
  <2>6. ~IsByte(s, p, m)
    BY <2>1, <2>2 DEF IsByte
  <2> QED
    BY <2>3, <2>4, <2>5, <2>6 DEF IsPiece
<1>2. PICK cuts \in SUBSET ((a + 1)..(b - 1)) : IsCut(s, a + 1, b - 1, cuts)
  BY DEF IsString
<1> QED
  BY <1>1, <1>2 DEF StringAhead

LEMMA HexAhead ==
  ASSUME NEW s, NEW a \in Nat, NEW b \in Nat, NEW q \in Nat, NEW left,
         HexDigits \in Nat \ {0}, IsString(s, a, b), StringAhead("hex", s, a, b, left, q)
  PROVE  /\ q < b
         /\ s[q + 1] \in Digit \cup HexLetters
         /\ StringAhead(IF left = 1 THEN "string" ELSE "hex", s, a, b, left - 1, q + 1)
<1>0. a + 2 <= b /\ s[b] = 34
  BY DEF IsString
<1> DEFINE at == IF left = 1 THEN "string" ELSE "hex"
<1>1. ASSUME NEW cuts \in SUBSET ((a + 1)..(b - 1)), IsCut(s, a + 1, b - 1, cuts)
      PROVE  /\ q < b
             /\ s[q + 1] \in Digit \cup HexLetters
             /\ \E p \in cuts : BehindCut(at, s, p, left - 1, q + 1)
  <2>1. PICK p \in cuts : BehindCut("hex", s, p, left, q)
    BY <1>1 DEF StringAhead
  <2>2. /\ p \in Nat /\ left \in 1..HexDigits /\ q + left = p + 2 + HexDigits
        /\ s[p + 1] = 92 /\ s[p + 2] = 117
        /\ \A h \in (p + 3)..q : s[h] \in Digit \cup HexLetters
    BY <2>1 DEF BehindCut
  <2>3. PICK m \in cuts : m \in Nat /\ p < m /\ m < b /\ IsPiece(s, p, m)
    BY <1>0, <1>1, <2>2, PieceNext
  <2>4. ~IsByte(s, p, m) /\ ~IsSimpleEscape(s, p, m)
    <3>1. ~IsByte(s, p, m)
      BY <2>2 DEF IsByte
    <3>2. ~IsSimpleEscape(s, p, m)
      BY <2>2 DEF IsSimpleEscape
    <3> QED
      BY <3>1, <3>2
  <2>5. /\ m = p + 2 + HexDigits
        /\ \A h \in (p + 3)..m : s[h] \in Digit \cup HexLetters
    BY <2>3, <2>4 DEF IsPiece, IsUnicodeEscape
  <2>6. q < b /\ q + 1 \in (p + 3)..m
    BY <2>2, <2>3, <2>5
  <2>7. s[q + 1] \in Digit \cup HexLetters
    BY <2>5, <2>6
  <2>8. CASE left = 1
    <3>1. m = q + 1
      BY <2>2, <2>5, <2>8
    <3>2. BehindCut(at, s, m, left - 1, q + 1)
      BY <2>8, <3>1 DEF BehindCut
    <3> QED
      BY <2>3, <2>6, <2>7, <3>2
  <2>9. CASE left # 1
    <3>1. left - 1 \in 1..HexDigits /\ (q + 1) + (left - 1) = p + 2 + HexDigits
      BY <2>2, <2>9
    <3>2. \A h \in (p + 3)..(q + 1) : s[h] \in Digit \cup HexLetters
      BY <2>2, <2>5, <2>6
    <3>3. BehindCut(at, s, p, left - 1, q + 1)
      BY <2>2, <2>9, <3>1, <3>2 DEF BehindCut
    <3> QED
      BY <2>6, <2>7, <3>3
  <2> QED
    BY <2>8, <2>9
<1>2. PICK cuts \in SUBSET ((a + 1)..(b - 1)) : IsCut(s, a + 1, b - 1, cuts)
  BY DEF IsString
<1> HIDE DEF at
<1>3. q < b /\ s[q + 1] \in Digit \cup HexLetters
  BY <1>1, <1>2
<1>4. StringAhead(at, s, a, b, left - 1, q + 1)
  BY <1>1 DEF StringAhead
<1> QED
  BY <1>3, <1>4 DEF at

-----------------------------------------------------------------------------
\* The lexer's tables are the grammar's.
LEMMA PunctuationTable ==
  /\ DOMAIN Punctuation = {44, 58, 91, 93, 123, 125}
  /\ \A c \in DOMAIN Punctuation :
       Punctuation[c] \in DOMAIN PunctuatorBytes /\ PunctuatorBytes[Punctuation[c]] = c
  /\ \A type \in DOMAIN PunctuatorBytes :
       PunctuatorBytes[type] \in DOMAIN Punctuation /\ Punctuation[PunctuatorBytes[type]] = type
<1>1. DOMAIN PunctuatorBytes =
        {"LeftBrace", "RightBrace", "LeftBracket", "RightBracket", "Colon", "Comma"}
  BY DEF PunctuatorBytes
<1>2. DOMAIN Punctuation = {44, 58, 91, 93, 123, 125}
  BY DEF Punctuation
<1>3. /\ Punctuation[123] = "LeftBrace" /\ Punctuation[125] = "RightBrace"
      /\ Punctuation[91] = "LeftBracket" /\ Punctuation[93] = "RightBracket"
      /\ Punctuation[58] = "Colon" /\ Punctuation[44] = "Comma"
  BY DEF Punctuation
<1> QED
  BY <1>1, <1>2, <1>3 DEF PunctuatorBytes

LEMMA KeywordTable ==
  /\ \A word \in DOMAIN Keywords :
       Keywords[word] \in DOMAIN WordBytesOf /\ WordBytesOf[Keywords[word]] = word
  /\ \A type \in DOMAIN WordBytesOf :
       WordBytesOf[type] \in DOMAIN Keywords /\ Keywords[WordBytesOf[type]] = type
<1> DEFINE t == <<116, 114, 117, 101>>
           f == <<102, 97, 108, 115, 101>>
           n == <<110, 117, 108, 108>>
<1>1. t # f /\ t # n /\ f # n
  OBVIOUS
<1>2. WordBytesOf = [True |-> t, False |-> f, Null |-> n]
  BY DEF WordBytesOf
<1>3. /\ DOMAIN Keywords = {t, f, n}
      /\ Keywords[t] = "True" /\ Keywords[f] = "False" /\ Keywords[n] = "Null"
  <2>1. Keywords = [word \in {t, f, n} |->
          CASE word = t -> "True" [] word = f -> "False" [] word = n -> "Null"]
    BY DEF Keywords
  <2> HIDE DEF t, f, n
  <2> QED
    BY <1>1, <2>1
<1> HIDE DEF t, f, n
<1> QED
  BY <1>2, <1>3

LEMMA WordShape ==
  ASSUME NEW type \in DOMAIN WordBytesOf
  PROVE  LET w == WordBytesOf[type]
         IN  /\ w \in Seq(Nat) /\ Len(w) \in {4, 5}
             /\ \A k \in 1..Len(w) : w[k] \in Letters
<1> DEFINE w == WordBytesOf[type]
<1>1. type \in {"True", "False", "Null"}
  BY DEF WordBytesOf
<1>2. CASE type = "True"
  <2>1. w = <<116, 114, 117, 101>>
    BY <1>2 DEF WordBytesOf
  <2> QED
    BY <2>1 DEF Letters
<1>3. CASE type = "False"
  <2>1. w = <<102, 97, 108, 115, 101>>
    BY <1>3 DEF WordBytesOf
  <2> QED
    BY <2>1 DEF Letters
<1>4. CASE type = "Null"
  <2>1. w = <<110, 117, 108, 108>>
    BY <1>4 DEF WordBytesOf
  <2> QED
    BY <2>1 DEF Letters
<1> QED
  BY <1>1, <1>2, <1>3, <1>4

-----------------------------------------------------------------------------
\* What the proofs ask of a token: it ends where or behind where it begins.
Ranged(ts) ==
  \A k \in 1..Len(ts) : ts[k].position \in Nat /\ ts[k].start \in Nat /\ ts[k].length \in Nat

LEMMA EndIsNat ==
  ASSUME NEW ts, Len(ts) \in Nat, Ranged(ts), NEW k \in 1..(Len(ts) + 1)
  PROVE  EndBefore(ts, k) \in Nat /\ (k <= Len(ts) => EndOf(ts[k]) \in Nat)
<1>1. \A j \in 1..Len(ts) : EndOf(ts[j]) \in Nat
  BY DEF Ranged, EndOf, Skip
<1>2. k # 1 => k - 1 \in 1..Len(ts)
  OBVIOUS
<1>3. k <= Len(ts) => k \in 1..Len(ts)
  OBVIOUS
<1> QED
  BY <1>1, <1>2, <1>3 DEF EndBefore

\* White space behind the tokens does not change what has been read.
LEMMA ReadBlank ==
  ASSUME NEW s, NEW ts, NEW n \in Nat, Len(ts) \in Nat, Ranged(ts), Reads(s, ts, n), s[n + 1] \in Blank
  PROVE  Reads(s, ts, n + 1)
<1>1. EndBefore(ts, Len(ts) + 1) \in Nat
  BY EndIsNat
<1>2. IsBlank(s, EndBefore(ts, Len(ts) + 1), n + 1)
  <2>1. IsBlank(s, EndBefore(ts, Len(ts) + 1), n)
    BY DEF Reads
  <2>2. \A p : p \in (EndBefore(ts, Len(ts) + 1) + 1)..(n + 1) =>
          p = n + 1 \/ p \in (EndBefore(ts, Len(ts) + 1) + 1)..n
    BY <1>1
  <2> QED
    BY <1>1, <2>1, <2>2 DEF IsBlank
<1>3. \A k \in 1..Len(ts) : EndOf(ts[k]) <= n => EndOf(ts[k]) <= n + 1
  BY EndIsNat
<1> QED
  BY <1>2, <1>3 DEF Reads

\* A lexeme behind the tokens is read as one token more.
LEMMA ReadLexeme ==
  ASSUME NEW s, NEW T, NEW ts \in Seq(T), NEW t \in T, Ranged(ts),
         t.position \in Nat, EndOf(t) \in Nat, t.position <= EndOf(t),
         Reads(s, ts, t.position), IsLexeme(s, t)
  PROVE  Reads(s, Append(ts, t), EndOf(t))
<1> DEFINE more == Append(ts, t)
           n == Len(ts)
<1>1. /\ n \in Nat /\ Len(more) = n + 1 /\ more[n + 1] = t
      /\ \A k \in 1..n : more[k] = ts[k]
  BY LenProperties, AppendProperties
<1> HIDE DEF more
<1>2. \A k \in 1..(n + 1) : EndBefore(more, k) = EndBefore(ts, k)
  <2>1. \A k \in 1..(n + 1) : k = 1 \/ k - 1 \in 1..n
    BY <1>1
  <2> QED
    BY <1>1, <2>1 DEF EndBefore
<1>3. EndBefore(more, n + 2) = EndOf(t)
  BY <1>1 DEF EndBefore
<1>4. ASSUME NEW k \in 1..(n + 1)
      PROVE  /\ EndOf(more[k]) <= EndOf(t)
             /\ IsBlank(s, EndBefore(more, k), more[k].position)
             /\ IsLexeme(s, more[k])
  <2>1. CASE k = n + 1
    BY <1>1, <1>2, <2>1 DEF Reads
  <2>2. CASE k # n + 1
    <3>1. k \in 1..n
      BY <1>1, <2>2
    <3>2. EndOf(ts[k]) \in Nat
      BY <1>1, <3>1, EndIsNat
    <3> QED
      BY <1>1, <1>2, <3>1, <3>2 DEF Reads
  <2> QED
    BY <2>1, <2>2
<1>5. IsBlank(s, EndOf(t), EndOf(t))
  BY DEF IsBlank
<1> QED
  BY <1>1, <1>3, <1>4, <1>5 DEF Reads, more

-----------------------------------------------------------------------------
\* The bytes from a to b.
LEMMA SubSeqBytes ==
  ASSUME NEW s \in Seq(Byte), NEW a \in Nat, NEW b \in Nat, a <= b, b <= Len(s)
  PROVE  /\ Len(SubSeq(s, a + 1, b)) = b - a
         /\ \A k \in 1..(b - a) : SubSeq(s, a + 1, b)[k] = s[a + k]
         /\ a < b => SubSeq(s, a + 1, b)[1] = s[a + 1]
<1>1. Len(s) \in Nat /\ a + 1 \in 1..(Len(s) + 1) /\ b \in ((a + 1) - 1)..Len(s)
  BY LenProperties
<1>2. /\ Len(SubSeq(s, a + 1, b)) = IF a + 1 <= b THEN b - (a + 1) + 1 ELSE 0
      /\ \A k \in 1..(b - (a + 1) + 1) : SubSeq(s, a + 1, b)[k] = s[(a + 1) + k - 1]
  BY <1>1, SubSeqProperties
<1>3. \A k \in 1..(b - a) : k \in 1..(b - (a + 1) + 1) /\ (a + 1) + k - 1 = a + k
  OBVIOUS
<1>4. a < b => 1 \in 1..(b - a)
  OBVIOUS
<1> QED
  BY <1>2, <1>3, <1>4

\* The byte a lexeme begins with tells its kind.
LEMMA FirstByteTells ==
  ASSUME NEW s \in Seq(Byte), NEW t \in TokenRange, IsLexeme(s, t), EndOf(t) <= Len(s)
  PROVE  LET c == s[t.position + 1]
         IN  /\ t.position < EndOf(t)
             /\ \/ /\ c \in DOMAIN Punctuation
                   /\ t.type = Punctuation[c] /\ t.start = t.position /\ t.length = 1
                \/ c = 34 /\ t.type = "String" /\ IsString(s, t.position, EndOf(t))
                \/ c \in Digit \cup {45} /\ t.type = "Number" /\ IsNumber(s, t.position, EndOf(t))
                \/ c \in Letters /\ t.type \in DOMAIN WordBytesOf /\ IsWord(t.type, s, t.position, EndOf(t))
             /\ t.start = t.position + Skip(t.type)
<1> DEFINE a == t.position
           b == EndOf(t)
           c == s[a + 1]
<1>0. /\ a \in Nat /\ t.start \in Nat /\ t.length \in Nat /\ b \in Nat /\ Len(s) \in Nat /\ b <= Len(s)
      /\ t.start = a + Skip(t.type) /\ b = t.start + t.length + Skip(t.type)
      /\ "String" \notin DOMAIN PunctuatorBytes /\ "String" \notin DOMAIN WordBytesOf
  BY LenProperties DEF TokenRange, EndOf, Skip, IsLexeme, PunctuatorBytes, WordBytesOf
<1>1. CASE IsPunctuator(t.type, s, a, b)
  <2>1. t.type \in DOMAIN PunctuatorBytes /\ b = a + 1 /\ c = PunctuatorBytes[t.type]
    BY <1>1 DEF IsPunctuator
  <2>2. Skip(t.type) = 0
    BY <1>0, <2>1 DEF Skip
  <2>3. c \in DOMAIN Punctuation /\ t.type = Punctuation[c]
    BY <2>1, PunctuationTable
  <2> HIDE DEF a, b, c
  <2>4. t.start = a /\ t.length = 1 /\ a < b
    BY <1>0, <2>1, <2>2
  <2> QED
    BY <1>0, <2>3, <2>4 DEF a, b, c
<1>2. CASE t.type = "Number" /\ IsNumber(s, a, b)
  BY <1>0, <1>2, NumberBegins
<1>3. CASE t.type = "String" /\ IsString(s, a, b)
  <2>1. a + 2 <= b /\ c = 34
    BY <1>3 DEF IsString
  <2> QED
    BY <1>0, <1>3, <2>1
<1>4. CASE IsWord(t.type, s, a, b)
  <2> DEFINE w == WordBytesOf[t.type]
  <2>1. t.type \in DOMAIN WordBytesOf /\ SubSeq(s, a + 1, b) = w
    BY <1>4 DEF IsWord
  <2>2. Len(w) \in {4, 5} /\ \A k \in 1..Len(w) : w[k] \in Letters
    BY <2>1, WordShape
  <2> HIDE DEF w
  <2>3. a < b
    <3>1. b >= a
      BY <1>0, <2>1 DEF Skip
    <3>2. Len(SubSeq(s, a + 1, b)) = b - a
      BY <1>0, <3>1, SubSeqBytes
    <3> QED
      BY <1>0, <2>1, <2>2, <3>1, <3>2
  <2>4. Len(w) = b - a /\ w[1] = c
    <3>1. b \in Nat /\ a \in Nat /\ a <= b /\ a < b /\ b <= Len(s)
      BY <1>0, <2>3
    <3> HIDE DEF a, b
    <3> QED
      BY <2>1, <3>1, SubSeqBytes
  <2>5. c \in Letters
    BY <2>2, <2>4
  <2> QED
    BY <1>0, <1>4, <2>1, <2>3, <2>5
<1> QED
  BY <1>1, <1>2, <1>3, <1>4 DEF IsLexeme

\* A word ends at the first byte that is not a letter.
LEMMA WordBytes ==
  ASSUME NEW s \in Seq(Byte), NEW a \in Nat, NEW b \in 0..Len(s), a < b, NEW type, IsWord(type, s, a, b)
  PROVE  /\ \A p \in (a + 1)..b : s[p] \in Letters
         /\ b < Len(s) => s[b + 1] \notin Letters
         /\ SubSeq(s, a + 1, b) \in DOMAIN Keywords
         /\ Keywords[SubSeq(s, a + 1, b)] = type
<1> DEFINE w == WordBytesOf[type]
<1>0. Len(s) \in Nat /\ b \in Nat
  BY LenProperties
<1>1. type \in DOMAIN WordBytesOf /\ SubSeq(s, a + 1, b) = w /\ (b < Len(s) => s[b + 1] \notin Letters)
  BY DEF IsWord
<1>2. \A k \in 1..Len(w) : w[k] \in Letters
  BY <1>1, WordShape
<1>3. w \in DOMAIN Keywords /\ Keywords[w] = type
  BY <1>1, KeywordTable
<1> HIDE DEF w
<1>4. Len(w) = b - a /\ \A k \in 1..(b - a) : w[k] = s[a + k]
  <2>1. a <= b /\ b <= Len(s)
    BY <1>0
  <2>2. /\ Len(SubSeq(s, a + 1, b)) = b - a
        /\ \A k \in 1..(b - a) : SubSeq(s, a + 1, b)[k] = s[a + k]
    BY <1>0, <2>1, SubSeqBytes
  <2> QED
    BY <1>1, <2>2
<1>5. ASSUME NEW p \in (a + 1)..b PROVE s[p] \in Letters
  <2>1. p - a \in 1..(b - a) /\ a + (p - a) = p
    BY <1>0
  <2> QED
    BY <1>0, <1>2, <1>4, <2>1
<1> QED
  BY <1>1, <1>3, <1>5

-----------------------------------------------------------------------------
\* A byte that is not white space, met behind a lexeme of a reading and not
\* behind the beginning of the next, is that beginning.
LEMMA NextLexeme ==
  ASSUME NEW s \in Seq(Byte), NEW r, IsReading(s, r), NEW k \in 1..(Len(r) + 1), NEW q \in Nat,
         EndBefore(r, k) <= q, k <= Len(r) => q <= r[k].position, q < Len(s), s[q + 1] \notin Blank
  PROVE  k <= Len(r) /\ r[k].position = q
<1>1. /\ r \in Seq(TokenRange) /\ Len(r) \in Nat /\ Len(s) \in Nat
      /\ \A j \in 1..Len(r) : r[j] \in TokenRange
  BY LenProperties, ElementOfSeq DEF IsReading
<1>2. Ranged(r)
  BY <1>1 DEF Ranged, TokenRange
<1>3. EndBefore(r, k) \in Nat
  BY <1>1, <1>2, EndIsNat
<1>4. CASE k = Len(r) + 1
  <2>1. IsBlank(s, EndBefore(r, k), Len(s))
    BY <1>4 DEF IsReading, Reads
  <2>2. q + 1 \in (EndBefore(r, k) + 1)..Len(s)
    BY <1>1, <1>3
  <2> QED
    BY <2>1, <2>2 DEF IsBlank
<1>5. CASE k <= Len(r)
  <2>1. r[k].position \in Nat /\ IsBlank(s, EndBefore(r, k), r[k].position) /\ q <= r[k].position
    BY <1>1, <1>2, <1>5 DEF IsReading, Reads, Ranged
  <2>2. q < r[k].position => q + 1 \in (EndBefore(r, k) + 1)..(r[k].position)
    BY <1>3, <2>1
  <2> QED
    BY <1>5, <2>1, <2>2 DEF IsBlank
<1> QED
  BY <1>1, <1>4, <1>5

\* What stands behind a lexeme of a reading does not go on with a number.
LEMMA LexemeStops ==
  ASSUME NEW s \in Seq(Byte), NEW r, IsReading(s, r), NEW k \in 1..Len(r), r[k].type = "Number"
  PROVE  Stops(s, EndOf(r[k]))
<1> DEFINE b == EndOf(r[k])
<1>1. /\ r \in Seq(TokenRange) /\ Len(r) \in Nat /\ Len(s) \in Nat /\ k \in Nat
      /\ \A j \in 1..Len(r) : r[j] \in TokenRange
  BY LenProperties, ElementOfSeq DEF IsReading
<1>2. Ranged(r)
  BY <1>1 DEF Ranged, TokenRange
<1>3. b \in Nat /\ b <= Len(s) /\ EndBefore(r, k + 1) = b
  BY <1>1, <1>2, EndIsNat DEF EndBefore, IsReading, Reads
<1>4. SUFFICES ASSUME b < Len(s) PROVE s[b + 1] \notin Digit \cup {46, 69, 101}
  BY DEF Stops
<1>5. s[b + 1] \notin Digit
  <2>1. IsLexeme(s, r[k])
    BY DEF IsReading, Reads
  <2>2. "Number" \notin DOMAIN PunctuatorBytes /\ "Number" \notin DOMAIN WordBytesOf
    BY DEF PunctuatorBytes, WordBytesOf
  <2>3. IsNumber(s, r[k].position, b)
    BY <2>1, <2>2 DEF IsLexeme, IsPunctuator, IsWord
  <2> QED
    BY <1>4, <2>3 DEF IsNumber
<1>6. CASE s[b + 1] \in Blank
  <2>1. s[b + 1] \in {9, 10, 13, 32}
    BY <1>6 DEF Blank
  <2> HIDE DEF b
  <2> QED
    BY <2>1, <1>5
<1>7. CASE s[b + 1] \notin Blank
  <2>1. k + 1 \in 1..(Len(r) + 1)
    BY <1>1
  <2>2. k + 1 <= Len(r) => b <= r[k + 1].position
    <3>1. k + 1 <= Len(r) => IsBlank(s, EndBefore(r, k + 1), r[k + 1].position)
      BY <1>1 DEF IsReading, Reads
    <3> QED
      BY <1>3, <3>1 DEF IsBlank
  <2>3. k + 1 <= Len(r) /\ r[k + 1].position = b
    BY <1>3, <1>4, <1>7, <2>1, <2>2, NextLexeme
  <2>4. /\ r[k + 1] \in TokenRange /\ IsLexeme(s, r[k + 1]) /\ EndOf(r[k + 1]) <= Len(s)
    BY <1>1, <2>3 DEF IsReading, Reads
  <2> DEFINE c == s[b + 1]
             t == r[k + 1]
  <2>5. \/ c \in DOMAIN Punctuation
        \/ c = 34
        \/ c \in Digit \cup {45}
        \/ c \in Letters /\ t.type \in DOMAIN WordBytesOf /\ IsWord(t.type, s, t.position, EndOf(t))
    BY <2>3, <2>4, FirstByteTells
  <2>6. c \in Letters /\ t.type \in DOMAIN WordBytesOf /\ IsWord(t.type, s, b, EndOf(t))
          => c \in {116, 102, 110}
    <3> SUFFICES ASSUME t.type \in DOMAIN WordBytesOf, IsWord(t.type, s, b, EndOf(t)),
                        c \in Letters
                 PROVE  c \in {116, 102, 110}
      OBVIOUS
    <3>1. SubSeq(s, b + 1, EndOf(t)) = WordBytesOf[t.type]
      BY DEF IsWord
    <3>2. EndOf(t) \in Nat /\ b < EndOf(t) /\ EndOf(t) <= Len(s)
      <4>1. EndOf(t) \in Nat
        BY <1>1, <1>2, <2>1, <2>3, EndIsNat
      <4>2. t.position < EndOf(t)
        BY <2>4, FirstByteTells
      <4> QED
        BY <2>3, <2>4, <4>1, <4>2
    <3>3. WordBytesOf[t.type][1] = c
      <4> DEFINE e == EndOf(t)
      <4>1. e \in Nat /\ b <= e /\ b < e /\ e <= Len(s) /\ b \in Nat
        BY <1>3, <3>2
      <4> HIDE DEF e, b, t
      <4>2. SubSeq(s, b + 1, e)[1] = s[b + 1]
        BY <4>1, SubSeqBytes
      <4> QED
        BY <3>1, <4>2 DEF e
    <3>4. t.type \in {"True", "False", "Null"} => WordBytesOf[t.type][1] \in {116, 102, 110}
      BY DEF WordBytesOf
    <3>5. DOMAIN WordBytesOf = {"True", "False", "Null"}
      BY DEF WordBytesOf
    <3> QED
      BY <3>3, <3>4, <3>5
  <2>7. c \in {44, 58, 91, 93, 123, 125, 34, 45, 116, 102, 110} \cup Digit
    BY <2>3, <2>5, <2>6, PunctuationTable
  <2> QED
    BY <1>5, <2>7
<1> QED
  BY <1>6, <1>7

-----------------------------------------------------------------------------
\* What a step finds: the byte looked at, and tokens that end where they should.
LEMMA Looking ==
  ASSUME Inv
  PROVE  /\ source \in Seq(Byte) /\ Len(source) \in Nat /\ position \in Nat /\ position <= Len(source)
         /\ tokens \in Seq(Token) /\ Len(tokens) \in Nat /\ Ranged(tokens)
         /\ token.position \in Nat /\ token.position <= position /\ start \in Nat
         /\ HexDigits \in Nat \ {0}
         /\ ~isAtEnd => position < Len(source) /\ Peek = source[position + 1]
         /\ isAtEnd => position = Len(source) /\ Peek = Nul
<1>1. /\ source \in Seq(Byte) /\ Len(source) \in Nat /\ position \in Nat /\ position <= Len(source)
      /\ tokens \in Seq(Token) /\ Len(tokens) \in Nat
      /\ token.position \in Nat /\ token.position <= position /\ start \in Nat
  BY LenProperties DEF Inv, TypeOK, TokenBegun, Byte
<1>2. \A k \in 1..Len(tokens) : tokens[k] \in Token
  BY <1>1, ElementOfSeq
<1>3. Ranged(tokens)
  BY <1>2 DEF Ranged, Token
<1> QED
  BY <1>1, <1>3, LexerAssumption DEF isAtEnd, Peek

\* The lexer's classes of bytes are the grammar's.
LEMMA Classes ==
  /\ \A c : (isDigit(c) <=> c \in Digit) /\ (isAlpha(c) <=> c \in Letters)
  /\ \A c : (isHex(c) <=> c \in Digit \cup HexLetters) /\ (isExponent(c) <=> c \in {69, 101})
  /\ White = Blank /\ SimpleEscapes = {34, 47, 92, 98, 102, 110, 114, 116}
  /\ ~isDigit(Nul) /\ ~isAlpha(Nul) /\ ~isHex(Nul) /\ ~isExponent(Nul)
  /\ Nul \notin White /\ Nul \notin SimpleEscapes
  /\ Nul = 0 /\ Quote = 34 /\ Backslash = 92 /\ Plus = 43 /\ Minus = 45 /\ Point = 46
  /\ Zero = 48 /\ LowerU = 117 /\ Control = 0..31
BY DEF isDigit, isAlpha, isHex, isExponent, White, SimpleEscapes, Digit, Letters, HexLetters, Blank,
   Nul, Quote, Backslash, Plus, Minus, Point, Zero, LowerU, Control

\* A token appended whose lexeme ends where the lexer now is.
LEMMA PushReads ==
  ASSUME Inv, NEW type \in TypeNames, NEW at, NEW first \in Nat, NEW length \in Nat,
         at.position \in Nat, NEW end \in Nat, at.position <= end,
         LET t == makeToken(type, at, first, length) IN IsLexeme(source, t) /\ EndOf(t) = end,
         Reads(source, tokens, at.position)
  PROVE  Reads(source, Append(tokens, makeToken(type, at, first, length)), end)
<1> DEFINE t == makeToken(type, at, first, length)
           T == Token \cup {t}
<1>1. tokens \in Seq(Token) /\ Ranged(tokens)
  BY Looking
<1>2. tokens \in Seq(T)
  <2>1. Len(tokens) \in Nat /\ tokens = [k \in 1..Len(tokens) |-> tokens[k]]
        /\ \A k \in 1..Len(tokens) : tokens[k] \in T
    <3> HIDE DEF t
    <3> QED
      BY <1>1, LenProperties, ElementOfSeq
  <2> HIDE DEF T
  <2> QED
    BY <2>1, IsASeq
<1>3. t.position = at.position /\ t \in T
  BY DEF makeToken
<1> HIDE DEF T, t
<1> QED
  BY <1>1, <1>2, <1>3, ReadLexeme DEF t

LEMMA TokenizeReads ==
  ASSUME Inv, ReadSoFar,
         \/ skipWhitespace \/ Punctuate \/ BeginString \/ BeginNumber \/ BeginKeyword
         \/ Unexpected \/ PushEof
  PROVE  ReadSoFar'
<1> DEFINE s == source
           q == position
<1>1. /\ source \in Seq(Byte) /\ position \in Nat /\ Len(tokens) \in Nat /\ Ranged(tokens)
      /\ ~isAtEnd => position < Len(source) /\ Peek = source[position + 1]
      /\ isAtEnd => Peek = Nul
  BY Looking
<1>2. pc = "next" /\ source' = source /\ Reads(source, tokens, position)
  BY DEF ReadSoFar, skipWhitespace, Punctuate, BeginString, BeginNumber, BeginKeyword, Unexpected,
     PushEof, Consume, Push, Begin
<1>3. CASE skipWhitespace
  <2>1. /\ pc' = "next" /\ UNCHANGED <<source, tokens>> /\ position' = position + 1
        /\ source[position + 1] \in Blank
    BY <1>1, <1>3, Classes DEF skipWhitespace, Consume, advance
  <2>2. Reads(source, tokens, position + 1)
    BY <1>1, <1>2, <2>1, ReadBlank
  <2> QED
    BY <2>1, <2>2 DEF ReadSoFar, NumberPoints, StringPoints
<1>4. CASE Punctuate
  <2> DEFINE type == Punctuation[Peek]
             t == makeToken(type, Here, position, 1)
  <2>1. /\ pc' = "next" /\ UNCHANGED source /\ position' = position + 1 /\ tokens' = Append(tokens, t)
        /\ Peek = source[position + 1] /\ Peek \in DOMAIN Punctuation
    BY <1>1, <1>4 DEF Punctuate, Push, advance
  <2>2. type \in TypeNames /\ type \in DOMAIN PunctuatorBytes /\ PunctuatorBytes[type] = Peek
    BY <2>1, PunctuationTable DEF TypeNames
  <2>3. type # "String"
    BY <2>2 DEF PunctuatorBytes
  <2> HIDE DEF type
  <2>4. EndOf(t) = position + 1 /\ t.start = t.position + Skip(t.type) /\ t.position = position
        /\ t.type = type
    BY <1>1, <2>3 DEF EndOf, Skip, makeToken, Here
  <2>5. IsLexeme(source, t)
    BY <1>1, <2>1, <2>2, <2>4 DEF IsLexeme, IsPunctuator
  <2>6. Here.position = position
    BY DEF Here
  <2>7. Reads(source, Append(tokens, t), position + 1)
    BY <1>1, <1>2, <2>2, <2>4, <2>5, <2>6, PushReads
  <2> QED
    BY <2>1, <2>7 DEF ReadSoFar, NumberPoints, StringPoints
<1>5. CASE BeginString
  <2>1. /\ UNCHANGED <<source, tokens, hexLeft>> /\ position' = position + 1 /\ token'.position = position
        /\ start' = position + 1 /\ pc' = "string" /\ source[position + 1] = 34
    BY <1>1, <1>5, Classes DEF BeginString, Begin, advance, Here
  <2>2. StringSoFar("string", source, position, hexLeft, position + 1)
    BY <1>1, <2>1, ReadQuote
  <2> QED
    BY <1>2, <2>1, <2>2 DEF ReadSoFar, NumberPoints, StringPoints
<1>6. CASE BeginNumber
  <2>1. /\ UNCHANGED <<source, tokens>> /\ token'.position = position
        /\ start' = position /\ pc' = "integer"
        /\ \/ position' = position
           \/ position' = position + 1 /\ source[position + 1] = 45
    BY <1>1, <1>6, Classes DEF BeginNumber, Begin, advance, stay, Here
  <2>2. /\ NumberParts("integer", source, position, position', position, position, position')
        /\ position \in position..position' /\ position' \in position..position'
    BY <1>1, <2>1 DEF NumberParts, IsSign
  <2>3. NumberSoFar("integer", source, position, position')
    BY <2>2 DEF NumberSoFar
  <2> QED
    BY <1>2, <2>1, <2>3 DEF ReadSoFar, NumberPoints, StringPoints
<1>7. CASE BeginKeyword
  <2>1. UNCHANGED <<source, tokens>> /\ token'.position = position /\ start' = position /\ pc' = "keyword"
    BY <1>7 DEF BeginKeyword, Begin, Here
  <2> QED
    BY <1>2, <2>1 DEF ReadSoFar, NumberPoints, StringPoints
<1>8. CASE Unexpected
  <2>1. UNCHANGED <<source, tokens>> /\ token'.position = position /\ pc' = "failed"
    BY <1>8 DEF Unexpected, Here
  <2> QED
    BY <1>2, <2>1 DEF ReadSoFar, NumberPoints, StringPoints
<1>9. CASE PushEof
  BY <1>9 DEF PushEof, ReadSoFar, NumberPoints, StringPoints
<1> QED
  BY <1>3, <1>4, <1>5, <1>6, <1>7, <1>8, <1>9

\* A step inside a lexeme, which leaves the tokens as they are.
LEMMA InsideReads ==
  ASSUME ReadSoFar, pc \notin {"next", "done"}, pc' \notin {"next", "done"},
         UNCHANGED <<source, tokens, token, start>>,
         pc' \in NumberPoints =>
           start = token.position /\ NumberSoFar(pc', source, token.position, position'),
         pc' \in StringPoints =>
           start = token.position + 1 /\ StringSoFar(pc', source, token.position, hexLeft', position'),
         pc' = "keyword" => start = token.position
  PROVE  ReadSoFar'
BY DEF ReadSoFar

LEMMA StringReads ==
  ASSUME Inv, ReadSoFar,
         \/ StringByte \/ StringControl \/ BeginEscape \/ SimpleEscape \/ UnicodeEscape
         \/ BadEscape \/ HexDigit \/ BadHexDigit \/ Unterminated \/ CloseString
  PROVE  ReadSoFar'
<1> DEFINE a == token.position
<1>1. /\ source \in Seq(Byte) /\ Len(source) \in Nat /\ position \in Nat /\ a \in Nat /\ a <= position
      /\ HexDigits \in Nat \ {0}
      /\ ~isAtEnd => position < Len(source) /\ Peek = source[position + 1]
      /\ isAtEnd => Peek = Nul
  BY Looking
<1>2. /\ pc \in {"string", "escape", "hex"} /\ start = a + 1
      /\ StringSoFar(pc, source, a, hexLeft, position) /\ Reads(source, tokens, a)
  BY DEF ReadSoFar, StringPoints, StringByte, StringControl, BeginEscape, SimpleEscape, UnicodeEscape,
     BadEscape, HexDigit, BadHexDigit, Unterminated, CloseString
<1>3. ASSUME UNCHANGED <<source, tokens, token, start>>,
             pc' = "failed" \/ (pc' \in StringPoints /\ StringSoFar(pc', source, a, hexLeft', position'))
      PROVE  ReadSoFar'
  BY <1>2, <1>3, InsideReads DEF NumberPoints, StringPoints
<1>4. CASE StringByte \/ BeginEscape
  <2>1. ~isAtEnd /\ pc = "string"
    BY <1>4, NotAtEnd, Classes DEF StringByte, BeginEscape
  <2>2. source[position + 1] \in Byte
    BY <1>1, <2>1, ElementOfSeq
  <2>3. CASE StringByte
    <3>0. Peek \notin 0..31 /\ Peek \notin {34, 92}
      BY <2>3, Classes DEF StringByte
    <3>1. source[position + 1] \in (32..255) \ {34, 92}
      <4>1. Peek = source[position + 1] /\ Peek \in Byte
        BY <1>1, <2>1, <2>2
      <4>2. \A c \in Byte : c \notin 0..31 /\ c \notin {34, 92} => c \in (32..255) \ {34, 92}
        BY DEF Byte
      <4> QED
        BY <3>0, <4>1, <4>2
    <3>2. StringSoFar("string", source, a, hexLeft, position + 1)
      BY <1>1, <1>2, <2>1, <3>1, ReadStringByte
    <3> QED
      BY <1>3, <2>3, <3>2 DEF StringByte, Consume, advance, StringPoints
  <2>4. CASE BeginEscape
    <3>1. source[position + 1] = 92
      BY <1>1, <2>1, <2>4, Classes DEF BeginEscape
    <3>2. StringSoFar("escape", source, a, hexLeft, position + 1)
      BY <1>1, <1>2, <2>1, <3>1, ReadStringByte
    <3> QED
      BY <1>3, <2>4, <3>2 DEF BeginEscape, Consume, advance, StringPoints
  <2> QED
    BY <1>4, <2>3, <2>4
<1>5. CASE SimpleEscape
  <2>1. pc = "escape" /\ source[position + 1] \in {34, 47, 92, 98, 102, 110, 114, 116}
    BY <1>1, <1>5, Classes DEF SimpleEscape
  <2>2. StringSoFar("string", source, a, hexLeft, position + 1)
    BY <1>1, <1>2, <2>1, ReadEscape
  <2> QED
    BY <1>3, <1>5, <2>2 DEF SimpleEscape, Consume, advance, StringPoints
<1>6. CASE UnicodeEscape
  <2>1. pc = "escape" /\ source[position + 1] = 117
    BY <1>1, <1>6, Classes DEF UnicodeEscape
  <2>2. StringSoFar("hex", source, a, HexDigits, position + 1)
    BY <1>1, <1>2, <2>1, ReadEscape
  <2> QED
    BY <1>3, <1>6, <2>2 DEF UnicodeEscape, advance, StringPoints
<1>7. CASE HexDigit
  <2>1. pc = "hex" /\ source[position + 1] \in Digit \cup HexLetters
    BY <1>1, <1>7, Classes DEF HexDigit
  <2>2. StringSoFar(IF hexLeft = 1 THEN "string" ELSE "hex", source, a, hexLeft - 1, position + 1)
    BY <1>1, <1>2, <2>1, ReadHexDigit
  <2> QED
    BY <1>3, <1>7, <2>2 DEF HexDigit, advance, StringPoints
<1>8. CASE StringControl \/ BadEscape \/ BadHexDigit \/ Unterminated
  BY <1>3, <1>8 DEF StringControl, BadEscape, BadHexDigit, Unterminated, FailHere, FailAfter, Fail
<1>9. CASE CloseString
  <2>1. pc = "string" /\ source[position + 1] = 34 /\ position' = position + 1 /\ source' = source
    BY <1>1, <1>9, Classes DEF CloseString, advance, Push, Fail
  <2>2. CASE Fail("UTF-8", token.line, token.column)
    BY <1>3, <2>2 DEF Fail
  <2>3. CASE /\ isValidUtf8(Bytes(start, position - start)) /\ UNCHANGED token
             /\ Push(makeToken("String", token, start, position - start))
    <3> DEFINE t == makeToken("String", token, start, position - start)
    <3>0. start + 1 = a + 2 /\ start + (position - start) = position
      BY <1>1, <1>2
    <3>1. Bytes(start, position - start) = SubSeq(source, a + 2, position)
      BY <3>0 DEF Bytes
    <3>2. a + 2 <= position + 1 /\ IsString(source, a, position + 1)
      BY <1>1, <1>2, <2>1, <2>3, <3>1, ReadString
    <3>3. /\ t.type = "String" /\ t.position = a /\ t.start = a + Skip(t.type)
          /\ EndOf(t) = position + 1
      BY <1>1, <1>2 DEF makeToken, EndOf, Skip
    <3>4. IsLexeme(source, t)
      BY <3>2, <3>3 DEF IsLexeme
    <3>5. "String" \in TypeNames /\ start \in Nat /\ position - start \in Nat /\ a <= position + 1
      BY <1>1, <1>2, <3>2 DEF TypeNames
    <3>6. Reads(source, Append(tokens, t), position + 1)
      BY <1>1, <1>2, <3>3, <3>4, <3>5, PushReads
    <3> QED
      BY <2>1, <2>3, <3>6 DEF ReadSoFar, Push, NumberPoints, StringPoints
  <2> QED
    BY <1>9, <2>2, <2>3 DEF CloseString
<1> QED
  BY <1>4, <1>5, <1>6, <1>7, <1>8, <1>9

LEMMA NumberReads ==
  ASSUME Inv, ReadSoFar,
         \/ IntegerDigit \/ NoInteger \/ LeadingZero \/ MoreDigits \/ Fraction
         \/ FractionDigit \/ Exponent \/ ExponentSign \/ ExponentDigit \/ EndNumber
  PROVE  ReadSoFar'
<1> DEFINE a == token.position
<1>1. /\ source \in Seq(Byte) /\ Len(source) \in Nat /\ position \in Nat /\ a \in Nat /\ a <= position
      /\ ~isAtEnd => position < Len(source) /\ Peek = source[position + 1]
      /\ isAtEnd => Peek = Nul
  BY Looking
<1>2. /\ pc \in NumberPoints /\ start = a
      /\ NumberSoFar(pc, source, a, position) /\ Reads(source, tokens, a)
  BY DEF ReadSoFar, NumberPoints, IntegerDigit, NoInteger, LeadingZero, MoreDigits, Fraction,
     FractionDigit, Exponent, ExponentSign, ExponentDigit, EndNumber
<1>3. ASSUME UNCHANGED <<source, tokens, token, start>>,
             pc' = "failed" \/ (pc' \in NumberPoints /\ NumberSoFar(pc', source, a, position'))
      PROVE  ReadSoFar'
  BY <1>2, <1>3, InsideReads DEF NumberPoints, StringPoints
<1>4. ASSUME NEW to \in NumberPoints, Consume(to), NumberSoFar(to, source, a, position + 1)
      PROVE  ReadSoFar'
  BY <1>3, <1>4 DEF Consume, advance
<1>5. ASSUME NEW why, FailHere(why) PROVE ReadSoFar'
  BY <1>3, <1>5 DEF FailHere, Fail
<1>6. CASE IntegerDigit
  <2>1. pc = "integer" /\ source[position + 1] \in Digit /\ (Peek = Zero <=> source[position + 1] = 48)
    BY <1>1, <1>6, Classes DEF IntegerDigit
  <2>2. NumberSoFar(IF Peek = Zero THEN "zero" ELSE "digits", source, a, position + 1)
    BY <1>1, <1>2, <2>1, ReadIntegerDigit
  <2> QED
    BY <1>4, <1>6, <2>2 DEF IntegerDigit, NumberPoints
<1>7. CASE MoreDigits
  <2>1. pc \in {"digits", "fraction", "power"} /\ source[position + 1] \in Digit
    BY <1>1, <1>7, Classes DEF MoreDigits
  <2>2. NumberSoFar(pc, source, a, position + 1)
    BY <1>1, <1>2, <2>1, ReadMoreDigits
  <2> QED
    BY <1>2, <1>4, <1>7, <2>2 DEF MoreDigits
<1>8. CASE Fraction
  <2>1. pc \in {"zero", "digits"} /\ source[position + 1] = 46
    BY <1>1, <1>8, Classes DEF Fraction
  <2>2. NumberSoFar("point", source, a, position + 1)
    BY <1>1, <1>2, <2>1, ReadPoint
  <2> QED
    BY <1>4, <1>8, <2>2 DEF Fraction, NumberPoints
<1>9. CASE FractionDigit /\ isDigit(Peek) /\ Consume("fraction")
  <2>1. pc = "point" /\ source[position + 1] \in Digit
    BY <1>1, <1>9, Classes DEF FractionDigit
  <2>2. NumberSoFar("fraction", source, a, position + 1)
    BY <1>1, <1>2, <2>1, ReadFractionDigit
  <2> QED
    BY <1>4, <1>9, <2>2 DEF NumberPoints
<1>10. CASE Exponent
  <2>1. pc \in {"zero", "digits", "fraction"} /\ source[position + 1] \in {69, 101}
    BY <1>1, <1>10, Classes DEF Exponent
  <2>2. NumberSoFar("exponent", source, a, position + 1)
    BY <1>1, <1>2, <2>1, ReadExponent
  <2> QED
    BY <1>4, <1>10, <2>2 DEF Exponent, NumberPoints
<1>11. CASE ExponentSign
  <2>1. pc = "exponent" /\ source[position + 1] \in {43, 45}
    BY <1>1, <1>11, Classes DEF ExponentSign
  <2>2. NumberSoFar("sign", source, a, position + 1)
    BY <1>1, <1>2, <2>1, ReadExponentSign
  <2> QED
    BY <1>4, <1>11, <2>2 DEF ExponentSign, NumberPoints
<1>12. CASE ExponentDigit /\ isDigit(Peek) /\ Consume("power")
  <2>1. pc \in {"exponent", "sign"} /\ source[position + 1] \in Digit
    BY <1>1, <1>12, Classes DEF ExponentDigit
  <2>2. NumberSoFar("power", source, a, position + 1)
    BY <1>1, <1>2, <2>1, ReadExponentDigit
  <2> QED
    BY <1>4, <1>12, <2>2 DEF NumberPoints
<1>13. CASE NoInteger \/ LeadingZero \/ FailHere("fraction") \/ FailHere("exponent")
  BY <1>5, <1>13 DEF NoInteger, LeadingZero
<1>14. CASE EndNumber
  <2> DEFINE t == makeToken("Number", token, start, position - start)
  <2>1. /\ pc \in {"zero", "digits", "fraction", "power"} /\ ~isDigit(Peek)
        /\ position' = position /\ source' = source /\ pc' = "next" /\ tokens' = Append(tokens, t)
    BY <1>14 DEF EndNumber, NumberGoesOn, stay, Push
  <2>2. position < Len(source) => source[position + 1] \notin Digit
    BY <1>1, <2>1, Classes DEF isAtEnd
  <2>3. IsNumber(source, a, position)
    BY <1>1, <1>2, <2>1, <2>2, ReadNumber
  <2>4. t.type = "Number" /\ t.position = a /\ t.start = a + Skip(t.type) /\ EndOf(t) = position
    BY <1>1, <1>2 DEF makeToken, EndOf, Skip
  <2>5. IsLexeme(source, t)
    BY <2>3, <2>4 DEF IsLexeme
  <2>6. "Number" \in TypeNames /\ start \in Nat /\ position - start \in Nat
    BY <1>1, <1>2 DEF TypeNames
  <2>7. Reads(source, Append(tokens, t), position)
    BY <1>1, <1>2, <2>4, <2>5, <2>6, PushReads
  <2> QED
    BY <2>1, <2>7 DEF ReadSoFar, NumberPoints, StringPoints
<1> QED
  BY <1>6, <1>7, <1>8, <1>9, <1>10, <1>11, <1>12, <1>13, <1>14 DEF FractionDigit, ExponentDigit

LEMMA KeywordReads ==
  ASSUME Inv, ReadSoFar, Letter \/ EndKeyword
  PROVE  ReadSoFar'
<1> DEFINE a == token.position
<1>1. /\ source \in Seq(Byte) /\ Len(source) \in Nat /\ position \in Nat /\ a \in Nat /\ a <= position
      /\ ~isAtEnd => position < Len(source) /\ Peek = source[position + 1]
      /\ isAtEnd => Peek = Nul
  BY Looking
<1>2. pc = "keyword" /\ start = a /\ Reads(source, tokens, a)
  BY DEF ReadSoFar, Letter, EndKeyword
<1>3. ASSUME UNCHANGED <<source, tokens, token, start>>, pc' \in {"failed", "keyword"}
      PROVE  ReadSoFar'
  BY <1>2, <1>3, InsideReads DEF NumberPoints, StringPoints
<1>4. CASE Letter
  BY <1>3, <1>4 DEF Letter, Consume
<1>5. CASE EndKeyword
  <2> DEFINE word == Bytes(start, position - start)
             type == Keywords[word]
             t == makeToken(type, token, start, position - start)
  <2>1. CASE FailHere("keyword")
    BY <1>3, <2>1 DEF FailHere, Fail
  <2>2. CASE word \in DOMAIN Keywords /\ stay /\ Push(t) /\ UNCHANGED token
    <3>1. /\ position' = position /\ source' = source /\ pc' = "next" /\ tokens' = Append(tokens, t)
      BY <2>2 DEF stay, Push
    <3>2. word = SubSeq(source, a + 1, position)
      BY <1>1, <1>2 DEF Bytes
    <3>3. type \in TypeNames /\ type \in DOMAIN WordBytesOf /\ WordBytesOf[type] = word
      BY <2>2, KeywordTable DEF TypeNames
    <3>4. position < Len(source) => source[position + 1] \notin Letters
      BY <1>1, <1>5, Classes DEF EndKeyword, isAtEnd
    <3>5. IsWord(type, source, a, position)
      BY <3>2, <3>3, <3>4 DEF IsWord
    <3>6. type # "String"
      BY <3>3 DEF WordBytesOf
    <3> HIDE DEF type
    <3>7. t.type = type /\ t.position = a /\ t.start = a + Skip(t.type) /\ EndOf(t) = position
      BY <1>1, <1>2, <3>6 DEF makeToken, EndOf, Skip
    <3>8. IsLexeme(source, t)
      BY <3>5, <3>7 DEF IsLexeme
    <3>9. start \in Nat /\ position - start \in Nat
      BY <1>1, <1>2
    <3>10. Reads(source, Append(tokens, t), position)
      BY <1>1, <1>2, <3>3, <3>7, <3>8, <3>9, PushReads
    <3> QED
      BY <3>1, <3>10 DEF ReadSoFar, NumberPoints, StringPoints
  <2> QED
    BY <1>5, <2>1, <2>2 DEF EndKeyword
<1> QED
  BY <1>4, <1>5

LEMMA InitReads == Init => ReadSoFar
<1> SUFFICES ASSUME Init PROVE Reads(source, tokens, 0)
  BY DEF Init, ReadSoFar, NumberPoints, StringPoints
<1>1. Len(tokens) = 0
  BY DEF Init
<1> QED
  BY <1>1 DEF Reads, EndBefore, IsBlank

LEMMA NextReads == Inv /\ ReadSoFar /\ [Next]_vars => ReadSoFar'
<1>1. ASSUME Inv, ReadSoFar, Lex PROVE ReadSoFar'
  BY <1>1, TokenizeReads, StringReads, NumberReads, KeywordReads DEF Lex
<1>2. ASSUME ReadSoFar, UNCHANGED vars PROVE ReadSoFar'
  BY <1>2 DEF vars, ReadSoFar
<1> QED
  BY <1>1, <1>2 DEF Next, Ended

\* An exception is about the first lexeme that is wrong, in a text of any length.
THEOREM FirstBadLexeme == Spec => []ErrorInFirstBadLexeme
<1>1. ReadSoFar => ErrorInFirstBadLexeme
  BY DEF ReadSoFar, ErrorInFirstBadLexeme
<1> QED
  BY <1>1, InitImpliesInv, NextKeepsInv, InitReads, NextReads, PTL DEF Spec

-----------------------------------------------------------------------------
\* The lexemes of a reading.
LEMMA LexemesOf ==
  ASSUME Inv, NEW r, IsReading(source, r)
  PROVE  /\ r \in Seq(TokenRange) /\ Len(r) \in Nat /\ Ranged(r)
         /\ \A k \in 1..Len(r) :
              /\ r[k] \in TokenRange /\ IsLexeme(source, r[k])
              /\ EndOf(r[k]) \in Nat /\ EndOf(r[k]) <= Len(source)
         /\ \A k \in 1..(Len(r) + 1) : EndBefore(r, k) \in Nat
<1>1. /\ r \in Seq(TokenRange) /\ Len(r) \in Nat
      /\ \A j \in 1..Len(r) : r[j] \in TokenRange
  BY LenProperties, ElementOfSeq DEF IsReading
<1>2. Ranged(r)
  BY <1>1 DEF Ranged, TokenRange
<1>3. \A k \in 1..Len(r) : k \in 1..(Len(r) + 1) /\ k <= Len(r)
  BY <1>1
<1> QED
  BY <1>1, <1>2, <1>3, EndIsNat DEF IsReading, Reads

\* The lexer appends the next token of the reading, and stands behind its lexeme.
LEMMA PushAlong ==
  ASSUME Inv, NEW r, IsReading(source, r), Along(r), pc # "done", Len(tokens) < Len(r),
         NEW t, RangeOf(t) = r[Len(tokens) + 1], tokens' = Append(tokens, t),
         source' = source, pc' = "next", position' = EndOf(r[Len(tokens) + 1])
  PROVE  Along(r)'
<1> DEFINE m == Len(tokens)
<1>1. /\ m \in Nat /\ tokens \in Seq(Token) /\ Len(r) \in Nat
  BY Looking, LexemesOf
<1>2. Len(tokens') = m + 1 /\ tokens'[m + 1] = t /\ \A k \in 1..m : tokens'[k] = tokens[k]
  <2>1. tokens \in Seq(Token \cup {t})
    <3>1. Len(tokens) \in Nat /\ tokens = [k \in 1..Len(tokens) |-> tokens[k]]
          /\ \A k \in 1..Len(tokens) : tokens[k] \in Token \cup {t}
      BY <1>1, LenProperties, ElementOfSeq
    <3> QED
      BY <3>1, IsASeq
  <2> QED
    BY <2>1, AppendProperties
<1>3. ASSUME NEW k \in 1..(m + 1) PROVE RangeOf(tokens'[k]) = r[k]
  <2>1. CASE k = m + 1
    BY <1>2, <2>1
  <2>2. CASE k # m + 1
    <3>1. k \in 1..m
      BY <1>1, <2>2
    <3> QED
      BY <1>2, <3>1 DEF Along
  <2> QED
    BY <2>1, <2>2
<1>4. EndBefore(r, m + 2) = EndOf(r[m + 1]) /\ EndOf(r[m + 1]) \in Nat
  BY <1>1, LexemesOf DEF EndBefore
<1>5. m + 1 < Len(r) => EndOf(r[m + 1]) <= r[m + 2].position
  <2>1. m + 1 < Len(r) => IsBlank(source, EndBefore(r, m + 2), r[m + 2].position)
    BY <1>1 DEF IsReading, Reads
  <2> QED
    BY <1>4, <2>1 DEF IsBlank
<1> QED
  BY <1>1, <1>2, <1>3, <1>4, <1>5 DEF Along, NumberPoints, StringPoints

\* A step that begins a lexeme, or goes on inside it.
LEMMA InsideAlong ==
  ASSUME NEW r, Along(r), pc # "done", UNCHANGED <<source, tokens>>,
         pc' \notin {"next", "done", "failed"},
         Len(tokens) < Len(r), r[Len(tokens) + 1].position = token'.position,
         LET t == r[Len(tokens) + 1]
             a == token'.position
         IN  /\ pc' \in NumberPoints =>
                  t.type = "Number" /\ NumberAhead(pc', source, a, EndOf(t), position')
             /\ pc' \in StringPoints =>
                  t.type = "String" /\ StringAhead(pc', source, a, EndOf(t), hexLeft', position')
             /\ pc' = "keyword" => t.type \in DOMAIN WordBytesOf /\ position' <= EndOf(t)
  PROVE  Along(r)'
BY DEF Along

\* The next lexeme of the reading begins where the lexer meets a byte that is
\* not white space.
LEMMA MeetsLexeme ==
  ASSUME Inv, NEW r, IsReading(source, r), Along(r), pc = "next", ~isAtEnd, Peek \notin White
  PROVE  LET t == r[Len(tokens) + 1]
         IN  /\ Len(tokens) < Len(r) /\ t.position = position
             /\ t \in TokenRange /\ IsLexeme(source, t) /\ EndOf(t) \in Nat /\ EndOf(t) <= Len(source)
<1> DEFINE m == Len(tokens)
<1>1. /\ source \in Seq(Byte) /\ m \in Nat /\ position \in Nat /\ position < Len(source)
      /\ source[position + 1] \notin Blank
  BY Looking, Classes
<1>2. /\ m + 1 \in 1..(Len(r) + 1) /\ EndBefore(r, m + 1) <= position
      /\ m + 1 <= Len(r) => position <= r[m + 1].position
      /\ Len(r) \in Nat
  BY <1>1, LexemesOf DEF Along
<1>3. m + 1 <= Len(r) /\ r[m + 1].position = position
  BY <1>1, <1>2, NextLexeme
<1>4. m + 1 \in 1..Len(r) /\ m < Len(r)
  BY <1>1, <1>2, <1>3
<1> QED
  BY <1>3, <1>4, LexemesOf

LEMMA TokenizeAlong ==
  ASSUME Inv, NEW r, IsReading(source, r), Along(r),
         \/ skipWhitespace \/ Punctuate \/ BeginString \/ BeginNumber \/ BeginKeyword
         \/ Unexpected \/ PushEof
  PROVE  Along(r)'
<1> DEFINE m == Len(tokens)
           t == r[m + 1]
           b == EndOf(t)
           c == source[position + 1]
<1>1. /\ source \in Seq(Byte) /\ Len(source) \in Nat /\ position \in Nat /\ position <= Len(source)
      /\ m \in Nat /\ tokens \in Seq(Token)
      /\ ~isAtEnd => position < Len(source) /\ Peek = source[position + 1]
      /\ isAtEnd => position = Len(source) /\ Peek = Nul
  BY Looking
<1>2. /\ r \in Seq(TokenRange) /\ Len(r) \in Nat
      /\ \A k \in 1..(Len(r) + 1) : EndBefore(r, k) \in Nat
      /\ \A k \in 1..Len(r) : r[k] \in TokenRange
  BY LexemesOf
<1>3. /\ pc = "next" /\ source' = source /\ m <= Len(r) /\ \A k \in 1..m : RangeOf(tokens[k]) = r[k]
      /\ EndBefore(r, m + 1) <= position /\ (m < Len(r) => position <= t.position)
  BY DEF Along, skipWhitespace, Punctuate, BeginString, BeginNumber, BeginKeyword, Unexpected,
     PushEof, Consume, Push, Begin
<1>4. ASSUME ~isAtEnd, Peek \notin White
      PROVE  /\ m < Len(r) /\ t.position = position /\ t \in TokenRange /\ IsLexeme(source, t)
             /\ b \in Nat /\ b <= Len(source) /\ t.start = position + Skip(t.type) /\ position < b
             /\ \/ c \in DOMAIN Punctuation /\ t.type = Punctuation[c] /\ t.length = 1
                \/ c = 34 /\ t.type = "String" /\ IsString(source, position, b)
                \/ c \in Digit \cup {45} /\ t.type = "Number" /\ IsNumber(source, position, b)
                \/ c \in Letters /\ t.type \in DOMAIN WordBytesOf /\ IsWord(t.type, source, position, b)
  <2>1. /\ m < Len(r) /\ t.position = position /\ t \in TokenRange /\ IsLexeme(source, t)
        /\ b \in Nat /\ b <= Len(source)
    BY <1>3, <1>4, MeetsLexeme
  <2> HIDE DEF t
  <2> QED
    BY <1>1, <2>1, FirstByteTells
<1>5. CASE skipWhitespace
  <2>1. /\ UNCHANGED <<source, tokens>> /\ pc' = "next" /\ position' = position + 1
        /\ ~isAtEnd /\ c \in Blank
    BY <1>1, <1>5, Classes, NotAtEnd DEF skipWhitespace, Consume, advance
  <2>2. ASSUME m < Len(r) PROVE position + 1 <= t.position
    <3>1. m + 1 \in 1..Len(r)
      BY <1>1, <1>2, <2>2
    <3>2. t \in TokenRange /\ IsLexeme(source, t) /\ EndOf(t) <= Len(source)
      BY <3>1, LexemesOf
    <3> DEFINE d == source[t.position + 1]
    <3>3. d \in DOMAIN Punctuation \/ d = 34 \/ d \in Digit \cup {45} \/ d \in Letters
      <4> HIDE DEF t
      <4> QED
        BY <1>1, <3>2, FirstByteTells
    <3>4. d \notin Blank
      <4>1. d \in {44, 58, 91, 93, 123, 125, 34, 45} \cup Digit \cup Letters
        BY <3>3, PunctuationTable
      <4> HIDE DEF d
      <4> QED
        BY <4>1 DEF Blank, Digit, Letters
    <3>5. t.position # position
      BY <2>1, <3>4
    <3>6. t.position \in Nat
      BY <3>2 DEF TokenRange
    <3> QED
      BY <1>1, <1>3, <2>2, <3>5, <3>6
  <2>3. EndBefore(r, m + 1) <= position + 1
    <3>1. m + 1 \in 1..(Len(r) + 1)
      BY <1>1, <1>2, <1>3
    <3>2. EndBefore(r, m + 1) \in Nat
      BY <1>2, <3>1
    <3> QED
      BY <1>1, <1>3, <3>2
  <2> HIDE DEF t
  <2>4. m < Len(r) => position + 1 <= r[m + 1].position
    BY <2>2 DEF t
  <2> QED
    BY <1>3, <2>1, <2>3, <2>4 DEF Along, NumberPoints, StringPoints
<1>6. CASE Punctuate
  <2> DEFINE x == makeToken(Punctuation[Peek], Here, position, 1)
  <2>1. /\ ~isAtEnd /\ Peek = c /\ c \in DOMAIN Punctuation /\ pc' = "next"
        /\ tokens' = Append(tokens, x) /\ position' = position + 1
    BY <1>1, <1>6 DEF Punctuate, Push, advance
  <2>2. c \in {44, 58, 91, 93, 123, 125}
    BY <2>1, PunctuationTable
  <2>3. Peek \notin White
    BY <2>1, <2>2, Classes DEF Blank
  <2>4. m < Len(r) /\ t.position = position /\ t.type = Punctuation[c] /\ t.length = 1
        /\ t.start = position + Skip(t.type) /\ t \in TokenRange
    <3>1. c # 34 /\ c \notin Digit \cup {45} /\ c \notin Letters
      BY <2>2 DEF Digit, Letters
    <3> HIDE DEF t, b, c
    <3> QED
      BY <1>4, <2>1, <2>3, <3>1
  <2>5. Skip(t.type) = 0
    <3>1. Punctuation[c] \in DOMAIN PunctuatorBytes
      BY <2>1, PunctuationTable
    <3> QED
      BY <2>4, <3>1 DEF Skip, PunctuatorBytes
  <2>6. t.start = position /\ b = position + 1
    <3> HIDE DEF t
    <3> QED
      BY <1>1, <2>4, <2>5 DEF EndOf
  <2>7. RangeOf(x) = t
    <3>1. t = [type |-> t.type, position |-> t.position, start |-> t.start, length |-> t.length]
      BY <2>4 DEF TokenRange
    <3> HIDE DEF t
    <3> QED
      BY <2>1, <2>4, <2>6, <3>1 DEF RangeOf, makeToken, Here
  <2> HIDE DEF x
  <2> QED
    BY <1>3, <2>1, <2>4, <2>6, <2>7, PushAlong
<1>7. CASE BeginString
  <2>1. /\ ~isAtEnd /\ Peek = 34 /\ c = 34 /\ pc' = "string" /\ UNCHANGED <<source, tokens>>
        /\ token'.position = position /\ position' = position + 1 /\ Peek \notin White
    BY <1>1, <1>7, Classes, NotAtEnd DEF BeginString, Begin, advance, Here, Blank
  <2>2. m < Len(r) /\ t.position = position /\ t.type = "String"
    <3>1. c \notin DOMAIN Punctuation /\ c \notin Digit \cup {45} /\ c \notin Letters
      BY <2>1, PunctuationTable DEF Digit, Letters
    <3> HIDE DEF t, b, c
    <3> QED
      BY <1>4, <2>1, <3>1
  <2>3. StringAhead("string", source, position, b, hexLeft', position + 1)
    BY StringBegins
  <2> QED
    BY <1>3, <2>1, <2>2, <2>3, InsideAlong DEF NumberPoints, StringPoints
<1>8. CASE BeginNumber
  <2>1. /\ ~isAtEnd /\ Peek = c /\ c \in Digit \cup {45} /\ pc' = "integer"
        /\ UNCHANGED <<source, tokens>> /\ token'.position = position
        /\ position' = IF c = 45 THEN position + 1 ELSE position
    BY <1>1, <1>8, Classes, NotAtEnd DEF BeginNumber, Begin, advance, stay, Here
  <2>2. c \notin DOMAIN Punctuation /\ c # 34 /\ c \notin Letters /\ Peek \notin White
    BY <2>1, PunctuationTable, Classes DEF Digit, Letters, Blank
  <2>3. m < Len(r) /\ t.position = position /\ t.type = "Number" /\ IsNumber(source, position, b)
        /\ b \in Nat
    <3> HIDE DEF t, b, c
    <3> QED
      BY <1>4, <2>1, <2>2
  <2>4. NumberAhead("integer", source, position, b, position')
    BY <1>1, <2>1, <2>3, NumberBegins
  <2> QED
    BY <1>3, <2>1, <2>3, <2>4, InsideAlong DEF NumberPoints, StringPoints
<1>9. CASE BeginKeyword
  <2>1. /\ ~isAtEnd /\ Peek = c /\ c \in Letters /\ pc' = "keyword"
        /\ UNCHANGED <<source, tokens>> /\ token'.position = position /\ position' = position
    BY <1>1, <1>9, Classes, NotAtEnd DEF BeginKeyword, Begin, stay, Here
  <2>2. c \notin DOMAIN Punctuation /\ c # 34 /\ c \notin Digit \cup {45} /\ Peek \notin White
    BY <2>1, PunctuationTable, Classes DEF Digit, Letters, Blank
  <2>3. m < Len(r) /\ t.position = position /\ t.type \in DOMAIN WordBytesOf
        /\ b \in Nat /\ position < b
    <3> HIDE DEF t, b, c
    <3> QED
      BY <1>4, <2>1, <2>2
  <2> QED
    BY <1>1, <1>3, <2>1, <2>3, InsideAlong DEF NumberPoints, StringPoints
<1>10. CASE Unexpected
  <2>1. ~isAtEnd /\ Peek = c /\ Peek \notin White /\ c \notin DOMAIN Punctuation \cup {34, 45}
        /\ c \notin Digit /\ c \notin Letters
    BY <1>1, <1>10, Classes DEF Unexpected, Recognised
  <2> HIDE DEF t, b, c
  <2> QED
    BY <1>4, <2>1
<1>11. CASE PushEof
  <2>1. /\ UNCHANGED source /\ pc' = "done" /\ position = Len(source)
        /\ tokens' = Append(tokens, makeToken("EndOfFile", Here, position, 0))
    BY <1>1, <1>11 DEF PushEof
  <2>2. m = Len(r)
    <3>1. SUFFICES ASSUME m < Len(r) PROVE FALSE
      BY <1>1, <1>2, <1>3
    <3>2. m + 1 \in 1..Len(r)
      BY <1>1, <1>2, <3>1
    <3>3. t \in TokenRange /\ IsLexeme(source, t) /\ EndOf(t) \in Nat /\ EndOf(t) <= Len(source)
      BY <3>2, LexemesOf
    <3>4. t.position < EndOf(t) /\ t.position \in Nat
      <4> HIDE DEF t
      <4> QED
        BY <1>1, <3>3, FirstByteTells DEF TokenRange
    <3> HIDE DEF t
    <3> QED
      BY <1>1, <1>3, <2>1, <3>1, <3>3, <3>4
  <2> DEFINE e == makeToken("EndOfFile", Here, position, 0)
  <2>3. e \in Token /\ RangeOf(e) = EndOfFile(source)
    <3>1. line \in Nat /\ column \in Nat
      BY <1>1 DEF Inv, TypeOK
    <3> QED
      BY <1>1, <2>1, <3>1 DEF makeToken, Here, Token, TypeNames, RangeOf, EndOfFile
  <2> HIDE DEF e
  <2>4. /\ Len(tokens') = m + 1 /\ DOMAIN tokens' = 1..(m + 1) /\ tokens'[m + 1] = e
        /\ \A k \in 1..m : tokens'[k] = tokens[k]
    BY <1>1, <2>1, <2>3, AppendProperties, LenProperties DEF e
  <2>5. Ranges' = Append(r, EndOfFile(source))
    <3> DEFINE T == TokenRange \cup {EndOfFile(source)}
               y == Append(r, EndOfFile(source))
    <3>1. r \in Seq(T) /\ EndOfFile(source) \in T
      <4>1. r = [k \in 1..Len(r) |-> r[k]] /\ \A k \in 1..Len(r) : r[k] \in T
        BY <1>2, LenProperties
      <4> HIDE DEF T
      <4>2. r \in Seq(T)
        BY <1>2, <4>1, IsASeq
      <4> QED
        BY <4>2 DEF T
    <3> HIDE DEF T
    <3>2. /\ y \in Seq(T) /\ Len(y) = m + 1 /\ y[m + 1] = EndOfFile(source) /\ \A k \in 1..m : y[k] = r[k]
      BY <2>2, <3>1, AppendProperties
    <3>3. y = [k \in 1..(m + 1) |-> y[k]]
      BY <3>2, LenProperties
    <3> HIDE DEF y
    <3>4. Ranges' = [k \in 1..(m + 1) |-> RangeOf(tokens'[k])]
      BY <2>4 DEF Ranges, RangeOf
    <3>5. ASSUME NEW k \in 1..(m + 1) PROVE RangeOf(tokens'[k]) = y[k]
      <4>1. CASE k = m + 1
        BY <2>3, <2>4, <3>2, <4>1
      <4>2. CASE k # m + 1
        <5>1. k \in 1..m
          BY <1>1, <4>2
        <5> QED
          BY <1>3, <2>4, <3>2, <5>1
      <4> QED
        BY <4>1, <4>2
    <3> QED
      BY <3>3, <3>4, <3>5 DEF y
  <2> QED
    BY <2>1, <2>5 DEF Along, NumberPoints, StringPoints
<1> QED
  BY <1>5, <1>6, <1>7, <1>8, <1>9, <1>10, <1>11

LEMMA StringAlong ==
  ASSUME Inv, ReadSoFar, NEW r, IsReading(source, r), Along(r),
         \/ StringByte \/ StringControl \/ BeginEscape \/ SimpleEscape \/ UnicodeEscape
         \/ BadEscape \/ HexDigit \/ BadHexDigit \/ Unterminated \/ CloseString
  PROVE  Along(r)'
<1> DEFINE m == Len(tokens)
           t == r[m + 1]
           b == EndOf(t)
           a == token.position
           c == source[position + 1]
<1>1. /\ source \in Seq(Byte) /\ Len(source) \in Nat /\ position \in Nat /\ position <= Len(source)
      /\ m \in Nat /\ a \in Nat /\ HexDigits \in Nat \ {0}
      /\ ~isAtEnd => position < Len(source) /\ Peek = c
      /\ isAtEnd => position = Len(source) /\ Peek = 0
  BY Looking, Classes
<1>2. /\ pc \in {"string", "escape", "hex"} /\ m < Len(r) /\ t.position = a /\ t.type = "String"
      /\ StringAhead(pc, source, a, b, hexLeft, position) /\ start = a + 1
  BY DEF Along, ReadSoFar, NumberPoints, StringPoints, StringByte, StringControl, BeginEscape,
     SimpleEscape, UnicodeEscape, BadEscape, HexDigit, BadHexDigit, Unterminated, CloseString
<1>3. t \in TokenRange /\ IsLexeme(source, t) /\ b \in Nat /\ b <= Len(source)
  <2>1. m + 1 \in 1..Len(r)
    BY <1>1, <1>2, LexemesOf
  <2> QED
    BY <2>1, LexemesOf
<1>4. IsString(source, a, b) /\ t.start = a + 1 /\ t.start + t.length + 1 = b
  <2>1. "String" \notin DOMAIN PunctuatorBytes /\ "String" \notin DOMAIN WordBytesOf
    BY DEF PunctuatorBytes, WordBytesOf
  <2> QED
    BY <1>2, <1>3, <2>1 DEF IsLexeme, IsPunctuator, IsWord, Skip, EndOf
<1>5. ASSUME NEW to \in StringPoints, NEW left, StringAhead(to, source, a, b, left, position'),
             UNCHANGED <<source, tokens, token>>, pc' = to, hexLeft' = left
      PROVE  Along(r)'
  BY <1>2, <1>5, InsideAlong DEF NumberPoints, StringPoints
<1> HIDE DEF t, b, c
<1>6. CASE pc = "string"
  <2>1. /\ position < b
        /\ c = 34 \/ c \in (32..255) \ {34}
        /\ c = 34 => position = b - 1
        /\ c = 92 => StringAhead("escape", source, a, b, hexLeft, position + 1)
        /\ c \notin {34, 92} => StringAhead("string", source, a, b, hexLeft, position + 1)
    <3>1. StringAhead("string", source, a, b, hexLeft, position)
      BY <1>2, <1>6
    <3>2. c = source[position + 1]
      BY DEF c
    <3> HIDE DEF a
    <3>3. a \in Nat /\ b \in Nat /\ position \in Nat
      BY <1>1, <1>3
    <3>4. IsString(source, a, b)
      BY <1>4
    <3>5. /\ position < b
          /\ source[position + 1] = 34 \/ source[position + 1] \in (32..255) \ {34}
          /\ source[position + 1] = 34 => position = b - 1
          /\ source[position + 1] = 92 => StringAhead("escape", source, a, b, hexLeft, position + 1)
          /\ source[position + 1] \notin {34, 92} =>
               StringAhead("string", source, a, b, hexLeft, position + 1)
      BY <3>1, <3>3, <3>4, StringByteAhead, Zenon
    <3> QED
      BY <3>2, <3>5
  <2>2. ~isAtEnd /\ Peek = c
    BY <1>1, <1>3, <2>1
  <2>3. CASE StringByte
    <3>1. c \notin {34, 92}
      BY <2>2, <2>3, Classes DEF StringByte
    <3> QED
      BY <1>5, <2>1, <2>3, <3>1 DEF StringByte, Consume, advance, StringPoints
  <2>4. CASE BeginEscape
    <3>1. c = 92
      BY <2>2, <2>4, Classes DEF BeginEscape
    <3> QED
      BY <1>5, <2>1, <2>4, <3>1 DEF BeginEscape, Consume, advance, StringPoints
  <2>5. ~StringControl
    <3>1. c \notin 0..31
      BY <2>1
    <3> QED
      BY <2>2, <3>1, Classes DEF StringControl
  <2>6. ~Unterminated
    BY <2>2 DEF Unterminated
  <2>7. CASE CloseString
    <3> DEFINE x == makeToken("String", token, start, position - start)
    <3>1. c = 34 /\ position = b - 1
      BY <2>1, <2>2, <2>7, Classes DEF CloseString
    <3>2. Bytes(start, position - start) = SubSeq(source, a + 2, b - 1)
      <4>1. start + 1 = a + 2 /\ start + (position - start) = b - 1
        BY <1>1, <1>2, <1>3, <3>1
      <4> QED
        BY <4>1 DEF Bytes
    <3>3. isValidUtf8(Bytes(start, position - start))
      BY <1>4, <3>2 DEF IsString
    <3>4. /\ pc' = "next" /\ source' = source /\ tokens' = Append(tokens, x)
          /\ position' = position + 1
      BY <2>7, <3>3 DEF CloseString, Push, advance
    <3>5. t.length = position - start
      <4>1. t.start \in Nat /\ t.length \in Nat
        BY <1>3 DEF TokenRange
      <4> QED
        BY <1>1, <1>2, <1>3, <1>4, <3>1, <4>1
    <3>6. RangeOf(x) = t
      <4>1. t = [type |-> t.type, position |-> t.position, start |-> t.start, length |-> t.length]
        BY <1>3 DEF TokenRange
      <4> QED
        BY <1>2, <1>4, <3>5, <4>1 DEF RangeOf, makeToken
    <3>7. position' = b
      BY <1>1, <1>3, <3>1, <3>4
    <3> HIDE DEF x
    <3> QED
      BY <1>2, <1>6, <3>4, <3>6, <3>7, PushAlong DEF t, b
  <2> QED
    BY <1>6, <2>3, <2>4, <2>5, <2>6, <2>7 DEF SimpleEscape, UnicodeEscape, BadEscape, HexDigit, BadHexDigit
<1>7. CASE pc = "escape"
  <2>1. /\ position < b
        /\ c \in {34, 47, 92, 98, 102, 110, 114, 116, 117}
        /\ c # 117 => StringAhead("string", source, a, b, hexLeft, position + 1)
        /\ c = 117 => StringAhead("hex", source, a, b, HexDigits, position + 1)
    BY <1>1, <1>2, <1>3, <1>4, <1>7, EscapeAhead DEF c
  <2>2. ~isAtEnd /\ Peek = c
    BY <1>1, <1>3, <2>1
  <2>3. CASE SimpleEscape
    <3>1. c # 117
      BY <2>2, <2>3, Classes DEF SimpleEscape
    <3> QED
      BY <1>5, <2>1, <2>3, <3>1 DEF SimpleEscape, Consume, advance, StringPoints
  <2>4. CASE UnicodeEscape
    <3>1. c = 117
      BY <2>2, <2>4, Classes DEF UnicodeEscape
    <3> QED
      BY <1>5, <2>1, <2>4, <3>1 DEF UnicodeEscape, advance, StringPoints
  <2>5. ~BadEscape
    <3>1. Peek \in SimpleEscapes \cup {LowerU}
      BY <2>1, <2>2, Classes
    <3> QED
      BY <2>2, <3>1 DEF BadEscape
  <2> QED
    BY <1>7, <2>3, <2>4, <2>5
    DEF StringByte, StringControl, BeginEscape, HexDigit, BadHexDigit, Unterminated, CloseString
<1>8. CASE pc = "hex"
  <2>1. /\ position < b
        /\ c \in Digit \cup HexLetters
        /\ StringAhead(IF hexLeft = 1 THEN "string" ELSE "hex", source, a, b, hexLeft - 1, position + 1)
    BY <1>1, <1>2, <1>3, <1>4, <1>8, HexAhead DEF c
  <2>2. ~isAtEnd /\ Peek = c
    BY <1>1, <1>3, <2>1
  <2>3. CASE HexDigit
    BY <1>5, <2>1, <2>3 DEF HexDigit, advance, StringPoints
  <2>4. ~BadHexDigit
    BY <2>1, <2>2, Classes DEF BadHexDigit
  <2> QED
    BY <1>8, <2>3, <2>4
    DEF StringByte, StringControl, BeginEscape, SimpleEscape, UnicodeEscape, BadEscape, Unterminated,
        CloseString
<1> QED
  BY <1>2, <1>6, <1>7, <1>8

LEMMA NumberAlong ==
  ASSUME Inv, ReadSoFar, NEW r, IsReading(source, r), Along(r),
         \/ IntegerDigit \/ NoInteger \/ LeadingZero \/ MoreDigits \/ Fraction
         \/ FractionDigit \/ Exponent \/ ExponentSign \/ ExponentDigit \/ EndNumber
  PROVE  Along(r)'
<1> DEFINE m == Len(tokens)
           t == r[m + 1]
           b == EndOf(t)
           a == token.position
           c == source[position + 1]
<1>1. /\ source \in Seq(Byte) /\ Len(source) \in Nat /\ position \in Nat /\ position <= Len(source)
      /\ m \in Nat /\ a \in Nat
      /\ ~isAtEnd => position < Len(source) /\ Peek = c
      /\ isAtEnd => position = Len(source) /\ Peek = 0
  BY Looking, Classes
<1>2. /\ pc \in NumberPoints /\ m < Len(r) /\ t.position = a /\ t.type = "Number"
      /\ NumberAhead(pc, source, a, b, position) /\ start = a
  BY DEF Along, ReadSoFar, NumberPoints, StringPoints, IntegerDigit, NoInteger, LeadingZero, MoreDigits,
     Fraction, FractionDigit, Exponent, ExponentSign, ExponentDigit, EndNumber
<1>3. t \in TokenRange /\ IsLexeme(source, t) /\ b \in Nat /\ b <= Len(source) /\ Stops(source, b)
  <2>1. m + 1 \in 1..Len(r)
    BY <1>1, <1>2, LexemesOf
  <2> QED
    BY <1>1, <1>2, <2>1, LexemesOf, LexemeStops
<1>4. IsNumber(source, a, b) /\ t.start = a /\ t.start + t.length = b
  <2>1. "Number" \notin DOMAIN PunctuatorBytes /\ "Number" \notin DOMAIN WordBytesOf
    BY DEF PunctuatorBytes, WordBytesOf
  <2>2. t.start \in Nat /\ t.length \in Nat
    BY <1>3 DEF TokenRange
  <2> QED
    BY <1>1, <1>2, <1>3, <2>1, <2>2 DEF IsLexeme, IsPunctuator, IsWord, Skip, EndOf
<1>5. ASSUME NEW to \in NumberPoints, NumberAhead(to, source, a, b, position + 1), Consume(to)
      PROVE  Along(r)'
  BY <1>2, <1>5, InsideAlong DEF NumberPoints, StringPoints, Consume, advance
<1> HIDE DEF t, b, c
<1>6. /\ isDigit(Peek) <=> (~isAtEnd /\ c \in Digit)
      /\ isExponent(Peek) <=> (~isAtEnd /\ c \in {69, 101})
      /\ Peek = Point <=> (~isAtEnd /\ c = 46)
      /\ Peek \in {Plus, Minus} <=> (~isAtEnd /\ c \in {43, 45})
      /\ ~isAtEnd => (Peek = Zero <=> c = 48)
  BY <1>1, Classes
<1>7. CASE IntegerDigit \/ NoInteger
  <2>1. pc = "integer"
    BY <1>7 DEF IntegerDigit, NoInteger
  <2>2. position < b /\ c \in Digit
        /\ NumberAhead(IF c = 48 THEN "zero" ELSE "digits", source, a, b, position + 1)
    BY <1>1, <1>2, <1>3, <1>4, <2>1, IntegerAhead DEF c
  <2>3. ~isAtEnd
    BY <1>1, <1>3, <2>2
  <2>4. ~NoInteger
    BY <1>6, <2>2, <2>3 DEF NoInteger
  <2> QED
    BY <1>5, <1>6, <1>7, <2>2, <2>3, <2>4 DEF IntegerDigit, NumberPoints
<1>8. ASSUME pc \in {"zero", "digits", "fraction", "power"}
      PROVE  /\ position <= b
             /\ ~isAtEnd /\ c \in Digit => pc # "zero" /\ NumberAhead(pc, source, a, b, position + 1)
             /\ ~isAtEnd /\ c = 46 /\ pc \in {"zero", "digits"} =>
                  NumberAhead("point", source, a, b, position + 1)
             /\ ~isAtEnd /\ c \in {69, 101} /\ pc # "power" =>
                  NumberAhead("exponent", source, a, b, position + 1)
             /\ position = b \/ c \in Digit \/ (c = 46 /\ pc \in {"zero", "digits"})
                \/ (c \in {69, 101} /\ pc # "power")
  <2>1. b \in 0..Len(source)
    BY <1>1, <1>3
  <2> QED
    BY <1>1, <1>2, <1>3, <1>4, <1>8, <2>1, DigitsAhead DEF c
<1>9. CASE LeadingZero \/ MoreDigits \/ Fraction \/ Exponent
  <2>1. pc \in {"zero", "digits", "fraction", "power"}
    BY <1>9 DEF LeadingZero, MoreDigits, Fraction, Exponent
  <2>2. ~LeadingZero
    BY <1>6, <1>8 DEF LeadingZero
  <2>3. CASE MoreDigits
    BY <1>2, <1>5, <1>6, <1>8, <2>1, <2>3 DEF MoreDigits
  <2>4. CASE Fraction
    BY <1>5, <1>6, <1>8, <2>1, <2>4 DEF Fraction, NumberPoints
  <2>5. CASE Exponent
    <3>1. pc # "power"
      BY <2>5 DEF Exponent
    <3> QED
      BY <1>5, <1>6, <1>8, <2>1, <2>5, <3>1 DEF Exponent, NumberPoints
  <2> QED
    BY <1>9, <2>2, <2>3, <2>4, <2>5
<1>10. CASE FractionDigit
  <2>1. pc = "point"
    BY <1>10 DEF FractionDigit
  <2>2. position < b /\ c \in Digit /\ NumberAhead("fraction", source, a, b, position + 1)
    BY <1>1, <1>2, <1>3, <1>4, <2>1, PointAhead DEF c
  <2>3. ~isAtEnd
    BY <1>1, <1>3, <2>2
  <2> QED
    BY <1>5, <1>6, <1>10, <2>2, <2>3 DEF FractionDigit, NumberPoints
<1>11. CASE (ExponentSign \/ ExponentDigit) /\ pc = "exponent"
  <2>2. /\ position < b
        /\ c \in {43, 45} => NumberAhead("sign", source, a, b, position + 1)
        /\ c \notin {43, 45} => c \in Digit /\ NumberAhead("power", source, a, b, position + 1)
    BY <1>1, <1>2, <1>3, <1>4, <1>11, ExponentAhead DEF c
  <2>3. ~isAtEnd
    BY <1>1, <1>3, <2>2
  <2>4. CASE ExponentSign
    BY <1>5, <1>6, <2>2, <2>3, <2>4 DEF ExponentSign, NumberPoints
  <2>5. CASE ExponentDigit
    BY <1>5, <1>6, <1>11, <2>2, <2>3, <2>5 DEF ExponentDigit, NumberPoints
  <2> QED
    BY <1>11, <2>4, <2>5
<1>12. CASE ExponentDigit /\ pc = "sign"
  <2>2. position < b /\ c \in Digit /\ NumberAhead("power", source, a, b, position + 1)
    BY <1>1, <1>2, <1>3, <1>4, <1>12, SignAhead DEF c
  <2>3. ~isAtEnd
    BY <1>1, <1>3, <2>2
  <2> QED
    BY <1>5, <1>6, <1>12, <2>2, <2>3 DEF ExponentDigit, NumberPoints
<1>13. CASE EndNumber
  <2> DEFINE x == makeToken("Number", token, start, position - start)
  <2>1. /\ pc \in {"zero", "digits", "fraction", "power"} /\ ~NumberGoesOn
        /\ position' = position /\ source' = source /\ pc' = "next" /\ tokens' = Append(tokens, x)
    BY <1>13 DEF EndNumber, stay, Push
  <2>2. position = b
    <3>1. CASE isAtEnd
      BY <1>1, <1>3, <1>8, <2>1, <3>1
    <3>2. CASE ~isAtEnd
      BY <1>6, <1>8, <2>1, <3>2 DEF NumberGoesOn
    <3> QED
      BY <3>1, <3>2
  <2>3. t.length = position - start
    BY <1>1, <1>2, <1>3, <1>4, <2>2 DEF TokenRange
  <2>4. RangeOf(x) = t
    <3>1. t = [type |-> t.type, position |-> t.position, start |-> t.start, length |-> t.length]
      BY <1>3 DEF TokenRange
    <3> QED
      BY <1>2, <1>4, <2>3, <3>1 DEF RangeOf, makeToken
  <2>5. pc # "done"
    BY <2>1
  <2> HIDE DEF x
  <2> QED
    BY <1>2, <2>1, <2>2, <2>4, <2>5, PushAlong DEF t, b
<1>14. ExponentSign => pc = "exponent"
  BY DEF ExponentSign
<1>15. ExponentDigit => pc \in {"exponent", "sign"}
  BY DEF ExponentDigit
<1> QED
  BY <1>7, <1>9, <1>10, <1>11, <1>12, <1>13, <1>14, <1>15

LEMMA KeywordAlong ==
  ASSUME Inv, ReadSoFar, NEW r, IsReading(source, r), Along(r), Letter \/ EndKeyword
  PROVE  Along(r)'
<1> DEFINE m == Len(tokens)
           t == r[m + 1]
           b == EndOf(t)
           a == token.position
           c == source[position + 1]
<1>1. /\ source \in Seq(Byte) /\ Len(source) \in Nat /\ position \in Nat /\ position <= Len(source)
      /\ m \in Nat /\ a \in Nat /\ a <= position
      /\ ~isAtEnd => position < Len(source) /\ Peek = c
      /\ isAtEnd => position = Len(source) /\ Peek = 0
  BY Looking, Classes
<1>2. /\ pc = "keyword" /\ m < Len(r) /\ t.position = a /\ t.type \in DOMAIN WordBytesOf
      /\ position <= b /\ start = a
  BY DEF Along, ReadSoFar, NumberPoints, StringPoints, Letter, EndKeyword
<1>3. t \in TokenRange /\ IsLexeme(source, t) /\ b \in Nat /\ b <= Len(source)
  <2>1. m + 1 \in 1..Len(r)
    BY <1>1, <1>2, LexemesOf
  <2> QED
    BY <2>1, LexemesOf
<1>4. IsWord(t.type, source, a, b) /\ t.start = a /\ t.start + t.length = b /\ a < b
  <2>1. t.type \notin {"String", "Number"} /\ t.type \notin DOMAIN PunctuatorBytes
    BY <1>2 DEF PunctuatorBytes, WordBytesOf
  <2>2. t.start \in Nat /\ t.length \in Nat
    BY <1>3 DEF TokenRange
  <2>3. t.position < b
    <3> HIDE DEF t
    <3> QED
      BY <1>1, <1>3, FirstByteTells
  <2> QED
    BY <1>1, <1>2, <1>3, <2>1, <2>2, <2>3 DEF IsLexeme, IsPunctuator, Skip, EndOf
<1> HIDE DEF t, b, c
<1>5. /\ \A p \in (a + 1)..b : source[p] \in Letters
      /\ b < Len(source) => source[b + 1] \notin Letters
      /\ SubSeq(source, a + 1, b) \in DOMAIN Keywords
      /\ Keywords[SubSeq(source, a + 1, b)] = t.type
  <2>1. b \in 0..Len(source)
    BY <1>1, <1>3
  <2> QED
    BY <1>1, <1>4, <2>1, WordBytes
<1>6. isAlpha(Peek) <=> position < b
  <2>1. CASE position < b
    <3>1. ~isAtEnd /\ position + 1 \in (a + 1)..b
      BY <1>1, <1>3, <2>1
    <3> QED
      BY <1>1, <1>5, <2>1, <3>1, Classes DEF c
  <2>2. CASE position = b
    BY <1>1, <1>5, <2>2, Classes DEF c
  <2> QED
    BY <1>1, <1>2, <1>3, <2>1, <2>2
<1>7. CASE Letter
  <2>1. UNCHANGED <<source, tokens, token>> /\ pc' = "keyword" /\ position' = position + 1
    BY <1>7 DEF Letter, Consume, advance
  <2>2. position + 1 <= b
    BY <1>1, <1>3, <1>6, <1>7 DEF Letter
  <2> QED
    BY <1>2, <2>1, <2>2, InsideAlong DEF NumberPoints, StringPoints, t, b
<1>8. CASE EndKeyword
  <2> DEFINE word == Bytes(start, position - start)
             x == makeToken(Keywords[word], token, start, position - start)
  <2>1. position = b
    BY <1>1, <1>2, <1>3, <1>6, <1>8 DEF EndKeyword
  <2>2. word = SubSeq(source, a + 1, b)
    <3>1. start + (position - start) = b
      BY <1>1, <1>2, <1>3, <2>1
    <3> QED
      BY <1>2, <3>1 DEF Bytes
  <2>3. word \in DOMAIN Keywords /\ Keywords[word] = t.type
    BY <1>5, <2>2
  <2>4. /\ position' = position /\ source' = source /\ pc' = "next" /\ tokens' = Append(tokens, x)
    BY <1>8, <2>3 DEF EndKeyword, stay, Push
  <2> HIDE DEF word
  <2>5. t.length = position - start
    BY <1>1, <1>2, <1>3, <1>4, <2>1 DEF TokenRange
  <2>6. RangeOf(x) = t
    <3>1. t = [type |-> t.type, position |-> t.position, start |-> t.start, length |-> t.length]
      BY <1>3 DEF TokenRange
    <3> QED
      BY <1>2, <1>4, <2>3, <2>5, <3>1 DEF RangeOf, makeToken
  <2> HIDE DEF x
  <2> QED
    BY <1>2, <2>1, <2>4, <2>6, PushAlong DEF t, b
<1> QED
  BY <1>7, <1>8

\* Along every reading at once.
AlongAll == \A r : IsReading(source, r) => Along(r)

LEMMA InitAlong == Init => AlongAll
<1> SUFFICES ASSUME Init, NEW r, IsReading(source, r) PROVE Along(r)
  BY DEF AlongAll
<1>1. Len(r) \in Nat /\ Len(tokens) = 0 /\ pc = "next" /\ position = 0
  BY LenProperties DEF Init, IsReading
<1>2. 0 < Len(r) => 0 <= r[1].position
  <2>1. 0 < Len(r) => r[1] \in TokenRange
    BY <1>1, ElementOfSeq DEF IsReading
  <2> QED
    BY <2>1 DEF TokenRange
<1>3. EndBefore(r, 1) = 0
  BY DEF EndBefore
<1> QED
  BY <1>1, <1>2, <1>3 DEF Along, NumberPoints, StringPoints

LEMMA NextAlong == Inv /\ ReadSoFar /\ AlongAll /\ [Next]_vars => AlongAll'
<1> SUFFICES ASSUME Inv, ReadSoFar, AlongAll, [Next]_vars, NEW r, IsReading(source, r)'
             PROVE  Along(r)'
  BY DEF AlongAll
<1>1. source' = source
  BY DEF Next, Lex, Ended, vars, skipWhitespace, Punctuate, BeginString, BeginNumber, BeginKeyword,
     Unexpected, PushEof, StringByte, StringControl, BeginEscape, SimpleEscape, UnicodeEscape,
     BadEscape, HexDigit, BadHexDigit, Unterminated, CloseString, IntegerDigit, NoInteger,
     LeadingZero, MoreDigits, Fraction, FractionDigit, Exponent, ExponentSign, ExponentDigit,
     EndNumber, Letter, EndKeyword, Consume, Push, Begin, FailHere, FailAfter, Fail
<1>2. IsReading(source, r) /\ Along(r)
  BY <1>1 DEF AlongAll, IsReading
<1>3. CASE Lex
  BY <1>2, <1>3, TokenizeAlong, StringAlong, NumberAlong, KeywordAlong DEF Lex
<1>4. CASE UNCHANGED vars
  BY <1>2, <1>4 DEF vars, Along, Ranges
<1> QED
  BY <1>3, <1>4 DEF Next, Ended

-----------------------------------------------------------------------------
\* The meaning of a text is what it reads as, with an end of file behind.
Reading ==
  INSTANCE TextPass WITH
    text <- source, outcome <- Outcome,
    Sentences <- {s \in Sources : \E r : IsReading(s, r)},
    Meaning <- {p \in Sources \X Seq(TokenRange) :
                  \E r : IsReading(p[1], r) /\ p[2] = Append(r, EndOfFile(p[1]))}

ReadInv == Inv /\ ReadSoFar /\ AlongAll /\ source \in Sources

\* Reads looks at nothing but the ranges of the tokens.
LEMMA RangesRead ==
  ASSUME Inv, NEW n, Reads(source, tokens, n)
  PROVE  Ranges \in Seq(TokenRange) /\ Reads(source, Ranges, n)
<1>1. tokens \in Seq(Token) /\ Len(tokens) \in Nat /\ DOMAIN tokens = 1..Len(tokens)
  BY Looking, LenProperties
<1>2. \A k \in 1..Len(tokens) : tokens[k] \in Token
  BY <1>1, ElementOfSeq
<1>3. \A k \in 1..Len(tokens) : RangeOf(tokens[k]) \in TokenRange
  BY <1>2 DEF Token, TokenRange, RangeOf
<1>4. Ranges = [k \in 1..Len(tokens) |-> RangeOf(tokens[k])]
  BY <1>1 DEF Ranges
<1>5. Ranges \in Seq(TokenRange)
  <2>1. \A k \in 1..Len(tokens) : Ranges[k] \in TokenRange
    BY <1>3, <1>4
  <2>2. Ranges = [k \in 1..Len(tokens) |-> Ranges[k]]
    BY <1>4
  <2> QED
    BY <1>1, <2>1, <2>2, IsASeq
<1>6. Len(Ranges) = Len(tokens)
  <2>1. DOMAIN Ranges = 1..Len(tokens)
    BY <1>4
  <2> QED
    BY <1>1, <1>5, <2>1, LenProperties
<1>7. \A k \in 1..Len(tokens) :
        /\ Ranges[k].type = tokens[k].type /\ Ranges[k].position = tokens[k].position
        /\ Ranges[k].start = tokens[k].start /\ Ranges[k].length = tokens[k].length
  BY <1>4 DEF RangeOf
<1>8. \A k \in 1..Len(tokens) :
        /\ EndOf(Ranges[k]) = EndOf(tokens[k])
        /\ IsLexeme(source, Ranges[k]) <=> IsLexeme(source, tokens[k])
  BY <1>7 DEF EndOf, IsLexeme
<1>9. \A k \in 1..(Len(tokens) + 1) : EndBefore(Ranges, k) = EndBefore(tokens, k)
  <2> SUFFICES ASSUME NEW k \in 1..(Len(tokens) + 1), k # 1
               PROVE  EndOf(Ranges[k - 1]) = EndOf(tokens[k - 1])
    BY DEF EndBefore
  <2>1. k - 1 \in 1..Len(tokens)
    BY <1>1
  <2> QED
    BY <1>8, <2>1
<1>10. Len(tokens) + 1 \in 1..(Len(tokens) + 1) /\ \A k \in 1..Len(tokens) : k \in 1..(Len(tokens) + 1)
  BY <1>1
<1>11. Reads(source, Ranges, n)
  <2>1. ASSUME NEW k \in 1..Len(tokens)
        PROVE  /\ EndOf(Ranges[k]) <= n
               /\ IsBlank(source, EndBefore(Ranges, k), Ranges[k].position)
               /\ IsLexeme(source, Ranges[k])
    <3>1. /\ EndOf(tokens[k]) <= n
          /\ IsBlank(source, EndBefore(tokens, k), tokens[k].position)
          /\ IsLexeme(source, tokens[k])
      BY DEF Reads
    <3> QED
      BY <1>7, <1>8, <1>9, <1>10, <3>1
  <2>2. IsBlank(source, EndBefore(Ranges, Len(tokens) + 1), n)
    BY <1>9, <1>10 DEF Reads
  <2> QED
    BY <1>6, <2>1, <2>2 DEF Reads
<1> QED
  BY <1>5, <1>11

\* The end of file is reached along a reading.
LEMMA EofReads ==
  ASSUME Inv, ReadSoFar, PushEof
  PROVE  IsReading(source, Ranges) /\ Ranges' = Append(Ranges, EndOfFile(source))
<1>1. pc = "next" /\ isAtEnd /\ tokens' = Append(tokens, makeToken("EndOfFile", Here, position, 0))
  BY DEF PushEof
<1>2. position = Len(source) /\ tokens \in Seq(Token) /\ Len(tokens) \in Nat
  BY <1>1, Looking
<1>3. Reads(source, tokens, Len(source))
  BY <1>1, <1>2 DEF ReadSoFar
<1>4. Ranges \in Seq(TokenRange) /\ Reads(source, Ranges, Len(source))
  BY <1>3, RangesRead
<1> DEFINE e == makeToken("EndOfFile", Here, position, 0)
           n == Len(tokens)
<1>5. RangeOf(e) = EndOfFile(source)
  BY <1>2 DEF RangeOf, makeToken, Here, EndOfFile
<1>6. Ranges = [k \in 1..n |-> RangeOf(tokens[k])] /\ Len(Ranges) = n
  <2>1. DOMAIN tokens = 1..n
    BY <1>2, LenProperties
  <2>2. Ranges = [k \in 1..n |-> RangeOf(tokens[k])]
    BY <2>1 DEF Ranges
  <2> QED
    BY <1>2, <1>4, <2>2, LenProperties
<1> HIDE DEF e
<1>7. tokens' = [k \in 1..(n + 1) |-> IF k = n + 1 THEN e ELSE tokens[k]]
  <2>1. tokens' = Append(tokens, e) /\ e \in Token
    BY <1>1, <1>2, Looking DEF e, makeToken, Here, Token, TypeNames, Inv, TypeOK
  <2>2. /\ Append(tokens, e) \in Seq(Token) /\ Len(Append(tokens, e)) = n + 1
        /\ \A k \in 1..n : Append(tokens, e)[k] = tokens[k]
        /\ Append(tokens, e)[n + 1] = e
    BY <1>2, <2>1, AppendProperties
  <2>3. tokens' = [k \in 1..(n + 1) |-> tokens'[k]]
    BY <2>1, <2>2, LenProperties
  <2> QED
    BY <1>2, <2>1, <2>2, <2>3
<1>8. Ranges' = [k \in 1..(n + 1) |-> RangeOf(IF k = n + 1 THEN e ELSE tokens[k])]
  BY <1>7 DEF Ranges
<1>9. Append(Ranges, EndOfFile(source))
        = [k \in 1..(n + 1) |-> IF k = n + 1 THEN EndOfFile(source) ELSE Ranges[k]]
  BY <1>4, <1>6
<1>10. \A k \in 1..(n + 1) : RangeOf(IF k = n + 1 THEN e ELSE tokens[k])
                             = IF k = n + 1 THEN EndOfFile(source) ELSE Ranges[k]
  <2> SUFFICES ASSUME NEW k \in 1..(n + 1), k # n + 1 PROVE RangeOf(tokens[k]) = Ranges[k]
    BY <1>5
  <2>1. k \in 1..n
    BY <1>2
  <2> QED
    BY <1>6, <2>1
<1> QED
  BY <1>4, <1>8, <1>9, <1>10 DEF IsReading

\* Only the end of tokenize() or an exception changes the outcome.
LEMMA OutcomeOfStep ==
  ASSUME Lex, ~PushEof, pc' # "failed"
  PROVE  pc \notin {"done", "failed"} /\ pc' \notin {"done", "failed"}
BY DEF Lex, skipWhitespace, Punctuate, BeginString, BeginNumber, BeginKeyword, Unexpected,
   StringByte, StringControl, BeginEscape, SimpleEscape, UnicodeEscape, BadEscape, HexDigit,
   BadHexDigit, Unterminated, CloseString, IntegerDigit, NoInteger, LeadingZero, MoreDigits,
   Fraction, FractionDigit, Exponent, ExponentSign, ExponentDigit, EndNumber, Letter, EndKeyword,
   Consume, Push, Begin, FailHere, FailAfter, Fail

LEMMA LexRuns == Lex => pc \notin {"done", "failed"} /\ source' = source
BY DEF Lex, skipWhitespace, Punctuate, BeginString, BeginNumber, BeginKeyword, Unexpected, PushEof,
   StringByte, StringControl, BeginEscape, SimpleEscape, UnicodeEscape, BadEscape, HexDigit,
   BadHexDigit, Unterminated, CloseString, IntegerDigit, NoInteger, LeadingZero, MoreDigits,
   Fraction, FractionDigit, Exponent, ExponentSign, ExponentDigit, EndNumber, Letter, EndKeyword,
   Consume, Push, Begin, FailHere, FailAfter, Fail

LEMMA InitReadInv == Init => ReadInv
BY InitImpliesInv, InitReads, InitAlong DEF ReadInv, Init

LEMMA NextReadInv == ReadInv /\ [Next]_vars => ReadInv'
<1> SUFFICES ASSUME ReadInv, [Next]_vars PROVE ReadInv'
  OBVIOUS
<1>1. Inv' /\ ReadSoFar' /\ AlongAll'
  BY NextKeepsInv, NextReads, NextAlong DEF ReadInv
<1>2. source' = source
  BY LexRuns DEF Next, Ended, vars
<1> QED
  BY <1>1, <1>2 DEF ReadInv

LEMMA StepReads == ReadInv /\ [Next]_vars => [Reading!Next]_<<source, Outcome>>
<1> SUFFICES ASSUME ReadInv, [Next]_vars PROVE Reading!Next \/ UNCHANGED <<source, Outcome>>
  OBVIOUS
<1>1. CASE UNCHANGED vars
  BY <1>1 DEF vars, Outcome, Ranges
<1>2. CASE PushEof
  <2>1. IsReading(source, Ranges) /\ Ranges' = Append(Ranges, EndOfFile(source))
    BY <1>2, EofReads DEF ReadInv
  <2>2. pc = "next" /\ pc' = "done" /\ source' = source
    BY <1>2 DEF PushEof
  <2>3. Outcome = Reading!Pending
    BY <2>2 DEF Outcome, Reading!Pending
  <2>4. Outcome'.kind = "accepted" /\ Outcome'.value = Ranges'
    BY <2>2 DEF Outcome
  <2>5. Ranges' \in Seq(TokenRange)
    <3>1. EndOfFile(source) \in TokenRange
      <4>1. Len(source) \in Nat
        BY Looking DEF ReadInv
      <4> QED
        BY <4>1 DEF EndOfFile, TokenRange, TypeNames
    <3> QED
      BY <2>1, <3>1, AppendProperties DEF IsReading
  <2>6. <<source, Ranges'>> \in {p \in Sources \X Seq(TokenRange) :
                  \E r : IsReading(p[1], r) /\ p[2] = Append(r, EndOfFile(p[1]))}
    BY <2>1, <2>5 DEF ReadInv
  <2> QED
    BY <2>2, <2>3, <2>4, <2>6 DEF Reading!Next, Reading!Accept
<1>3. CASE Lex /\ pc' = "failed"
  <2>1. pc \notin {"done", "failed"} /\ source' = source
    BY <1>3, LexRuns
  <2>2. AlongAll'
    BY NextAlong DEF ReadInv
  <2>3. ~\E r : IsReading(source, r)
    BY <1>3, <2>1, <2>2 DEF AlongAll, Along, IsReading
  <2>4. Outcome = Reading!Pending /\ Outcome' = Reading!Rejected
    BY <1>3, <2>1 DEF Outcome, Reading!Pending, Reading!Rejected
  <2> QED
    BY <2>1, <2>3, <2>4 DEF Reading!Next, Reading!Reject
<1>4. CASE Lex /\ ~PushEof /\ pc' # "failed"
  BY <1>4, OutcomeOfStep, LexRuns DEF Outcome
<1> QED
  BY <1>1, <1>2, <1>3, <1>4 DEF Next, Ended

\* tokenize() implements a pass over texts: it answers a text with what this
\* reads as in the lexical grammar, and throws only where it cannot be read,
\* however long the text is.
THEOREM LexerReadsTheGrammar == Spec => Reading!SafeSpec
<1>1. Init => Reading!Init
  BY DEF Init, Outcome, Reading!Init, Reading!Pending
<1> QED
  BY <1>1, InitReadInv, NextReadInv, StepReads, PTL DEF Spec, Reading!SafeSpec

OneReading == pc = "done" => \A r : IsReading(source, r) => Ranges = Append(r, EndOfFile(source))

\* No text can be read in two ways: the tokens that tokenize() has returned are
\* those of every reading of the text.
THEOREM NoOtherReading == Spec => []OneReading
<1>1. ReadInv => OneReading
  BY DEF ReadInv, AlongAll, Along, OneReading
<1> QED
  BY <1>1, InitReadInv, NextReadInv, PTL DEF Spec
=============================================================================
