----------------------------- MODULE JsonStrings ----------------------------
(***************************************************************************)
(* The contents of string tokens: unescapeString, which turns the raw      *)
(* bytes between the quotes into text, and escapeString, with which the    *)
(* serializer writes text.                                                 *)
(*                                                                         *)
(* unescapeString reads ahead of the bytes it has checked itself: a digit  *)
(* after \u, an escape after a backslash, are there because the lexer has  *)
(* accepted the string.  Accepts says so: its bytes and escapes are those  *)
(* of the lexical grammar and cut it at the given positions, and it is     *)
(* well-formed UTF-8.                                                      *)
(***************************************************************************)
EXTENDS Integers, Sequences, LexicalGrammar

CONSTANTS
  Raws,   \* raw strings the lexer accepts
  Cuts,   \* raw string |-> the positions between its bytes and escapes
  Texts   \* texts the serializer does not refuse

Quote == 34
Backslash == 92
LowerU == 117

\* The bytes that may follow a backslash, and what they stand for.
SimpleEscape ==
  [c \in {34, 92, 47, 98, 102, 110, 114, 116} |->
     CASE c = 98 -> 8 [] c = 102 -> 12 [] c = 110 -> 10 [] c = 114 -> 13 [] c = 116 -> 9
       [] OTHER -> c]

Accepts(r, cuts) ==
  /\ r \in Seq(0..255) /\ isValidUtf8(r)
  /\ cuts \subseteq 0..Len(r) /\ IsCut(r, 0, Len(r), cuts)

ASSUME StringsAssumption ==
  /\ HexDigits = 4
  /\ \A r \in Raws : Accepts(r, Cuts[r])
  /\ \A t \in Texts : t \in Seq(0..255) /\ isValidUtf8(t)

VARIABLES
  raw,
  i,      \* bytes read
  out,    \* the text so far
  high,   \* cp, when it is a high surrogate
  pc

vars == <<raw, i, out, high, pc>>

-----------------------------------------------------------------------------
HexValue(c) == IF c <= 57 THEN c - 48 ELSE IF c <= 70 THEN c - 65 + 10 ELSE c - 97 + 10

readHex(p) ==
  ((HexValue(raw[p + 1]) * 16 + HexValue(raw[p + 2])) * 16 + HexValue(raw[p + 3])) * 16
  + HexValue(raw[p + 4])

\* The last six bits of n in a continuation byte.
Trail(n) == 128 + (n % 64)

\* Mutant: 0x800 is taken for the last character of two bytes.
Utf8Late(cp) ==
  IF cp <= 127 THEN <<cp>>
  ELSE IF cp <= 2048 THEN <<192 + (cp \div 64), Trail(cp)>>
  ELSE IF cp <= 65535 THEN <<224 + (cp \div 4096), Trail(cp \div 64), Trail(cp)>>
  ELSE <<240 + ((cp \div 4096) \div 64), Trail(cp \div 4096), Trail(cp \div 64), Trail(cp)>>

\* The bytes appendUtf8 appends.
Utf8Of(cp) ==
  IF cp <= 127 THEN <<cp>>
  ELSE IF cp <= 2047 THEN <<192 + (cp \div 64), Trail(cp)>>
  ELSE IF cp <= 65535 THEN <<224 + (cp \div 4096), Trail(cp \div 64), Trail(cp)>>
  ELSE <<240 + ((cp \div 4096) \div 64), Trail(cp \div 4096), Trail(cp \div 64), Trail(cp)>>

HighSurrogate == 55296..56319
LowSurrogate == 56320..57343

\* Mutant: the low half is counted from the last high surrogate.
FromLastHigh(h, l) == 65536 + (h - 55296) * 1024 + (l - 56319)

CodePoint(h, l) == 65536 + (h - 55296) * 1024 + (l - 56320)

Init ==
  /\ raw \in Raws
  /\ i = 0 /\ out = <<>> /\ high = 0
  /\ pc = "scan"

AppendAndGoOn(bytes, position) ==
  /\ out' = out \o bytes
  /\ i' = position
  /\ pc' = "scan"
  /\ UNCHANGED <<raw, high>>

\* invalidSurrogate().
Throw ==
  /\ pc' = "threw"
  /\ UNCHANGED <<raw, i, out, high>>

More == pc = "scan" /\ i < Len(raw)
Escape == More /\ raw[i + 1] = Backslash
Unit == readHex(i + 2)

Character ==
  /\ More
  /\ raw[i + 1] # Backslash
  /\ AppendAndGoOn(<<raw[i + 1]>>, i + 1)

UnescapeSimple ==
  /\ Escape
  /\ raw[i + 2] \in DOMAIN SimpleEscape
  /\ AppendAndGoOn(<<SimpleEscape[raw[i + 2]]>>, i + 2)

UnescapeUnit ==
  /\ Escape
  /\ raw[i + 2] = LowerU
  /\ Unit \notin HighSurrogate \cup LowSurrogate
  /\ AppendAndGoOn(Utf8Of(Unit), i + 6)

LowFirst ==
  /\ Escape
  /\ raw[i + 2] = LowerU
  /\ Unit \in LowSurrogate
  /\ Throw

HighFirst ==
  /\ Escape
  /\ raw[i + 2] = LowerU
  /\ Unit \in HighSurrogate
  /\ high' = Unit
  /\ i' = i + 6
  /\ pc' = "pair"
  /\ UNCHANGED <<raw, out>>

\* Mutant: any escape is taken for the second half of a pair.
AnyEscapeFollows == Len(raw) - i >= 6 /\ raw[i + 1] = Backslash

\* Room for an escape, and the beginning of one.
UnitFollows == Len(raw) - i >= 6 /\ raw[i + 1] = Backslash /\ raw[i + 2] = LowerU

JoinPair ==
  /\ pc = "pair"
  /\ UnitFollows
  /\ Unit \in LowSurrogate
  /\ AppendAndGoOn(Utf8Of(CodePoint(high, Unit)), i + 6)

BreakPair ==
  /\ pc = "pair"
  /\ UnitFollows => Unit \notin LowSurrogate
  /\ Throw

Finish ==
  /\ pc = "scan"
  /\ i = Len(raw)
  /\ pc' = "done"
  /\ UNCHANGED <<raw, i, out, high>>

Ended ==
  /\ pc \in {"done", "threw"}
  /\ UNCHANGED vars

Unescape ==
  \/ Character \/ UnescapeSimple \/ UnescapeUnit \/ LowFirst \/ HighFirst
  \/ JoinPair \/ BreakPair \/ Finish

Next == Unescape \/ Ended

\* unescapeString runs until it returns or throws.
Spec == Init /\ [][Next]_vars /\ WF_vars(Unescape)

-----------------------------------------------------------------------------
(***************************************************************************)
(* escapeString, for text it does not refuse.                              *)
(***************************************************************************)
HexDigitOf(n) == IF n < 10 THEN 48 + n ELSE 87 + n

\* Mutant: a line feed is written as a carriage return is read, and conversely.
SwappedEscape ==
  [c \in {8, 9, 10, 12, 13} |->
     CASE c = 8 -> 98 [] c = 12 -> 102 [] c = 10 -> 114 [] c = 13 -> 110 [] c = 9 -> 116]

ShortEscape ==
  [c \in {8, 9, 10, 12, 13} |->
     CASE c = 8 -> 98 [] c = 12 -> 102 [] c = 10 -> 110 [] c = 13 -> 114 [] c = 9 -> 116]

\* The control characters that have no short escape are written as \u00xx.
Escaped(c) ==
  CASE c \in {Quote, Backslash} -> <<Backslash, c>>
    [] c \in DOMAIN ShortEscape -> <<Backslash, ShortEscape[c]>>
    [] c < 32 /\ c \notin DOMAIN ShortEscape ->
         <<Backslash, LowerU, 48, 48, HexDigitOf(c \div 16), HexDigitOf(c % 16)>>
    [] OTHER -> <<c>>

WriteByte(escaped, c) == escaped \o Escaped(c)

\* What has been written behind each byte.
Written(text) ==
  LET escaped[k \in 0..Len(text)] ==
        IF k = 0 THEN <<>> ELSE WriteByte(escaped[k - 1], text[k])
  IN  escaped

escapeString(text) == Written(text)[Len(text)]

\* Each text with what is written for it; this is cut behind each byte's.
Escapes == {[text |-> t, written |-> escapeString(t)] : t \in Texts}
EscapeCuts(t) == {Len(Written(t)[k]) : k \in 0..Len(t)}
-----------------------------------------------------------------------------
\* The types of the variables; an escape that is about to be read is there in
\* full, also behind a high surrogate (JsonParser.cpp:109).
TypeOK ==
  /\ i \in 0..Len(raw)
  /\ pc \in {"scan", "pair", "done", "threw"}
  /\ pc = "pair" => high \in HighSurrogate
  /\ Escape =>
       \/ i + 2 <= Len(raw) /\ IsSimpleEscape(raw, i, i + 2)
       \/ i + 6 <= Len(raw) /\ IsUnicodeEscape(raw, i, i + 6)
  /\ pc = "pair" /\ UnitFollows => IsUnicodeEscape(raw, i, i + 6)

\* A string that was parsed can be serialized: its text is well-formed UTF-8.
TextValid == pc = "done" => isValidUtf8(out)

\* Saving and loading give a text back: unescapeString returns it for what
\* escapeString has written.
EscapeReadsBack ==
  pc \in {"done", "threw"} =>
    \A e \in Escapes : raw = e.written => pc = "done" /\ out = e.text
=============================================================================
