-------------------------------- MODULE Utf8 --------------------------------
(***************************************************************************)
(* JsonDetail::isValidUtf8: one pass over the bytes of a text.  left is    *)
(* count, the continuation bytes still to come; a text that ends before    *)
(* they have come is not valid.                                            *)
(***************************************************************************)
EXTENDS Naturals, Sequences, SequencesExt

Begun(left, codepoint, minimum) ==
  [ok |-> TRUE, left |-> left, codepoint |-> codepoint, minimum |-> minimum]

Broken == [ok |-> FALSE, left |-> 0, codepoint |-> 0, minimum |-> 0]

FirstByte(b) ==
  CASE b < 128        -> Begun(0, b, 0)
    [] b \in 194..223 -> Begun(1, b % 32, 128)
    [] b \in 224..239 -> Begun(2, b % 16, 2048)
    [] b \in 240..244 -> Begun(3, b % 8, 65536)
    [] OTHER          -> Broken

\* A mutant of the next: overlong encodings pass.
IsCodePoint(codepoint, minimum) == codepoint <= 1114111 /\ codepoint \notin 55296..57343

\* Not overlong, not above U+10FFFF and not a surrogate.
IsScalar(codepoint, minimum) ==
  codepoint >= minimum /\ codepoint <= 1114111 /\ codepoint \notin 55296..57343

Continuation(s, b) ==
  LET codepoint == s.codepoint * 64 + (b % 64)
  IN  IF b \div 64 # 2 THEN Broken
      ELSE IF s.left > 1 THEN Begun(s.left - 1, codepoint, s.minimum)
      ELSE IF IsScalar(codepoint, s.minimum) THEN Begun(0, codepoint, 0)
      ELSE Broken

ReadByte(s, b) ==
  IF ~s.ok THEN s ELSE IF s.left = 0 THEN FirstByte(b) ELSE Continuation(s, b)

\* Where the pass stands behind each byte.
Passed(text) ==
  LET state[k \in 0..Len(text)] ==
        IF k = 0 THEN Begun(0, 0, 0) ELSE ReadByte(state[k - 1], text[k])
  IN  state

isValidUtf8(text) == LET end == Passed(text)[Len(text)] IN end.ok /\ end.left = 0
=============================================================================
