-------------------------- MODULE JsonStringsProofs --------------------------
(***************************************************************************)
(* What MCStrings checks for strings of three pieces, for every string the *)
(* lexer accepts: no byte is read that is not there, and what is returned  *)
(* is well-formed UTF-8.  For every pair of surrogates and every character:*)
(* what they are joined and encoded to.  For every text: that it is read   *)
(* back from what escapeString writes, and that this is a string of the    *)
(* lexical grammar; and for every string of that grammar, that it may be   *)
(* given to unescapeString.                                                *)
(***************************************************************************)
EXTENDS JsonStrings, FunctionTheorems, SequenceTheorems, WellFoundedInduction, TLAPS

\* The loop stands between two pieces of the string, and so does the search
\* for the second half of a pair.
IInv ==
  /\ raw \in Raws
  /\ i \in 0..Len(raw)
  /\ pc \in {"scan", "pair", "done", "threw"}
  /\ pc \in {"scan", "pair"} => i \in Cuts[raw]
  /\ pc = "pair" => high \in HighSurrogate

-----------------------------------------------------------------------------
\* The escapes of two characters: a \u is not one of them.
LEMMA SimpleDomain == DOMAIN SimpleEscape = {34, 92, 47, 98, 102, 110, 114, 116}
  BY DEF SimpleEscape

LEMMA UnitIsNotSimple == LowerU \notin DOMAIN SimpleEscape
  BY SimpleDomain DEF LowerU

\* A cut before the end of the string begins a piece of the lexical grammar.
LEMMA PieceThere ==
  ASSUME NEW r \in Raws, NEW p \in Cuts[r], p # Len(r)
  PROVE  \E q \in Cuts[r] : p < q /\ IsPiece(r, p, q)
  BY StringsAssumption DEF Accepts, IsCut

LEMMA CutsInside ==
  ASSUME NEW r \in Raws
  PROVE  Len(r) \in Nat /\ Cuts[r] \subseteq 0..Len(r) /\ 0 \in Cuts[r]
  BY StringsAssumption, LenProperties DEF Accepts, IsCut

\* Where a backslash stands, an escape is there in full, and what follows it
\* is another piece or the end.
LEMMA EscapeThere ==
  ASSUME IInv, pc \in {"scan", "pair"}, i < Len(raw), raw[i + 1] = Backslash
  PROVE  \/ /\ raw[i + 2] \in DOMAIN SimpleEscape
            /\ i + 2 \in Cuts[raw] /\ i + 2 <= Len(raw) /\ IsSimpleEscape(raw, i, i + 2)
         \/ /\ raw[i + 2] = LowerU
            /\ i + 6 \in Cuts[raw] /\ i + 6 <= Len(raw) /\ IsUnicodeEscape(raw, i, i + 6)
<1>1. raw \in Raws /\ i \in Cuts[raw] /\ i # Len(raw) /\ i \in Nat
  BY DEF IInv
<1>2. PICK q \in Cuts[raw] : i < q /\ IsPiece(raw, i, q)
  BY <1>1, PieceThere
<1>3. q <= Len(raw) /\ q \in Nat
  BY <1>1, <1>2, CutsInside
<1>4. CASE IsByte(raw, i, q)
  BY <1>4 DEF IsByte, Backslash
<1>5. CASE IsSimpleEscape(raw, i, q)
  <2>1. q = i + 2 /\ raw[i + 2] \in DOMAIN SimpleEscape
    BY <1>5, SimpleDomain DEF IsSimpleEscape
  <2> QED
    BY <1>3, <1>5, <2>1
<1>6. CASE IsUnicodeEscape(raw, i, q)
  <2>1. q = i + 6 /\ raw[i + 2] = LowerU
    BY <1>1, <1>6, StringsAssumption DEF IsUnicodeEscape, LowerU
  <2> QED
    BY <1>3, <1>6, <2>1
<1> QED
  BY <1>2, <1>4, <1>5, <1>6 DEF IsPiece

LEMMA CharacterThere ==
  ASSUME IInv, pc = "scan", i < Len(raw), raw[i + 1] # Backslash
  PROVE  i + 1 \in Cuts[raw]
<1>1. raw \in Raws /\ i \in Cuts[raw] /\ i # Len(raw) /\ i \in Nat
  BY DEF IInv
<1>2. PICK q \in Cuts[raw] : i < q /\ IsPiece(raw, i, q)
  BY <1>1, PieceThere
<1>3. q = i + 1
  BY <1>2 DEF IsPiece, IsByte, IsSimpleEscape, IsUnicodeEscape, Backslash
<1> QED
  BY <1>2, <1>3
-----------------------------------------------------------------------------
LEMMA InitIInv == Init => IInv
<1> SUFFICES ASSUME Init PROVE IInv
  OBVIOUS
<1> QED
  BY CutsInside DEF Init, IInv

LEMMA NextIInv == IInv /\ [Next]_vars => IInv'
<1> SUFFICES ASSUME IInv, [Next]_vars PROVE IInv'
  OBVIOUS
<1> USE DEF IInv
<1>1. CASE Character
  BY <1>1, CharacterThere, CutsInside DEF Character, More, AppendAndGoOn
<1>2. CASE UnescapeSimple
  BY <1>2, EscapeThere, CutsInside, UnitIsNotSimple DEF UnescapeSimple, Escape, More, AppendAndGoOn
<1>3. CASE UnescapeUnit
  BY <1>3, EscapeThere, CutsInside, UnitIsNotSimple DEF UnescapeUnit, Escape, More, AppendAndGoOn
<1>4. CASE LowFirst
  BY <1>4 DEF LowFirst, Escape, More, Throw
<1>5. CASE HighFirst
  BY <1>5, EscapeThere, CutsInside, UnitIsNotSimple DEF HighFirst, Escape, More
<1>6. CASE JoinPair
  <2>1. i < Len(raw) /\ pc = "pair" /\ raw[i + 1] = Backslash /\ raw[i + 2] = LowerU
    BY <1>6 DEF JoinPair, UnitFollows
  <2>2. i + 6 \in Cuts[raw]
    BY <2>1, EscapeThere, UnitIsNotSimple
  <2> QED
    BY <1>6, <2>2, CutsInside DEF JoinPair, AppendAndGoOn
<1>7. CASE BreakPair
  BY <1>7 DEF BreakPair, Throw
<1>8. CASE Finish
  BY <1>8 DEF Finish
<1>9. CASE UNCHANGED vars
  BY <1>9 DEF vars
<1> QED
  BY <1>1, <1>2, <1>3, <1>4, <1>5, <1>6, <1>7, <1>8, <1>9 DEF Next, Unescape, Ended

LEMMA IInvTypeOK == IInv => TypeOK
<1> SUFFICES ASSUME IInv PROVE TypeOK
  OBVIOUS
<1>1. ASSUME Escape
      PROVE  \/ i + 2 <= Len(raw) /\ IsSimpleEscape(raw, i, i + 2)
             \/ i + 6 <= Len(raw) /\ IsUnicodeEscape(raw, i, i + 6)
  BY <1>1, EscapeThere DEF Escape, More
<1>2. ASSUME pc = "pair", UnitFollows
      PROVE  IsUnicodeEscape(raw, i, i + 6)
  <2>1. i < Len(raw) /\ raw[i + 1] = Backslash /\ raw[i + 2] = LowerU
    BY <1>2 DEF UnitFollows, IInv
  <2> QED
    BY <1>2, <2>1, EscapeThere, UnitIsNotSimple
<1> QED
  BY <1>1, <1>2 DEF IInv, TypeOK

\* unescapeString relies on the lexer's check, as its comment says, "Escape
\* syntax and bounds were checked by the lexer.": whatever string the lexer
\* has cut into bytes and escapes, of whatever length, each byte and each
\* digit it reads is there, also behind a high surrogate.
THEOREM TypeCorrect == Spec => []TypeOK
<1>1. Init => IInv
  BY InitIInv
<1>2. IInv /\ [Next]_vars => IInv'
  BY NextIInv
<1>3. IInv => TypeOK
  BY IInvTypeOK
<1> QED
  BY <1>1, <1>2, <1>3, PTL DEF Spec
-----------------------------------------------------------------------------
\* appendUtf8's continuation bytes.
LEMMA TrailByte == \A n \in Nat : Trail(n) \in 128..191
  BY DEF Trail

\* The characters, in 17 planes of 65536, and those that need a pair.
Characters == {cp \in Nat : cp \div 65536 <= 16}
Supplementary == {cp \in Characters : cp \div 65536 >= 1}

\* Joining is one to one between the pairs of surrogates and the characters
\* beyond the first 65536: no pair gives a character out of range or one that
\* needs no pair, no two give the same, and each has one.
THEOREM PairsAreCharacters ==
  /\ \A h \in HighSurrogate, l \in LowSurrogate : CodePoint(h, l) \in Supplementary
  /\ \A h, g \in HighSurrogate, l, k \in LowSurrogate :
       CodePoint(h, l) = CodePoint(g, k) => h = g /\ l = k
  /\ \A cp \in Supplementary : \E h \in HighSurrogate, l \in LowSurrogate : CodePoint(h, l) = cp
<1> USE DEF HighSurrogate, LowSurrogate, Supplementary, Characters, CodePoint
<1>1. \A h \in HighSurrogate, l \in LowSurrogate : CodePoint(h, l) \in Supplementary
  BY SMT
<1>2. ASSUME NEW h \in HighSurrogate, NEW g \in HighSurrogate,
             NEW l \in LowSurrogate, NEW k \in LowSurrogate, CodePoint(h, l) = CodePoint(g, k)
      PROVE  h = g /\ l = k
  BY <1>2, SMT
<1>3. ASSUME NEW cp \in Supplementary
      PROVE  \E h \in HighSurrogate, l \in LowSurrogate : CodePoint(h, l) = cp
  <2> DEFINE h == 55296 + ((cp - 65536) \div 1024)
             l == 56320 + ((cp - 65536) % 1024)
  <2>1. h \in HighSurrogate /\ l \in LowSurrogate /\ CodePoint(h, l) = cp
    BY SMT
  <2> HIDE DEF h, l, HighSurrogate, LowSurrogate, Supplementary, Characters, CodePoint
  <2> QED
    BY <2>1
<1> HIDE DEF HighSurrogate, LowSurrogate, Supplementary, Characters, CodePoint
<1> QED
  BY <1>1, <1>2, <1>3

\* The well-formed encodings of a character (Unicode, table 3-7): a first byte
\* that tells the length, continuation bytes, and no form longer than needed.
Tail1 == 128..191
WellFormed(bytes) ==
  \/ \E a \in 0..127 : bytes = <<a>>
  \/ \E a \in 194..223, b \in Tail1 : bytes = <<a, b>>
  \/ \E a \in 224..239, b, c \in Tail1 :
       /\ a = 224 => b >= 160
       /\ a = 237 => b <= 159
       /\ bytes = <<a, b, c>>
  \/ \E a \in 240..244, b, c, d \in Tail1 :
       /\ a = 240 => b >= 144
       /\ a = 244 => b <= 143
       /\ bytes = <<a, b, c, d>>

\* The four lengths of an encoding.
LEMMA OneByte ==
  ASSUME NEW cp \in Nat, cp <= 127
  PROVE  Utf8Of(cp) = <<cp>>
  BY DEF Utf8Of

LEMMA TwoBytes ==
  ASSUME NEW cp \in Nat, ~(cp <= 127), cp <= 2047
  PROVE  Utf8Of(cp) = <<192 + (cp \div 64), Trail(cp)>>
  BY DEF Utf8Of

LEMMA ThreeBytes ==
  ASSUME NEW cp \in Nat, ~(cp <= 127), ~(cp <= 2047), cp <= 65535
  PROVE  Utf8Of(cp) = <<224 + (cp \div 4096), Trail(cp \div 64), Trail(cp)>>
  BY DEF Utf8Of

LEMMA FourBytes ==
  ASSUME NEW cp \in Nat, ~(cp <= 127), ~(cp <= 2047), ~(cp <= 65535)
  PROVE  Utf8Of(cp) = <<240 + ((cp \div 4096) \div 64), Trail(cp \div 4096),
                        Trail(cp \div 64), Trail(cp)>>
  BY DEF Utf8Of

\* Whatever character an escape or a pair of them stands for, what appendUtf8
\* appends is a well-formed encoding.
THEOREM EncodingsWellFormed ==
  \A cp \in Characters \ (HighSurrogate \cup LowSurrogate) : WellFormed(Utf8Of(cp))
<1> SUFFICES ASSUME NEW cp \in Characters, cp \notin HighSurrogate, cp \notin LowSurrogate
             PROVE  WellFormed(Utf8Of(cp))
  BY SMT
<1>0. cp \in Nat /\ cp \div 65536 <= 16
  BY SMT DEF Characters
<1>1. CASE cp <= 127
  <2>1. cp \in 0..127
    BY <1>0, <1>1, SMT
  <2>2. Utf8Of(cp) = <<cp>>
    BY <1>0, <1>1, OneByte
  <2> QED
    BY <2>1, <2>2, Zenon DEF WellFormed
<1>2. CASE cp \in 128..2047
  <2> DEFINE a == 192 + (cp \div 64)
  <2>1. a \in 194..223 /\ Trail(cp) \in Tail1
    BY <1>0, <1>2, TrailByte, SMT DEF Tail1
  <2>2. Utf8Of(cp) = <<a, Trail(cp)>>
    BY <1>0, <1>2, TwoBytes
  <2> HIDE DEF a
  <2> QED
    BY <2>1, <2>2, Zenon DEF WellFormed
<1>3. CASE cp \in 2048..65535
  <2> DEFINE a == 224 + (cp \div 4096)
             b == Trail(cp \div 64)
  <2>1. a \in 224..239 /\ b \in Tail1 /\ Trail(cp) \in Tail1
    BY <1>0, <1>3, TrailByte, SMT DEF Tail1
  <2>2. a = 224 => b >= 160
    BY <1>0, <1>3, SMT DEF Trail
  <2>3. a = 237 => b <= 159
    BY <1>0, <1>3, SMT DEF Trail, HighSurrogate, LowSurrogate
  <2>4. Utf8Of(cp) = <<a, b, Trail(cp)>>
    BY <1>0, <1>3, ThreeBytes
  <2> HIDE DEF a, b
  <2> QED
    BY <2>1, <2>2, <2>3, <2>4, Zenon DEF WellFormed
<1>4. CASE cp > 65535
  <2> DEFINE a == 240 + ((cp \div 4096) \div 64)
             b == Trail(cp \div 4096)
             c == Trail(cp \div 64)
  <2>1. a \in 240..244 /\ b \in Tail1 /\ c \in Tail1 /\ Trail(cp) \in Tail1
    BY <1>0, <1>4, TrailByte, SMT DEF Tail1
  <2>2. a = 240 => b >= 144
    BY <1>0, <1>4, SMT DEF Trail
  <2>3. a = 244 => b <= 143
    BY <1>0, <1>4, SMT DEF Trail
  <2>4. Utf8Of(cp) = <<a, b, c, Trail(cp)>>
    BY <1>0, <1>4, FourBytes
  <2> HIDE DEF a, b, c
  <2> QED
    BY <2>1, <2>2, <2>3, <2>4, Zenon DEF WellFormed
<1> QED
  BY <1>0, <1>1, <1>2, <1>3, <1>4, SMT
-----------------------------------------------------------------------------
\* Induction over the numbers, and over those up to n.
LEMMA NatInduct ==
  ASSUME NEW S, 0 \in S, \A n \in Nat : n \in S => n + 1 \in S
  PROVE  Nat \subseteq S
<1> DEFINE T == Nat \ S
           R == OpToRel(<, Nat)
<1>1. SUFFICES ASSUME T # {} PROVE FALSE
  OBVIOUS
<1>2. IsWellFoundedOn(R, Nat) /\ T \subseteq Nat
  BY NatLessThanWellFounded
<1>3. PICK m \in T : \A k \in T : ~(<<k, m>> \in R)
  <2> HIDE DEF R, T
  <2> QED
    BY <1>1, <1>2, WFMin
<1>4. m # 0 /\ m \in Nat /\ m - 1 \in Nat /\ m - 1 < m
  OBVIOUS
<1>5. <<m - 1, m>> \in R
  BY <1>4 DEF OpToRel
<1>6. m - 1 \in S
  BY <1>3, <1>4, <1>5
<1>7. (m - 1) + 1 = m
  BY <1>4
<1> QED
  BY <1>4, <1>6, <1>7

\* A set that 0 belongs to and that goes on from k to k + 1 has all numbers up to n.
LEMMA UpTo ==
  ASSUME NEW n \in Nat, NEW S, 0 \in S, \A k \in 0..(n - 1) : k \in S => k + 1 \in S
  PROVE  0..n \subseteq S
<1> DEFINE T == {k \in Nat : k <= n => k \in S}
<1>1. 0 \in T
  OBVIOUS
<1>2. ASSUME NEW k \in Nat, k \in T PROVE k + 1 \in T
  BY <1>2
<1>3. Nat \subseteq T
  <2> HIDE DEF T
  <2> QED
    BY <1>1, <1>2, NatInduct
<1> QED
  BY <1>3

\* What isValidUtf8 knows behind a byte is what it knew before, and the byte.
LEMMA PassedDef ==
  ASSUME NEW text, Len(text) \in Nat
  PROVE  Passed(text) =
           [k \in 0..Len(text) |->
              IF k = 0 THEN Begun(0, 0, 0) ELSE ReadByte(Passed(text)[k - 1], text[k])]
<1> DEFINE n == Len(text)
           S == {m \in Nat : \E f : f = [k \in 0..m |-> IF k = 0 THEN Begun(0, 0, 0) ELSE ReadByte(f[k - 1], text[k])]}
<1>1. 0 \in S
  <2>1. LET f == [k \in 0..0 |-> Begun(0, 0, 0)]
        IN  f = [k \in 0..0 |-> IF k = 0 THEN Begun(0, 0, 0) ELSE ReadByte(f[k - 1], text[k])]
    OBVIOUS
  <2> QED
    BY <2>1
<1>2. ASSUME NEW m \in Nat, m \in S PROVE m + 1 \in S
  <2>1. PICK f : f = [k \in 0..m |-> IF k = 0 THEN Begun(0, 0, 0) ELSE ReadByte(f[k - 1], text[k])]
    BY <1>2
  <2> DEFINE g == [k \in 0..(m + 1) |-> IF k = m + 1 THEN ReadByte(f[m], text[m + 1]) ELSE f[k]]
  <2>2. \A k \in 0..m : g[k] = f[k]
    OBVIOUS
  <2>3. ASSUME NEW k \in 0..(m + 1)
        PROVE  g[k] = IF k = 0 THEN Begun(0, 0, 0) ELSE ReadByte(g[k - 1], text[k])
    <3>1. CASE k = m + 1
      <4>1. g[k] = ReadByte(f[m], text[k]) /\ k # 0 /\ k - 1 = m
        BY <3>1
      <4> QED
        BY <4>1, <2>2
    <3>2. CASE k # m + 1
      <4>1. k \in 0..m /\ (k # 0 => k - 1 \in 0..m)
        BY <3>2
      <4>2. f[k] = IF k = 0 THEN Begun(0, 0, 0) ELSE ReadByte(f[k - 1], text[k])
        BY <2>1, <4>1
      <4> QED
        BY <2>2, <4>1, <4>2
    <3> QED
      BY <3>1, <3>2
  <2>4. g = [k \in 0..(m + 1) |-> IF k = 0 THEN Begun(0, 0, 0) ELSE ReadByte(g[k - 1], text[k])]
    <3> DEFINE h == [k \in 0..(m + 1) |-> IF k = 0 THEN Begun(0, 0, 0) ELSE ReadByte(g[k - 1], text[k])]
    <3>1. \A k \in 0..(m + 1) : g[k] = h[k]
      <4> HIDE DEF g
      <4> QED
        BY <2>3
    <3>2. g = [k \in 0..(m + 1) |-> g[k]] /\ h = [k \in 0..(m + 1) |-> h[k]]
      OBVIOUS
    <3> HIDE DEF g, h
    <3>3. g = h
      BY <3>1, <3>2
    <3> QED
      BY <3>3 DEF h
  <2> HIDE DEF g
  <2> QED
    BY <2>4
<1>3. \E f : f = [k \in 0..n |-> IF k = 0 THEN Begun(0, 0, 0) ELSE ReadByte(f[k - 1], text[k])]
  <2>1. Nat \subseteq S
    <3> HIDE DEF S
    <3> QED
      BY <1>1, <1>2, NatInduct
  <2> QED
    BY <2>1
<1> QED
  BY <1>3 DEF Passed

\* So it can be followed byte by byte.
LEMMA PassedAt ==
  ASSUME NEW text, Len(text) \in Nat
  PROVE  /\ Passed(text)[0] = Begun(0, 0, 0)
         /\ \A k \in 1..Len(text) : Passed(text)[k] = ReadByte(Passed(text)[k - 1], text[k])
<1> DEFINE state == Passed(text)
<1>1. state = [k \in 0..Len(text) |->
                 IF k = 0 THEN Begun(0, 0, 0) ELSE ReadByte(state[k - 1], text[k])]
  BY PassedDef
<1> HIDE DEF state
<1>2. state[0] = Begun(0, 0, 0)
  BY <1>1
<1>3. ASSUME NEW k \in 1..Len(text) PROVE state[k] = ReadByte(state[k - 1], text[k])
  BY <1>1
<1> QED
  BY <1>2, <1>3 DEF state

\* A text that is a beginning of another one passes as this one does so far.
LEMMA PassedBeginning ==
  ASSUME NEW s, NEW t, Len(s) \in Nat, Len(t) \in Nat, Len(s) <= Len(t),
         \A k \in 1..Len(s) : t[k] = s[k]
  PROVE  Passed(t)[Len(s)] = Passed(s)[Len(s)]
<1> DEFINE S == {k \in Nat : k <= Len(s) /\ Passed(t)[k] = Passed(s)[k]}
<1>1. 0 \in S
  BY PassedAt
<1>2. ASSUME NEW k \in 0..(Len(s) - 1), k \in S PROVE k + 1 \in S
  <2>1. /\ k + 1 \in 1..Len(s) /\ k + 1 \in 1..Len(t) /\ (k + 1) - 1 = k
        /\ Passed(t)[k] = Passed(s)[k]
    BY <1>2
  <2>2. /\ Passed(t)[k + 1] = ReadByte(Passed(t)[k], t[k + 1])
        /\ Passed(s)[k + 1] = ReadByte(Passed(s)[k], s[k + 1])
    BY <2>1, PassedAt
  <2> QED
    BY <2>1, <2>2
<1>3. 0..Len(s) \subseteq S
  <2> HIDE DEF S
  <2> QED
    BY <1>1, <1>2, UpTo
<1> QED
  BY <1>3

\* No byte mends a text that is broken.
LEMMA BrokenStays ==
  ASSUME NEW text, Len(text) \in Nat, NEW n \in 0..Len(text), Passed(text)[Len(text)].ok
  PROVE  Passed(text)[n].ok
<1> DEFINE S == {k \in Nat : k >= n => ~Passed(text)[k].ok}
<1>1. SUFFICES ASSUME ~Passed(text)[n].ok PROVE FALSE
  OBVIOUS
<1>2. 0 \in S
  BY <1>1
<1>3. ASSUME NEW k \in 0..(Len(text) - 1), k \in S PROVE k + 1 \in S
  <2>1. CASE k + 1 <= n
    BY <1>1, <2>1
  <2>2. CASE k >= n
    <3>1. ~Passed(text)[k].ok /\ k + 1 \in 1..Len(text) /\ (k + 1) - 1 = k
      BY <1>3, <2>2
    <3>2. Passed(text)[k + 1] = ReadByte(Passed(text)[k], text[k + 1])
      BY <3>1, PassedAt
    <3> QED
      BY <3>1, <3>2 DEF ReadByte
  <2> QED
    BY <2>1, <2>2
<1>4. 0..Len(text) \subseteq S
  <2> HIDE DEF S
  <2> QED
    BY <1>2, <1>3, UpTo
<1> QED
  BY <1>4

\* Between two characters.
Clean(state) == state.ok /\ state.left = 0

\* An ASCII byte is a character, and no part of another one.
LEMMA AsciiIsClean ==
  ASSUME NEW state, NEW b \in 0..127, ReadByte(state, b).ok
  PROVE  Clean(state) /\ Clean(ReadByte(state, b))
<1>1. state.ok
  BY DEF ReadByte
<1>2. state.left = 0
  <2> SUFFICES ASSUME state.left # 0 PROVE FALSE
    OBVIOUS
  <2>1. ReadByte(state, b) = Continuation(state, b)
    BY <1>1 DEF ReadByte
  <2>2. b \div 64 # 2
    BY SMT
  <2>3. Continuation(state, b) = Broken
    BY <2>2 DEF Continuation
  <2> QED
    BY <2>1, <2>3 DEF Broken
<1>3. ReadByte(state, b) = Begun(0, b, 0)
  BY <1>1, <1>2 DEF ReadByte, FirstByte
<1> QED
  BY <1>1, <1>2, <1>3 DEF Clean, Begun

\* The ranges of first bytes, and the bits of a continuation byte.
LEMMA FirstBytes ==
  /\ \A a \in 0..127 : FirstByte(a) = Begun(0, a, 0)
  /\ \A a \in 194..223 : FirstByte(a) = Begun(1, a % 32, 128)
  /\ \A a \in 224..239 : FirstByte(a) = Begun(2, a % 16, 2048)
  /\ \A a \in 240..244 : FirstByte(a) = Begun(3, a % 8, 65536)
<1>1. ASSUME NEW a \in 0..127 PROVE FirstByte(a) = Begun(0, a, 0)
  BY DEF FirstByte
<1>2. ASSUME NEW a \in 194..223 PROVE FirstByte(a) = Begun(1, a % 32, 128)
  BY DEF FirstByte
<1>3. ASSUME NEW a \in 224..239 PROVE FirstByte(a) = Begun(2, a % 16, 2048)
  BY DEF FirstByte
<1>4. ASSUME NEW a \in 240..244 PROVE FirstByte(a) = Begun(3, a % 8, 65536)
  BY DEF FirstByte
<1> QED
  BY <1>1, <1>2, <1>3, <1>4

LEMMA TailBits == \A b \in Tail1 : b % 64 = b - 128 /\ b \div 64 = 2
  BY DEF Tail1

\* What is read behind a character is a first byte; what is left tells the rest.
LEMMA CleanReads ==
  ASSUME NEW s, Clean(s), NEW b
  PROVE  ReadByte(s, b) = FirstByte(b)
  BY DEF Clean, ReadByte

LEMMA BegunReads ==
  ASSUME NEW left \in Nat \ {0}, NEW n, NEW minimum, NEW b \in Tail1
  PROVE  ReadByte(Begun(left, n, minimum), b) =
           IF left > 1 THEN Begun(left - 1, n * 64 + (b - 128), minimum)
           ELSE IF IsScalar(n * 64 + (b - 128), minimum) THEN Begun(0, n * 64 + (b - 128), 0)
           ELSE Broken
<1>1. ReadByte(Begun(left, n, minimum), b) = Continuation(Begun(left, n, minimum), b)
  BY DEF ReadByte, Begun
<1>2. b % 64 = b - 128 /\ b \div 64 = 2
  BY TailBits
<1> QED
  BY <1>1, <1>2 DEF Continuation, Begun

LEMMA CleanBegun == \A n, minimum : Clean(Begun(0, n, minimum))
  BY DEF Clean, Begun

\* A well-formed encoding leads from one character to the next.
LEMMA OnePasses ==
  ASSUME NEW s, Clean(s), NEW a \in 0..127
  PROVE  Clean(ReadByte(s, a))
<1>1. ReadByte(s, a) = Begun(0, a, 0)
  BY CleanReads, FirstBytes
<1> QED
  BY <1>1 DEF Clean, Begun

LEMMA TwoPass ==
  ASSUME NEW s, Clean(s), NEW a \in 194..223, NEW b \in Tail1
  PROVE  Clean(ReadByte(ReadByte(s, a), b))
<1>1. ReadByte(s, a) = Begun(1, a % 32, 128)
  BY CleanReads, FirstBytes
<1>2. a % 32 = a - 192
  OBVIOUS
<1>3. IsScalar((a - 192) * 64 + (b - 128), 128)
  BY DEF IsScalar, Tail1
<1>4. ReadByte(Begun(1, a - 192, 128), b) = Begun(0, (a - 192) * 64 + (b - 128), 0)
  BY <1>3, BegunReads
<1>5. ReadByte(ReadByte(s, a), b) = Begun(0, (a - 192) * 64 + (b - 128), 0)
  BY <1>1, <1>2, <1>4, Zenon
<1> QED
  BY <1>5, CleanBegun

LEMMA ThreePass ==
  ASSUME NEW s, Clean(s), NEW a \in 224..239, NEW b \in Tail1, NEW c \in Tail1,
         a = 224 => b >= 160, a = 237 => b <= 159
  PROVE  Clean(ReadByte(ReadByte(ReadByte(s, a), b), c))
<1> DEFINE two == (a - 224) * 64 + (b - 128)
           three == two * 64 + (c - 128)
<1>1. a % 16 = a - 224
  OBVIOUS
<1>2. ReadByte(s, a) = Begun(2, a - 224, 2048)
  BY <1>1, CleanReads, FirstBytes
<1>3. IsScalar(three, 2048)
  BY DEF IsScalar, Tail1
<1>4. ReadByte(Begun(2, a - 224, 2048), b) = Begun(1, two, 2048)
  BY BegunReads
<1> HIDE DEF two
<1>5. ReadByte(Begun(1, two, 2048), c) = Begun(0, three, 0)
  BY <1>3, BegunReads
<1> HIDE DEF three
<1>6. ReadByte(ReadByte(ReadByte(s, a), b), c) = Begun(0, three, 0)
  BY <1>2, <1>4, <1>5
<1> QED
  BY <1>6, CleanBegun

LEMMA FourPass ==
  ASSUME NEW s, Clean(s), NEW a \in 240..244, NEW b \in Tail1, NEW c \in Tail1, NEW d \in Tail1,
         a = 240 => b >= 144, a = 244 => b <= 143
  PROVE  Clean(ReadByte(ReadByte(ReadByte(ReadByte(s, a), b), c), d))
<1> DEFINE two == (a - 240) * 64 + (b - 128)
           three == two * 64 + (c - 128)
           four == three * 64 + (d - 128)
<1>1. a % 8 = a - 240
  OBVIOUS
<1>2. ReadByte(s, a) = Begun(3, a - 240, 65536)
  BY <1>1, CleanReads, FirstBytes
<1>3. IsScalar(four, 65536)
  BY DEF IsScalar, Tail1
<1>4. ReadByte(Begun(3, a - 240, 65536), b) = Begun(2, two, 65536)
  BY BegunReads
<1> HIDE DEF two
<1>5. ReadByte(Begun(2, two, 65536), c) = Begun(1, three, 65536)
  BY BegunReads
<1> HIDE DEF three
<1>6. ReadByte(Begun(1, three, 65536), d) = Begun(0, four, 0)
  BY <1>3, BegunReads
<1> HIDE DEF four
<1>7. ReadByte(ReadByte(ReadByte(ReadByte(s, a), b), c), d) = Begun(0, four, 0)
  BY <1>2, <1>4, <1>5, <1>6
<1> QED
  BY <1>7, CleanBegun

\* The same of the end of a text.
LEMMA EncodingPasses ==
  ASSUME NEW text, NEW n \in Nat, Len(text) \in Nat, NEW bytes, WellFormed(bytes),
         Len(text) = n + Len(bytes), Clean(Passed(text)[n]),
         \A k \in 1..Len(bytes) : text[n + k] = bytes[k]
  PROVE  Clean(Passed(text)[Len(text)])
<1> DEFINE state == Passed(text)
<1>1. \A k \in Nat : k < Len(text) => state[k + 1] = ReadByte(state[k], text[k + 1])
  <2> SUFFICES ASSUME NEW k \in Nat, k < Len(text)
               PROVE  state[k + 1] = ReadByte(state[k], text[k + 1])
    OBVIOUS
  <2>1. k + 1 \in 1..Len(text) /\ (k + 1) - 1 = k
    OBVIOUS
  <2> QED
    BY <2>1, PassedAt
<1> HIDE DEF state
<1>2. Clean(state[n])
  BY DEF state
<1>3. CASE \E a \in 0..127 : bytes = <<a>>
  <2>1. PICK a \in 0..127 : bytes = <<a>>
    BY <1>3
  <2>2. Len(text) = n + 1 /\ text[n + 1] = a
    BY <2>1
  <2>3. state[n + 1] = ReadByte(state[n], a)
    BY <1>1, <2>2
  <2>4. Clean(ReadByte(state[n], a))
    BY <1>2, OnePasses
  <2> QED
    BY <2>2, <2>3, <2>4 DEF state
<1>4. CASE \E a \in 194..223, b \in Tail1 : bytes = <<a, b>>
  <2>1. PICK a \in 194..223, b \in Tail1 : bytes = <<a, b>>
    BY <1>4
  <2>2. Len(text) = n + 2 /\ text[n + 1] = a /\ text[n + 2] = b
    BY <2>1
  <2>3. /\ state[n + 1] = ReadByte(state[n], a)
        /\ state[(n + 1) + 1] = ReadByte(state[n + 1], b)
    BY <1>1, <2>2
  <2>4. Clean(ReadByte(ReadByte(state[n], a), b))
    BY <1>2, TwoPass
  <2> QED
    BY <2>2, <2>3, <2>4 DEF state
<1>5. CASE \E a \in 224..239, b, c \in Tail1 :
             /\ a = 224 => b >= 160
             /\ a = 237 => b <= 159
             /\ bytes = <<a, b, c>>
  <2>1. PICK a \in 224..239, b \in Tail1, c \in Tail1 :
          /\ a = 224 => b >= 160
          /\ a = 237 => b <= 159
          /\ bytes = <<a, b, c>>
    BY <1>5
  <2>2. Len(text) = n + 3 /\ text[n + 1] = a /\ text[n + 2] = b /\ text[n + 3] = c
    BY <2>1
  <2>3. /\ state[n + 1] = ReadByte(state[n], a)
        /\ state[(n + 1) + 1] = ReadByte(state[n + 1], b)
        /\ state[(n + 2) + 1] = ReadByte(state[n + 2], c)
    BY <1>1, <2>2
  <2>4. Clean(ReadByte(ReadByte(ReadByte(state[n], a), b), c))
    BY <1>2, <2>1, ThreePass
  <2> QED
    BY <2>2, <2>3, <2>4 DEF state
<1>6. CASE \E a \in 240..244, b, c, d \in Tail1 :
             /\ a = 240 => b >= 144
             /\ a = 244 => b <= 143
             /\ bytes = <<a, b, c, d>>
  <2>1. PICK a \in 240..244, b \in Tail1, c \in Tail1, d \in Tail1 :
          /\ a = 240 => b >= 144
          /\ a = 244 => b <= 143
          /\ bytes = <<a, b, c, d>>
    BY <1>6
  <2>2. /\ Len(text) = n + 4 /\ text[n + 1] = a /\ text[n + 2] = b
        /\ text[n + 3] = c /\ text[n + 4] = d
    BY <2>1
  <2>3. /\ state[n + 1] = ReadByte(state[n], a)
        /\ state[(n + 1) + 1] = ReadByte(state[n + 1], b)
        /\ state[(n + 2) + 1] = ReadByte(state[n + 2], c)
        /\ state[(n + 3) + 1] = ReadByte(state[n + 3], d)
    BY <1>1, <2>2
  <2>4. Clean(ReadByte(ReadByte(ReadByte(ReadByte(state[n], a), b), c), d))
    BY <1>2, <2>1, FourPass
  <2> QED
    BY <2>2, <2>3, <2>4 DEF state
<1> QED
  BY <1>3, <1>4, <1>5, <1>6, Zenon DEF WellFormed

-----------------------------------------------------------------------------
\* The text passes isValidUtf8 as the string does: both are in the middle of
\* the same character, or between two.
Alike ==
  \/ Passed(out)[Len(out)] = Passed(raw)[i]
  \/ Clean(Passed(out)[Len(out)]) /\ Clean(Passed(raw)[i])

TextInv ==
  /\ out \in Seq(Int)
  /\ pc = "scan" => Alike
  /\ pc = "pair" => Clean(Passed(out)[Len(out)]) /\ Clean(Passed(raw)[i])
  /\ TextValid

LEMMA RawPasses ==
  ASSUME raw \in Raws
  PROVE  /\ raw \in Seq(0..255) /\ isValidUtf8(raw)
         /\ Len(raw) \in Nat /\ Clean(Passed(raw)[Len(raw)])
  BY StringsAssumption, LenProperties DEF Accepts, isValidUtf8, Clean

\* Where an ASCII byte of a valid text is read, a character is over.
LEMMA AsciiRead ==
  ASSUME NEW text, Len(text) \in Nat, isValidUtf8(text),
         NEW n \in Nat, n < Len(text), text[n + 1] \in 0..127
  PROVE  Clean(Passed(text)[n]) /\ Clean(Passed(text)[n + 1])
<1>1. Passed(text)[Len(text)].ok
  BY DEF isValidUtf8
<1>2. n + 1 \in 0..Len(text) /\ n + 1 \in 1..Len(text) /\ (n + 1) - 1 = n
  OBVIOUS
<1>3. Passed(text)[n + 1].ok
  BY <1>1, <1>2, BrokenStays
<1>4. Passed(text)[n + 1] = ReadByte(Passed(text)[n], text[n + 1])
  BY <1>2, PassedAt
<1> QED
  BY <1>3, <1>4, AsciiIsClean

\* All of an escape is ASCII, and what it stands for is not read with it.
LEMMA EscapeRead ==
  ASSUME IInv, pc \in {"scan", "pair"}, i < Len(raw), raw[i + 1] = Backslash
  PROVE  /\ Clean(Passed(raw)[i])
         /\ raw[i + 2] \in DOMAIN SimpleEscape => Clean(Passed(raw)[i + 2])
         /\ raw[i + 2] = LowerU => Clean(Passed(raw)[i + 6])
<1>1. raw \in Raws /\ i \in Nat /\ Len(raw) \in Nat /\ isValidUtf8(raw)
  BY RawPasses DEF IInv
<1>2. Clean(Passed(raw)[i])
  BY <1>1, AsciiRead DEF Backslash
<1>3. ASSUME raw[i + 2] \in DOMAIN SimpleEscape PROVE Clean(Passed(raw)[i + 2])
  <2>1. i + 2 <= Len(raw)
    BY <1>3, EscapeThere, UnitIsNotSimple
  <2>2. raw[(i + 1) + 1] \in 0..127 /\ i + 1 \in Nat /\ i + 1 < Len(raw)
    BY <1>1, <1>3, <2>1, SimpleDomain
  <2>3. Clean(Passed(raw)[(i + 1) + 1])
    BY <1>1, <2>2, AsciiRead
  <2> QED
    BY <1>1, <2>3
<1>4. ASSUME raw[i + 2] = LowerU PROVE Clean(Passed(raw)[i + 6])
  <2>1. i + 6 <= Len(raw) /\ IsUnicodeEscape(raw, i, i + 6)
    BY <1>4, EscapeThere, UnitIsNotSimple
  <2>2. raw[i + 6] \in Digit \cup HexLetters
    BY <1>1, <2>1 DEF IsUnicodeEscape
  <2>3. raw[(i + 5) + 1] \in 0..127 /\ i + 5 \in Nat /\ i + 5 < Len(raw)
    BY <1>1, <2>1, <2>2 DEF Digit, HexLetters
  <2>4. Clean(Passed(raw)[(i + 5) + 1])
    BY <1>1, <2>3, AsciiRead
  <2> QED
    BY <1>1, <2>4
<1> QED
  BY <1>2, <1>3, <1>4

\* Four hexadecimal digits are a unit of 16 bits.
LEMMA HexIsUnit ==
  ASSUME NEW p \in Nat, IsUnicodeEscape(raw, p, p + 6)
  PROVE  readHex(p + 2) \in Nat /\ readHex(p + 2) <= 65535
<1>1. ASSUME NEW c \in Digit \cup HexLetters PROVE HexValue(c) \in 0..15
  BY DEF Digit, HexLetters, HexValue
<1>2. \A k \in (p + 3)..(p + 6) : raw[k] \in Digit \cup HexLetters
  BY DEF IsUnicodeEscape
<1> DEFINE a == HexValue(raw[(p + 2) + 1])
           b == HexValue(raw[(p + 2) + 2])
           c == HexValue(raw[(p + 2) + 3])
           d == HexValue(raw[(p + 2) + 4])
<1> DEFINE two == a * 16 + b
           three == two * 16 + c
           four == three * 16 + d
<1>3. readHex(p + 2) = four
  BY DEF readHex
<1>4. a \in 0..15 /\ b \in 0..15 /\ c \in 0..15 /\ d \in 0..15
  <2>1. /\ (p + 2) + 1 \in (p + 3)..(p + 6) /\ (p + 2) + 2 \in (p + 3)..(p + 6)
        /\ (p + 2) + 3 \in (p + 3)..(p + 6) /\ (p + 2) + 4 \in (p + 3)..(p + 6)
    OBVIOUS
  <2> QED
    BY <1>1, <1>2, <2>1
<1> HIDE DEF a, b, c, d
<1>5. two \in 0..255
  BY <1>4
<1> HIDE DEF two
<1>6. three \in 0..4095
  BY <1>4, <1>5
<1> HIDE DEF three
<1>7. four \in Nat /\ four <= 65535
  BY <1>4, <1>6
<1> HIDE DEF four
<1> QED
  BY <1>3, <1>7

\* A well-formed encoding is a sequence of bytes.
LEMMA EncodingIsText ==
  ASSUME NEW bytes, WellFormed(bytes)
  PROVE  bytes \in Seq(Int)
<1>1. CASE \E a \in 0..127 : bytes = <<a>>
  BY <1>1
<1>2. CASE \E a \in 194..223, b \in Tail1 : bytes = <<a, b>>
  BY <1>2 DEF Tail1
<1>3. CASE \E a \in 224..239, b, c \in Tail1 : bytes = <<a, b, c>>
  BY <1>3 DEF Tail1
<1>4. CASE \E a \in 240..244, b, c, d \in Tail1 : bytes = <<a, b, c, d>>
  BY <1>4 DEF Tail1
<1> QED
  BY <1>1, <1>2, <1>3, <1>4, Zenon DEF WellFormed

\* A character is appended to a text that is between two.
LEMMA CharacterAppended ==
  ASSUME NEW before \in Seq(Int), Clean(Passed(before)[Len(before)]), NEW bytes, WellFormed(bytes)
  PROVE  before \o bytes \in Seq(Int) /\ Clean(Passed(before \o bytes)[Len(before \o bytes)])
<1> DEFINE text == before \o bytes
<1>1. bytes \in Seq(Int)
  BY EncodingIsText
<1>2. /\ text \in Seq(Int) /\ Len(text) = Len(before) + Len(bytes)
      /\ Len(before) \in Nat /\ Len(bytes) \in Nat /\ Len(text) \in Nat
      /\ \A k \in 1..Len(before) : text[k] = before[k]
      /\ \A k \in 1..Len(bytes) : text[Len(before) + k] = bytes[k]
  BY <1>1, ConcatProperties, LenProperties
<1> HIDE DEF text
<1>3. Passed(text)[Len(before)] = Passed(before)[Len(before)]
  BY <1>2, PassedBeginning
<1>4. Clean(Passed(text)[Len(text)])
  BY <1>2, <1>3, EncodingPasses
<1> QED
  BY <1>2, <1>4 DEF text

\* A byte is appended to a text.
LEMMA ByteAppended ==
  ASSUME NEW before \in Seq(Int), NEW b \in Int
  PROVE  /\ before \o <<b>> \in Seq(Int) /\ Len(before \o <<b>>) = Len(before) + 1
         /\ Passed(before \o <<b>>)[Len(before) + 1] = ReadByte(Passed(before)[Len(before)], b)
<1> DEFINE text == before \o <<b>>
           n == Len(before)
<1>1. /\ text \in Seq(Int) /\ Len(text) = n + 1 /\ n \in Nat /\ text[n + 1] = b
      /\ \A k \in 1..n : text[k] = before[k]
  <2>1. <<b>> \in Seq(Int) /\ Len(<<b>>) = 1 /\ <<b>>[1] = b
    OBVIOUS
  <2> QED
    BY <2>1, ConcatProperties, LenProperties
<1> HIDE DEF text
<1>2. Passed(text)[n] = Passed(before)[n]
  BY <1>1, PassedBeginning
<1>3. Passed(text)[n + 1] = ReadByte(Passed(text)[n], b)
  <2>1. n + 1 \in 1..Len(text) /\ (n + 1) - 1 = n /\ Len(text) \in Nat
    BY <1>1
  <2> QED
    BY <1>1, <2>1, PassedAt
<1> QED
  BY <1>1, <1>2, <1>3 DEF text

\* Both passes begin alike.
LEMMA InitText == Init => TextInv
<1> SUFFICES ASSUME Init PROVE TextInv
  OBVIOUS
<1>1. raw \in Raws /\ i = 0 /\ out = <<>> /\ pc = "scan" /\ Len(out) = 0 /\ out \in Seq(Int)
  BY DEF Init
<1>2. Passed(out)[0] = Begun(0, 0, 0) /\ Passed(raw)[0] = Begun(0, 0, 0)
  BY <1>1, PassedAt, RawPasses
<1> QED
  BY <1>1, <1>2 DEF TextInv, Alike, TextValid

\* An encoding is appended, and the string read on to where a character is over.
LEMMA AppendStep ==
  ASSUME IInv, TextInv, Clean(Passed(out)[Len(out)]), NEW bytes, WellFormed(bytes), NEW n,
         AppendAndGoOn(bytes, n), Clean(Passed(raw)[n])
  PROVE  TextInv'
<1>1. out' = out \o bytes /\ i' = n /\ pc' = "scan" /\ raw' = raw
  BY DEF AppendAndGoOn
<1>2. out' \in Seq(Int) /\ Clean(Passed(out')[Len(out')])
  BY <1>1, CharacterAppended DEF TextInv
<1>3. Alike'
  BY <1>1, <1>2 DEF Alike
<1> QED
  BY <1>1, <1>2, <1>3 DEF TextInv, TextValid

\* A byte is copied: both passes go on with it alike, also within a character.
LEMMA CharacterStep ==
  ASSUME IInv, TextInv, Character
  PROVE  TextInv'
<1> DEFINE b == raw[i + 1]
<1>1. /\ pc = "scan" /\ i < Len(raw) /\ out' = out \o <<b>> /\ i' = i + 1 /\ pc' = "scan" /\ raw' = raw
  BY DEF Character, More, AppendAndGoOn
<1>2. raw \in Raws /\ i \in Nat /\ Len(raw) \in Nat /\ b \in Int
  <2>1. raw \in Raws /\ i \in Nat /\ Len(raw) \in Nat
    BY RawPasses DEF IInv
  <2>2. raw \in Seq(0..255) /\ i + 1 \in 1..Len(raw)
    BY <1>1, <2>1, RawPasses
  <2>3. b \in 0..255
    BY <2>2, ElementOfSeq
  <2> HIDE DEF b
  <2>4. b \in Int
    BY <2>3
  <2> QED
    BY <2>1, <2>4
<1>3. out \in Seq(Int) /\ Alike
  BY <1>1 DEF TextInv
<1> DEFINE text == out \o <<b>>
           n == Len(out)
<1> HIDE DEF b
<1>4. text \in Seq(Int) /\ Len(text) = n + 1 /\ Passed(text)[n + 1] = ReadByte(Passed(out)[n], b)
  BY <1>2, <1>3, ByteAppended
<1> HIDE DEF text
<1>6. Passed(raw)[i + 1] = ReadByte(Passed(raw)[i], b)
  <2>1. i + 1 \in 1..Len(raw) /\ (i + 1) - 1 = i
    BY <1>1, <1>2
  <2> QED
    BY <1>2, <2>1, PassedAt DEF b
<1>7. Passed(text)[n + 1] = Passed(raw)[i + 1]
  <2>1. CASE Passed(out)[n] = Passed(raw)[i]
    BY <1>4, <1>6, <2>1
  <2>2. CASE Clean(Passed(out)[n]) /\ Clean(Passed(raw)[i])
    BY <1>4, <1>6, <2>2, CleanReads
  <2> QED
    BY <1>3, <2>1, <2>2 DEF Alike
<1>8. Alike'
  BY <1>1, <1>4, <1>7 DEF Alike, text
<1> QED
  BY <1>1, <1>4, <1>8 DEF TextInv, TextValid, text

\* Before an escape the text is between two characters.
LEMMA EscapeBetween ==
  ASSUME IInv, TextInv, Escape
  PROVE  Clean(Passed(out)[Len(out)])
<1>1. Clean(Passed(raw)[i]) /\ pc = "scan"
  BY EscapeRead DEF Escape, More
<1> QED
  BY <1>1 DEF TextInv, Alike

\* Each of the escapes: what it stands for is a well-formed encoding.
LEMMA SimpleStep ==
  ASSUME IInv, TextInv, UnescapeSimple
  PROVE  TextInv'
<1>1. /\ Escape /\ raw[i + 2] \in DOMAIN SimpleEscape
      /\ AppendAndGoOn(<<SimpleEscape[raw[i + 2]]>>, i + 2)
  BY DEF UnescapeSimple
<1>2. Clean(Passed(raw)[i + 2]) /\ Clean(Passed(out)[Len(out)])
  BY <1>1, EscapeRead, EscapeBetween DEF Escape, More
<1>3. \A c \in DOMAIN SimpleEscape : SimpleEscape[c] \in 0..127
  BY DEF SimpleEscape
<1>4. WellFormed(<<SimpleEscape[raw[i + 2]]>>)
  BY <1>1, <1>3 DEF WellFormed
<1> QED
  BY <1>1, <1>2, <1>4, AppendStep

LEMMA UnitStep ==
  ASSUME IInv, TextInv, UnescapeUnit
  PROVE  TextInv'
<1>1. /\ Escape /\ raw[i + 2] = LowerU /\ Unit \notin HighSurrogate \cup LowSurrogate
      /\ AppendAndGoOn(Utf8Of(Unit), i + 6)
  BY DEF UnescapeUnit
<1>2. Clean(Passed(raw)[i + 6]) /\ Clean(Passed(out)[Len(out)])
  BY <1>1, EscapeRead, EscapeBetween DEF Escape, More
<1>3. Unit \in Nat /\ Unit <= 65535
  <2>1. IsUnicodeEscape(raw, i, i + 6)
    BY <1>1, EscapeThere, UnitIsNotSimple DEF Escape, More
  <2>2. i \in Nat
    BY DEF IInv
  <2> QED
    BY <2>1, <2>2, HexIsUnit DEF Unit
<1>4. Unit \in Characters \ (HighSurrogate \cup LowSurrogate)
  <2> HIDE DEF Unit
  <2>1. Unit \div 65536 <= 16
    BY <1>3
  <2> QED
    BY <1>1, <1>3, <2>1 DEF Characters
<1>5. WellFormed(Utf8Of(Unit))
  BY <1>4, EncodingsWellFormed
<1> QED
  BY <1>1, <1>2, <1>5, AppendStep

LEMMA PairStep ==
  ASSUME IInv, TextInv, JoinPair
  PROVE  TextInv'
<1> DEFINE cp == CodePoint(high, Unit)
<1>1. /\ pc = "pair" /\ UnitFollows /\ Unit \in LowSurrogate
      /\ AppendAndGoOn(Utf8Of(cp), i + 6)
  BY DEF JoinPair
<1>2. i < Len(raw) /\ raw[i + 1] = Backslash /\ raw[i + 2] = LowerU
  BY <1>1 DEF UnitFollows, IInv
<1>3. Clean(Passed(raw)[i + 6]) /\ Clean(Passed(out)[Len(out)])
  BY <1>1, <1>2, EscapeRead DEF TextInv
<1>4. cp \in Supplementary
  BY <1>1, PairsAreCharacters DEF IInv
<1> HIDE DEF cp
<1>5. cp \in Characters /\ cp \notin HighSurrogate \cup LowSurrogate
  BY <1>4, SMT DEF Supplementary, Characters, HighSurrogate, LowSurrogate
<1>6. WellFormed(Utf8Of(cp))
  BY <1>5, EncodingsWellFormed
<1> QED
  BY <1>1, <1>3, <1>6, AppendStep

\* At its end the string is between two characters, so the text is.
LEMMA FinishStep ==
  ASSUME IInv, TextInv, Finish
  PROVE  TextInv'
<1>1. pc = "scan" /\ i = Len(raw) /\ pc' = "done" /\ raw' = raw /\ i' = i /\ out' = out
  BY DEF Finish
<1>2. Clean(Passed(raw)[i])
  BY <1>1, RawPasses DEF IInv
<1>3. Clean(Passed(out)[Len(out)])
  BY <1>1, <1>2 DEF TextInv, Alike
<1>4. isValidUtf8(out)
  BY <1>3 DEF isValidUtf8, Clean
<1> QED
  BY <1>1, <1>4 DEF TextInv, TextValid

\* Every step keeps what has been said of the text.
LEMMA NextText == IInv /\ TextInv /\ [Next]_vars => TextInv'
<1> SUFFICES ASSUME IInv, TextInv, [Next]_vars PROVE TextInv'
  OBVIOUS
<1>1. CASE Character
  BY <1>1, CharacterStep
<1>2. CASE UnescapeSimple
  BY <1>2, SimpleStep
<1>3. CASE UnescapeUnit
  BY <1>3, UnitStep
<1>4. CASE LowFirst
  BY <1>4 DEF LowFirst, Throw, TextInv, TextValid
<1>5. CASE HighFirst
  <2>1. Escape /\ raw[i + 2] = LowerU /\ raw' = raw /\ out' = out /\ i' = i + 6 /\ pc' = "pair"
    BY <1>5 DEF HighFirst
  <2>2. Clean(Passed(raw)[i + 6]) /\ Clean(Passed(out)[Len(out)])
    BY <2>1, EscapeRead, EscapeBetween DEF Escape, More
  <2> QED
    BY <2>1, <2>2 DEF TextInv, TextValid
<1>6. CASE JoinPair
  BY <1>6, PairStep
<1>7. CASE BreakPair
  BY <1>7 DEF BreakPair, Throw, TextInv, TextValid
<1>8. CASE Finish
  BY <1>8, FinishStep
<1>9. CASE UNCHANGED vars
  BY <1>9 DEF vars, TextInv, TextValid, Alike
<1> QED
  BY <1>1, <1>2, <1>3, <1>4, <1>5, <1>6, <1>7, <1>8, <1>9 DEF Next, Unescape, Ended

\* What has been parsed can be written (JsonSerializer.cpp refuses what
\* isValidUtf8 does): whatever escapes a string of well-formed UTF-8 contains,
\* of whatever length, unescapeString returns well-formed UTF-8 or throws.
THEOREM TextsAreValid == Spec => []TextValid
<1>1. IInv /\ TextInv /\ [Next]_vars => (IInv /\ TextInv)'
  BY NextIInv, NextText
<1>2. TextInv => TextValid
  BY DEF TextInv
<1> QED
  BY <1>1, <1>2, InitIInv, InitText, PTL DEF Spec
-----------------------------------------------------------------------------
\* What escapeString has written behind a byte is what it had written before,
\* and what is written for the byte.
LEMMA WrittenDef ==
  ASSUME NEW text, Len(text) \in Nat
  PROVE  Written(text) =
           [k \in 0..Len(text) |->
              IF k = 0 THEN <<>> ELSE WriteByte(Written(text)[k - 1], text[k])]
<1> DEFINE n == Len(text)
           S == {m \in Nat : \E f : f = [k \in 0..m |-> IF k = 0 THEN <<>> ELSE WriteByte(f[k - 1], text[k])]}
<1>1. 0 \in S
  <2>1. LET f == [k \in 0..0 |-> <<>>]
        IN  f = [k \in 0..0 |-> IF k = 0 THEN <<>> ELSE WriteByte(f[k - 1], text[k])]
    OBVIOUS
  <2> QED
    BY <2>1
<1>2. ASSUME NEW m \in Nat, m \in S PROVE m + 1 \in S
  <2>1. PICK f : f = [k \in 0..m |-> IF k = 0 THEN <<>> ELSE WriteByte(f[k - 1], text[k])]
    BY <1>2
  <2> DEFINE g == [k \in 0..(m + 1) |-> IF k = m + 1 THEN WriteByte(f[m], text[m + 1]) ELSE f[k]]
  <2>2. \A k \in 0..m : g[k] = f[k]
    OBVIOUS
  <2>3. ASSUME NEW k \in 0..(m + 1)
        PROVE  g[k] = IF k = 0 THEN <<>> ELSE WriteByte(g[k - 1], text[k])
    <3>1. CASE k = m + 1
      <4>1. g[k] = WriteByte(f[m], text[k]) /\ k # 0 /\ k - 1 = m
        BY <3>1
      <4> QED
        BY <4>1, <2>2
    <3>2. CASE k # m + 1
      <4>1. k \in 0..m /\ (k # 0 => k - 1 \in 0..m)
        BY <3>2
      <4>2. f[k] = IF k = 0 THEN <<>> ELSE WriteByte(f[k - 1], text[k])
        BY <2>1, <4>1
      <4> QED
        BY <2>2, <4>1, <4>2
    <3> QED
      BY <3>1, <3>2
  <2>4. g = [k \in 0..(m + 1) |-> IF k = 0 THEN <<>> ELSE WriteByte(g[k - 1], text[k])]
    <3> DEFINE h == [k \in 0..(m + 1) |-> IF k = 0 THEN <<>> ELSE WriteByte(g[k - 1], text[k])]
    <3>1. \A k \in 0..(m + 1) : g[k] = h[k]
      <4> HIDE DEF g
      <4> QED
        BY <2>3
    <3>2. g = [k \in 0..(m + 1) |-> g[k]] /\ h = [k \in 0..(m + 1) |-> h[k]]
      OBVIOUS
    <3> HIDE DEF g, h
    <3>3. g = h
      BY <3>1, <3>2
    <3> QED
      BY <3>3 DEF h
  <2> HIDE DEF g
  <2> QED
    BY <2>4
<1>3. \E f : f = [k \in 0..n |-> IF k = 0 THEN <<>> ELSE WriteByte(f[k - 1], text[k])]
  <2>1. Nat \subseteq S
    <3> HIDE DEF S
    <3> QED
      BY <1>1, <1>2, NatInduct
  <2> QED
    BY <2>1
<1> QED
  BY <1>3 DEF Written

LEMMA WrittenAt ==
  ASSUME NEW text, Len(text) \in Nat
  PROVE  /\ Written(text)[0] = <<>>
         /\ \A k \in 1..Len(text) : Written(text)[k] = WriteByte(Written(text)[k - 1], text[k])
<1> DEFINE state == Written(text)
<1>1. state = [k \in 0..Len(text) |->
                 IF k = 0 THEN <<>> ELSE WriteByte(state[k - 1], text[k])]
  BY WrittenDef
<1> HIDE DEF state
<1>2. state[0] = <<>>
  BY <1>1
<1>3. ASSUME NEW k \in 1..Len(text) PROVE state[k] = WriteByte(state[k - 1], text[k])
  BY <1>1
<1> QED
  BY <1>2, <1>3 DEF state

\* A byte is written as an escape of two characters, as one of six, or as it is.
ShortForm(c, e) ==
  /\ e \in DOMAIN SimpleEscape /\ SimpleEscape[e] = c /\ c \in 0..127
  /\ Escaped(c) = <<Backslash, e>>
Nought == 48
LongForm(c, h, l) ==
  /\ h \in Digit \cup HexLetters /\ l \in Digit \cup HexLetters
  /\ HexValue(h) * 16 + HexValue(l) = c /\ c \in 0..31
  /\ Escaped(c) = <<Backslash, LowerU, Nought, Nought, h, l>>
PlainForm(c) == c \in (32..255) \ {34, 92} /\ Escaped(c) = <<c>>

LEMMA EscapedForms ==
  ASSUME NEW c \in 0..255
  PROVE  (\E e : ShortForm(c, e)) \/ (\E h, l : LongForm(c, h, l)) \/ PlainForm(c)
<1>0. DOMAIN ShortEscape = {8, 9, 10, 12, 13}
  BY DEF ShortEscape
<1>1. CASE c \in {34, 92}
  <2>1. Escaped(c) = <<Backslash, c>>
    BY <1>0, <1>1 DEF Escaped, Quote, Backslash
  <2>2. c \in DOMAIN SimpleEscape /\ SimpleEscape[c] = c
    BY <1>1 DEF SimpleEscape
  <2> QED
    BY <1>1, <2>1, <2>2 DEF ShortForm
<1>2. CASE c \in {8, 9, 10, 12, 13}
  <2>1. Escaped(c) = <<Backslash, ShortEscape[c]>>
    BY <1>0, <1>2 DEF Escaped, Quote, Backslash
  <2>2. ShortEscape[c] \in DOMAIN SimpleEscape /\ SimpleEscape[ShortEscape[c]] = c
    BY <1>2 DEF SimpleEscape, ShortEscape
  <2> QED
    BY <1>2, <2>1, <2>2 DEF ShortForm
<1>3. CASE c < 32 /\ c \notin {8, 9, 10, 12, 13}
  <2> DEFINE h == HexDigitOf(c \div 16)
             l == HexDigitOf(c % 16)
  <2>1. Escaped(c) = <<Backslash, LowerU, Nought, Nought, h, l>>
    BY <1>0, <1>3 DEF Escaped, Quote, Backslash, Nought
  <2>2. ASSUME NEW n \in 0..15
        PROVE  HexDigitOf(n) \in Digit \cup HexLetters /\ HexValue(HexDigitOf(n)) = n
    BY DEF HexDigitOf, HexValue, Digit, HexLetters
  <2>3. c \div 16 \in 0..15 /\ c % 16 \in 0..15 /\ (c \div 16) * 16 + (c % 16) = c
    BY <1>3
  <2>4. /\ h \in Digit \cup HexLetters /\ l \in Digit \cup HexLetters
        /\ HexValue(h) = c \div 16 /\ HexValue(l) = c % 16
    BY <2>2, <2>3
  <2>5. c \in 0..31
    BY <1>3
  <2> HIDE DEF h, l
  <2> QED
    BY <2>1, <2>3, <2>4, <2>5 DEF LongForm
<1>4. CASE c >= 32 /\ c \notin {34, 92}
  <2>1. Escaped(c) = <<c>>
    BY <1>0, <1>4 DEF Escaped, Quote, Backslash
  <2> QED
    BY <1>4, <2>1 DEF PlainForm
<1> QED
  BY <1>1, <1>2, <1>3, <1>4

\* What is written for a byte is a sequence of bytes, ASCII if it is an escape.
LEMMA EscapedIsText ==
  ASSUME NEW c \in 0..255
  PROVE  /\ Escaped(c) \in Seq(0..255) /\ Len(Escaped(c)) \in Nat \ {0}
         /\ PlainForm(c) \/ (c \in 0..127 /\ Escaped(c) \in Seq(0..127))
<1>1. ASSUME NEW e, ShortForm(c, e)
      PROVE  c \in 0..127 /\ Escaped(c) \in Seq(0..127) /\ Len(Escaped(c)) = 2
  <2>1. e \in 0..127 /\ Backslash \in 0..127 /\ Escaped(c) = <<Backslash, e>> /\ c \in 0..127
    BY <1>1, SimpleDomain DEF ShortForm, Backslash
  <2> QED
    BY <2>1
<1>2. ASSUME NEW h, NEW l, LongForm(c, h, l)
      PROVE  c \in 0..127 /\ Escaped(c) \in Seq(0..127) /\ Len(Escaped(c)) = 6
  <2>1. /\ h \in 0..127 /\ l \in 0..127 /\ Backslash \in 0..127
        /\ LowerU \in 0..127 /\ Nought \in 0..127
        /\ Escaped(c) = <<Backslash, LowerU, Nought, Nought, h, l>> /\ c \in 0..127
    BY <1>2 DEF LongForm, Digit, HexLetters, Backslash, LowerU, Nought
  <2> QED
    BY <2>1
<1>3. ASSUME PlainForm(c)
      PROVE  Escaped(c) \in Seq(0..255) /\ Len(Escaped(c)) = 1
  BY <1>3 DEF PlainForm
<1>4. ASSUME Escaped(c) \in Seq(0..127) PROVE Escaped(c) \in Seq(0..255)
  BY <1>4
<1>5. CASE PlainForm(c)
  <2>1. Escaped(c) \in Seq(0..255) /\ Len(Escaped(c)) = 1
    BY <1>3, <1>5, Zenon
  <2>2. Len(Escaped(c)) \in Nat \ {0}
    BY <2>1
  <2> QED
    BY <1>5, <2>1, <2>2, Zenon
<1>6. CASE ~PlainForm(c)
  <2>1. c \in 0..127 /\ Escaped(c) \in Seq(0..127) /\ Len(Escaped(c)) \in {2, 6}
    BY <1>1, <1>2, <1>6, EscapedForms
  <2>2. \A n \in {2, 6} : n \in Nat \ {0}
    OBVIOUS
  <2> QED
    BY <1>4, <2>1, <2>2, Zenon
<1> QED
  BY <1>5, <1>6

\* One sequence behind another.
LEMMA Joined ==
  ASSUME NEW S, NEW w \in Seq(S), NEW e \in Seq(S)
  PROVE  /\ w \o e \in Seq(S) /\ Len(w) \in Nat /\ Len(e) \in Nat
         /\ Len(w \o e) = Len(w) + Len(e)
         /\ \A j \in 1..Len(w) : (w \o e)[j] = w[j]
         /\ \A j \in 1..Len(e) : (w \o e)[Len(w) + j] = e[j]
<1>1. Len(w) \in Nat /\ Len(e) \in Nat
  BY LenProperties
<1>2. /\ w \o e \in Seq(S) /\ Len(w \o e) = Len(w) + Len(e)
      /\ \A k \in 1..(Len(w) + Len(e)) : (w \o e)[k] = IF k <= Len(w) THEN w[k] ELSE e[k - Len(w)]
  BY ConcatProperties
<1> QED
  BY <1>1, <1>2

LEMMA WrittenIsText ==
  ASSUME NEW t \in Seq(0..255), NEW k \in 0..Len(t)
  PROVE  Written(t)[k] \in Seq(0..255)
<1> DEFINE S == {m \in Nat : m <= Len(t) => Written(t)[m] \in Seq(0..255)}
<1>0. Len(t) \in Nat
  BY LenProperties
<1>1. 0 \in S
  <2>1. Written(t)[0] = <<>> /\ <<>> \in Seq(0..255)
    BY <1>0, WrittenAt
  <2> QED
    BY <2>1
<1>2. ASSUME NEW m \in 0..(Len(t) - 1), m \in S PROVE m + 1 \in S
  <2>1. Written(t)[m] \in Seq(0..255) /\ m + 1 \in 1..Len(t) /\ (m + 1) - 1 = m
    BY <1>0, <1>2
  <2>2. Written(t)[m + 1] = Written(t)[m] \o Escaped(t[m + 1])
    BY <1>0, <2>1, WrittenAt DEF WriteByte
  <2>3. t[m + 1] \in 0..255
    BY <2>1, ElementOfSeq
  <2>4. Escaped(t[m + 1]) \in Seq(0..255)
    BY <2>3, EscapedIsText
  <2>5. Written(t)[m] \o Escaped(t[m + 1]) \in Seq(0..255)
    BY <2>1, <2>4, Joined, Zenon
  <2>6. Written(t)[m + 1] \in Seq(0..255)
    BY <2>2, <2>5, Zenon
  <2> QED
    BY <1>2, <2>6
<1>3. 0..Len(t) \subseteq S
  <2> HIDE DEF S
  <2> QED
    BY <1>0, <1>1, <1>2, UpTo
<1> QED
  BY <1>0, <1>3

LEMMA WrittenGrows ==
  ASSUME NEW t \in Seq(0..255), NEW k \in Nat, k < Len(t)
  PROVE  /\ t[k + 1] \in 0..255
         /\ Len(Written(t)[k]) \in Nat /\ Len(Escaped(t[k + 1])) \in Nat \ {0}
         /\ Written(t)[k + 1] = Written(t)[k] \o Escaped(t[k + 1])
         /\ Len(Written(t)[k + 1]) = Len(Written(t)[k]) + Len(Escaped(t[k + 1]))
         /\ \A j \in 1..Len(Written(t)[k]) : Written(t)[k + 1][j] = Written(t)[k][j]
         /\ \A j \in 1..Len(Escaped(t[k + 1])) :
              Written(t)[k + 1][Len(Written(t)[k]) + j] = Escaped(t[k + 1])[j]
<1>1. Len(t) \in Nat /\ k \in 0..Len(t) /\ k + 1 \in 1..Len(t) /\ (k + 1) - 1 = k
  BY LenProperties
<1>2. t[k + 1] \in 0..255
  BY <1>1, ElementOfSeq
<1>3. Written(t)[k] \in Seq(0..255) /\ Len(Written(t)[k]) \in Nat
  BY <1>1, WrittenIsText, LenProperties
<1>4. Escaped(t[k + 1]) \in Seq(0..255) /\ Len(Escaped(t[k + 1])) \in Nat \ {0}
  BY <1>2, EscapedIsText
<1>5. Written(t)[k + 1] = Written(t)[k] \o Escaped(t[k + 1])
  BY <1>1, WrittenAt DEF WriteByte
<1> DEFINE w == Written(t)[k]
           e == Escaped(t[k + 1])
<1>6. w \in Seq(0..255) /\ e \in Seq(0..255)
  BY <1>3, <1>4
<1> HIDE DEF w, e
<1>7. /\ Len(w \o e) = Len(w) + Len(e)
      /\ \A j \in 1..Len(w) : (w \o e)[j] = w[j]
      /\ \A j \in 1..Len(e) : (w \o e)[Len(w) + j] = e[j]
  BY <1>6, Joined
<1> QED
  BY <1>2, <1>3, <1>4, <1>5, <1>7 DEF w, e

\* What has been written is not changed any more.
LEMMA WrittenStays ==
  ASSUME NEW t \in Seq(0..255), NEW k \in 0..Len(t), NEW m \in k..Len(t)
  PROVE  /\ Len(Written(t)[k]) <= Len(Written(t)[m])
         /\ \A j \in 1..Len(Written(t)[k]) : Written(t)[m][j] = Written(t)[k][j]
<1> DEFINE W(n) == Written(t)[n]
           S == {n \in Nat : k <= n => /\ Len(W(n)) \in Nat /\ Len(W(k)) <= Len(W(n))
                                       /\ \A j \in 1..Len(W(k)) : W(n)[j] = W(k)[j]}
<1>0. Len(t) \in Nat /\ Len(W(k)) \in Nat
  BY WrittenIsText, LenProperties
<1>1. 0 \in S
  BY <1>0
<1>2. ASSUME NEW n \in 0..(Len(t) - 1), n \in S PROVE n + 1 \in S
  <2>1. CASE n + 1 < k
    BY <2>1
  <2>2. CASE n + 1 = k
    BY <1>0, <2>2
  <2>3. CASE k <= n
    <3>1. /\ Len(W(n)) \in Nat /\ Len(W(k)) <= Len(W(n))
          /\ \A j \in 1..Len(W(k)) : W(n)[j] = W(k)[j]
      BY <1>2, <2>3
    <3>2. n \in Nat /\ n < Len(t)
      BY <1>0
    <3>3. /\ Len(W(n + 1)) = Len(W(n)) + Len(Escaped(t[n + 1])) /\ Len(Escaped(t[n + 1])) \in Nat
          /\ \A j \in 1..Len(W(n)) : W(n + 1)[j] = W(n)[j]
      BY <3>2, WrittenGrows
    <3>4. \A j \in 1..Len(W(k)) : j \in 1..Len(W(n))
      BY <1>0, <3>1
    <3> HIDE DEF W
    <3> QED
      BY <1>0, <3>1, <3>3, <3>4
  <2> QED
    BY <1>0, <2>1, <2>2, <2>3
<1>3. 0..Len(t) \subseteq S
  <2> HIDE DEF S
  <2> QED
    BY <1>0, <1>1, <1>2, UpTo
<1> QED
  BY <1>0, <1>3

\* Where what is written for a byte stands in the string.
LEMMA WrittenThere ==
  ASSUME NEW t \in Seq(0..255), NEW k \in Nat, k < Len(t)
  PROVE  /\ Len(Written(t)[k + 1]) <= Len(escapeString(t))
         /\ \A j \in 1..Len(Escaped(t[k + 1])) :
              escapeString(t)[Len(Written(t)[k]) + j] = Escaped(t[k + 1])[j]
<1>1. Len(t) \in Nat /\ k + 1 \in 0..Len(t) /\ Len(t) \in (k + 1)..Len(t)
  BY LenProperties
<1>2. /\ Len(Written(t)[k + 1]) <= Len(escapeString(t))
      /\ \A j \in 1..Len(Written(t)[k + 1]) : escapeString(t)[j] = Written(t)[k + 1][j]
  BY <1>1, WrittenStays DEF escapeString
<1> DEFINE a == Len(Written(t)[k])
           e == Escaped(t[k + 1])
<1>3. /\ a \in Nat /\ Len(e) \in Nat /\ Len(Written(t)[k + 1]) = a + Len(e)
      /\ \A j \in 1..Len(e) : Written(t)[k + 1][a + j] = e[j]
  BY WrittenGrows
<1> HIDE DEF a, e
<1>4. \A j \in 1..Len(e) : a + j \in 1..Len(Written(t)[k + 1])
  BY <1>3
<1> QED
  BY <1>2, <1>3, <1>4 DEF a, e
-----------------------------------------------------------------------------
\* Where the part written for the byte behind position k begins.
At(t, k) == Len(Written(t)[k])

\* The parts, byte by byte as they stand in the string.
LEMMA PartThere ==
  ASSUME NEW t \in Seq(0..255), NEW k \in Nat, k < Len(t)
  PROVE  /\ t[k + 1] \in 0..255 /\ At(t, k) \in Nat
         /\ At(t, k + 1) = At(t, k) + Len(Escaped(t[k + 1]))
         /\ At(t, k + 1) \in Nat /\ At(t, k) < At(t, k + 1)
         /\ At(t, k + 1) <= Len(escapeString(t)) /\ Len(escapeString(t)) \in Nat
<1>1. /\ t[k + 1] \in 0..255 /\ At(t, k) \in Nat /\ Len(Escaped(t[k + 1])) \in Nat \ {0}
      /\ At(t, k + 1) = At(t, k) + Len(Escaped(t[k + 1]))
  BY WrittenGrows DEF At
<1>2. At(t, k + 1) <= Len(escapeString(t))
  BY WrittenThere DEF At
<1>3. Len(escapeString(t)) \in Nat
  <2>1. Len(t) \in 0..Len(t)
    BY LenProperties
  <2> QED
    BY <2>1, WrittenIsText, LenProperties DEF escapeString
<1> QED
  BY <1>1, <1>2, <1>3

LEMMA PartBytes ==
  ASSUME NEW t \in Seq(0..255), NEW k \in Nat, k < Len(t),
         NEW part, part = Escaped(t[k + 1])
  PROVE  /\ At(t, k + 1) = At(t, k) + Len(part)
         /\ \A j \in 1..Len(part) : escapeString(t)[At(t, k) + j] = part[j]
  BY PartThere, WrittenThere DEF At

LEMMA ShortThere ==
  ASSUME NEW t \in Seq(0..255), NEW k \in Nat, k < Len(t), NEW e, ShortForm(t[k + 1], e)
  PROVE  /\ At(t, k + 1) = At(t, k) + 2
         /\ escapeString(t)[At(t, k) + 1] = Backslash
         /\ escapeString(t)[At(t, k) + 2] = e
<1> DEFINE part == Escaped(t[k + 1])
<1>1. Len(part) = 2 /\ part[1] = Backslash /\ part[2] = e
  BY DEF ShortForm
<1>2. /\ At(t, k + 1) = At(t, k) + Len(part)
      /\ \A j \in 1..Len(part) : escapeString(t)[At(t, k) + j] = part[j]
  BY PartBytes
<1> HIDE DEF part
<1>3. 1 \in 1..Len(part) /\ 2 \in 1..Len(part)
  BY <1>1
<1> QED
  BY <1>1, <1>2, <1>3

UnicodeAt(r, a, h, l) ==
  /\ r[a + 1] = Backslash /\ r[a + 2] = LowerU
  /\ r[a + 3] = Nought /\ r[a + 4] = Nought /\ r[a + 5] = h /\ r[a + 6] = l

LEMMA LongEnds ==
  ASSUME NEW t \in Seq(0..255), NEW k \in Nat, k < Len(t),
         NEW h, NEW l, LongForm(t[k + 1], h, l)
  PROVE  At(t, k + 1) = At(t, k) + 6
<1>1. Len(Escaped(t[k + 1])) = 6
  BY DEF LongForm
<1> QED
  BY <1>1, PartThere

LEMMA LongThere ==
  ASSUME NEW t \in Seq(0..255), NEW k \in Nat, k < Len(t),
         NEW h, NEW l, LongForm(t[k + 1], h, l)
  PROVE  UnicodeAt(escapeString(t), At(t, k), h, l)
<1> DEFINE part == Escaped(t[k + 1])
<1>1. /\ Len(part) = 6 /\ part[1] = Backslash /\ part[2] = LowerU
      /\ part[3] = Nought /\ part[4] = Nought /\ part[5] = h /\ part[6] = l
  BY DEF LongForm
<1>2. \A j \in 1..Len(part) : escapeString(t)[At(t, k) + j] = part[j]
  BY PartBytes
<1> HIDE DEF part
<1>3. /\ 1 \in 1..Len(part) /\ 2 \in 1..Len(part) /\ 3 \in 1..Len(part)
      /\ 4 \in 1..Len(part) /\ 5 \in 1..Len(part) /\ 6 \in 1..Len(part)
  BY <1>1
<1> QED
  BY <1>1, <1>2, <1>3 DEF UnicodeAt

LEMMA PlainThere ==
  ASSUME NEW t \in Seq(0..255), NEW k \in Nat, k < Len(t), PlainForm(t[k + 1])
  PROVE  At(t, k + 1) = At(t, k) + 1 /\ escapeString(t)[At(t, k) + 1] = t[k + 1]
<1> DEFINE part == Escaped(t[k + 1])
<1>1. Len(part) = 1 /\ part[1] = t[k + 1]
  BY DEF PlainForm
<1>2. /\ At(t, k + 1) = At(t, k) + Len(part)
      /\ \A j \in 1..Len(part) : escapeString(t)[At(t, k) + j] = part[j]
  BY PartBytes
<1> HIDE DEF part
<1>3. 1 \in 1..Len(part)
  BY <1>1
<1> QED
  BY <1>1, <1>2, <1>3

LEMMA LongIsPiece ==
  ASSUME NEW t \in Seq(0..255), NEW k \in Nat, k < Len(t),
         NEW h, NEW l, LongForm(t[k + 1], h, l)
  PROVE  IsUnicodeEscape(escapeString(t), At(t, k), At(t, k + 1))
<1> DEFINE r == escapeString(t)
           a == At(t, k)
           b == At(t, k + 1)
<1>1. a \in Nat /\ b = a + 6
  BY PartThere, LongEnds
<1>2. UnicodeAt(r, a, h, l)
  BY LongThere
<1>3. /\ h \in Digit \cup HexLetters /\ l \in Digit \cup HexLetters
      /\ Nought \in Digit \cup HexLetters
  BY DEF LongForm, Digit, Nought
<1> HIDE DEF r, a, b
<1>4. ASSUME NEW p \in (a + 3)..b PROVE p = a + 3 \/ p = a + 4 \/ p = a + 5 \/ p = a + 6
  BY <1>1
<1>5. b = a + 2 + HexDigits
  BY <1>1, StringsAssumption
<1>6. \A p \in (a + 3)..b : r[p] \in Digit \cup HexLetters
  BY <1>2, <1>3, <1>4 DEF UnicodeAt
<1>7. IsUnicodeEscape(r, a, b)
  BY <1>2, <1>5, <1>6 DEF UnicodeAt, IsUnicodeEscape, Backslash, LowerU
<1> QED
  BY <1>7 DEF r, a, b

\* Each part is a piece of the lexical grammar: no quote and no control
\* character is written as it is, and no backslash but before an escape.
LEMMA PartIsPiece ==
  ASSUME NEW t \in Seq(0..255), NEW k \in Nat, k < Len(t)
  PROVE  IsPiece(escapeString(t), At(t, k), At(t, k + 1))
<1> DEFINE r == escapeString(t)
           a == At(t, k)
           b == At(t, k + 1)
<1>0. t[k + 1] \in 0..255 /\ a \in Nat
  BY PartThere
<1>1. ASSUME NEW e, ShortForm(t[k + 1], e) PROVE IsSimpleEscape(r, a, b)
  <2>1. b = a + 2 /\ r[a + 1] = Backslash /\ r[a + 2] = e /\ e \in DOMAIN SimpleEscape
    BY <1>1, ShortThere DEF ShortForm
  <2> HIDE DEF r, a, b
  <2> QED
    BY <2>1, SimpleDomain DEF IsSimpleEscape, Backslash
<1>2. ASSUME NEW h, NEW l, LongForm(t[k + 1], h, l) PROVE IsUnicodeEscape(r, a, b)
  BY <1>2, LongIsPiece
<1>3. ASSUME PlainForm(t[k + 1]) PROVE IsByte(r, a, b)
  <2>1. b = a + 1 /\ r[a + 1] = t[k + 1] /\ t[k + 1] \in (32..255) \ {34, 92}
    BY <1>3, PlainThere DEF PlainForm
  <2> HIDE DEF r, a, b
  <2> QED
    BY <2>1 DEF IsByte
<1> HIDE DEF r, a, b
<1> QED
  BY <1>0, <1>1, <1>2, <1>3, EscapedForms DEF IsPiece, r, a, b

LEMMA WiderSeq ==
  ASSUME NEW A, NEW B, A \subseteq B, NEW s \in Seq(A)
  PROVE  s \in Seq(B)
  OBVIOUS

\* ASCII characters are appended to a text that is between two characters.
LEMMA AsciiAppended ==
  ASSUME NEW before \in Seq(Int), Clean(Passed(before)[Len(before)]), NEW bytes \in Seq(0..127)
  PROVE  Clean(Passed(before \o bytes)[Len(before \o bytes)])
<1> DEFINE text == before \o bytes
           n == Len(before)
           S == {k \in Nat : k <= Len(bytes) => Clean(Passed(text)[n + k])}
<1>1. bytes \in Seq(Int)
  BY 0..127 \subseteq Int, WiderSeq
<1>2. /\ n \in Nat /\ Len(bytes) \in Nat /\ Len(text) = n + Len(bytes)
      /\ \A k \in 1..n : text[k] = before[k]
      /\ \A k \in 1..Len(bytes) : text[n + k] = bytes[k]
  BY <1>1, Joined
<1> HIDE DEF text
<1>3. Passed(text)[n] = Passed(before)[n]
  BY <1>2, PassedBeginning
<1>4. 0 \in S
  BY <1>2, <1>3
<1>5. ASSUME NEW k \in 0..(Len(bytes) - 1), k \in S PROVE k + 1 \in S
  <2>1. /\ Clean(Passed(text)[n + k]) /\ k + 1 \in 1..Len(bytes)
        /\ n + (k + 1) \in 1..Len(text) /\ (n + (k + 1)) - 1 = n + k /\ Len(text) \in Nat
    BY <1>2, <1>5
  <2>2. Passed(text)[n + (k + 1)] = ReadByte(Passed(text)[n + k], text[n + (k + 1)])
    BY <2>1, PassedAt
  <2>3. text[n + (k + 1)] \in 0..127
    BY <1>2, <2>1, ElementOfSeq
  <2>4. Clean(Passed(text)[n + (k + 1)])
    BY <2>1, <2>2, <2>3, OnePasses
  <2> QED
    BY <1>5, <2>4
<1>6. 0..Len(bytes) \subseteq S
  <2> HIDE DEF S
  <2> QED
    BY <1>2, <1>4, <1>5, UpTo
<1>7. Clean(Passed(text)[n + Len(bytes)])
  <2>1. Len(bytes) \in 0..Len(bytes)
    BY <1>2
  <2> QED
    BY <1>6, <2>1
<1> QED
  BY <1>2, <1>7 DEF text

\* What is written passes isValidUtf8 as the text does.
WrittenAlike(t, k) ==
  \/ Passed(Written(t)[k])[At(t, k)] = Passed(t)[k]
  \/ Clean(Passed(Written(t)[k])[At(t, k)]) /\ Clean(Passed(t)[k])

LEMMA PartAlike ==
  ASSUME NEW t \in Seq(0..255), isValidUtf8(t), NEW k \in Nat, k < Len(t), WrittenAlike(t, k)
  PROVE  WrittenAlike(t, k + 1)
<1> DEFINE c == t[k + 1]
           w == Written(t)[k]
<1>1. Len(t) \in Nat /\ k \in 0..Len(t) /\ k + 1 \in 1..Len(t) /\ (k + 1) - 1 = k
  BY LenProperties
<1>2. w \in Seq(0..255) /\ w \in Seq(Int) /\ c \in 0..255 /\ c \in Int
  <2>1. w \in Seq(0..255) /\ c \in 0..255
    BY <1>1, WrittenIsText, PartThere
  <2> HIDE DEF w, c
  <2>2. 0..255 \subseteq Int
    OBVIOUS
  <2>3. w \in Seq(Int)
    BY <2>1, <2>2, WiderSeq
  <2> QED
    BY <2>1, <2>2, <2>3
<1>3. Written(t)[k + 1] = w \o Escaped(c) /\ At(t, k + 1) = Len(w \o Escaped(c)) /\ At(t, k) = Len(w)
  BY WrittenGrows DEF At
<1>4. Passed(t)[k + 1] = ReadByte(Passed(t)[k], c)
  BY <1>1, PassedAt
<1>5. CASE PlainForm(c)
  <2>1. Escaped(c) = <<c>>
    BY <1>5 DEF PlainForm
  <2>2. /\ Len(w \o <<c>>) = Len(w) + 1
        /\ Passed(w \o <<c>>)[Len(w) + 1] = ReadByte(Passed(w)[Len(w)], c)
    BY <1>2, ByteAppended
  <2>3. Passed(Written(t)[k + 1])[At(t, k + 1)] = ReadByte(Passed(w)[At(t, k)], c)
    BY <1>3, <2>1, <2>2
  <2> HIDE DEF c, w
  <2>4. CASE Passed(w)[At(t, k)] = Passed(t)[k]
    BY <1>4, <2>3, <2>4 DEF WrittenAlike
  <2>5. CASE Clean(Passed(w)[At(t, k)]) /\ Clean(Passed(t)[k])
    <3>1. /\ ReadByte(Passed(w)[At(t, k)], c) = FirstByte(c)
          /\ ReadByte(Passed(t)[k], c) = FirstByte(c)
      BY <2>5, CleanReads
    <3> QED
      BY <1>4, <2>3, <3>1 DEF WrittenAlike
  <2> QED
    BY <2>4, <2>5 DEF WrittenAlike, w
<1>6. CASE ~PlainForm(c)
  <2>1. c \in 0..127 /\ Escaped(c) \in Seq(0..127)
    BY <1>2, <1>6, EscapedIsText
  <2>2. Clean(Passed(t)[k]) /\ Clean(Passed(t)[k + 1])
    BY <1>1, <2>1, AsciiRead
  <2>3. Clean(Passed(w)[Len(w)])
    BY <1>3, <2>2 DEF WrittenAlike
  <2>4. Clean(Passed(w \o Escaped(c))[Len(w \o Escaped(c))])
    BY <1>2, <2>1, <2>3, AsciiAppended
  <2>5. Clean(Passed(Written(t)[k + 1])[At(t, k + 1)])
    BY <1>3, <2>4
  <2> QED
    BY <2>2, <2>5 DEF WrittenAlike
<1> QED
  BY <1>5, <1>6

LEMMA WrittenValid ==
  ASSUME NEW t \in Seq(0..255), isValidUtf8(t)
  PROVE  isValidUtf8(escapeString(t))
<1> DEFINE S == {k \in Nat : k <= Len(t) => WrittenAlike(t, k)}
<1>0. Len(t) \in Nat
  BY LenProperties
<1>1. 0 \in S
  <2>1. Written(t)[0] = <<>> /\ At(t, 0) = 0
    BY <1>0, WrittenAt DEF At
  <2>2. Passed(<<>>)[0] = Begun(0, 0, 0) /\ Passed(t)[0] = Begun(0, 0, 0)
    BY <1>0, PassedAt
  <2> QED
    BY <2>1, <2>2 DEF WrittenAlike
<1>2. ASSUME NEW k \in 0..(Len(t) - 1), k \in S PROVE k + 1 \in S
  <2>1. k \in Nat /\ k < Len(t) /\ WrittenAlike(t, k)
    BY <1>0, <1>2
  <2>2. WrittenAlike(t, k + 1)
    BY <2>1, PartAlike
  <2> QED
    BY <2>2
<1>3. 0..Len(t) \subseteq S
  <2> HIDE DEF S
  <2> QED
    BY <1>0, <1>1, <1>2, UpTo
<1>4. WrittenAlike(t, Len(t))
  BY <1>0, <1>3
<1>5. Clean(Passed(t)[Len(t)])
  BY DEF isValidUtf8, Clean
<1>6. Clean(Passed(escapeString(t))[Len(escapeString(t))])
  BY <1>4, <1>5 DEF WrittenAlike, At, escapeString
<1> QED
  BY <1>6 DEF isValidUtf8, Clean

\* The lexer accepts what the serializer writes: for every text that
\* escapeString does not refuse (JsonSerializer.cpp:81), of whatever length,
\* what it writes is well-formed UTF-8 and consists of bytes and escapes of
\* the lexical grammar.
THEOREM EscapesAreAccepted ==
  \A t \in Seq(0..255) : isValidUtf8(t) => Accepts(escapeString(t), EscapeCuts(t))
<1> SUFFICES ASSUME NEW t \in Seq(0..255), isValidUtf8(t)
             PROVE  Accepts(escapeString(t), EscapeCuts(t))
  OBVIOUS
<1> DEFINE r == escapeString(t)
           cuts == EscapeCuts(t)
<1>0. Len(t) \in Nat /\ 0 \in 0..Len(t) /\ Len(t) \in 0..Len(t)
  BY LenProperties
<1>1. r \in Seq(0..255) /\ isValidUtf8(r)
  BY <1>0, WrittenIsText, WrittenValid DEF escapeString
<1>2. \A p : p \in cuts <=> \E k \in 0..Len(t) : p = At(t, k)
  BY DEF EscapeCuts, At
<1>3. At(t, 0) = 0 /\ At(t, Len(t)) = Len(r)
  <2>1. Written(t)[0] = <<>>
    BY <1>0, WrittenAt
  <2> QED
    BY <2>1 DEF At, escapeString
<1> HIDE DEF cuts, r
<1>4. cuts \subseteq 0..Len(r)
  <2> SUFFICES ASSUME NEW k \in 0..Len(t) PROVE At(t, k) \in 0..Len(r)
    BY <1>2
  <2>1. Len(t) \in k..Len(t)
    BY <1>0
  <2>2. At(t, k) <= Len(r)
    BY <2>1, WrittenStays DEF At, r, escapeString
  <2>3. At(t, k) \in Nat /\ Len(r) \in Nat
    BY <1>1, WrittenIsText, LenProperties DEF At
  <2> QED
    BY <2>2, <2>3
<1>5. 0 \in cuts /\ Len(r) \in cuts
  BY <1>0, <1>2, <1>3
<1>6. ASSUME NEW p \in cuts, p # Len(r) PROVE \E q \in cuts : p < q /\ IsPiece(r, p, q)
  <2>1. PICK k \in 0..Len(t) : p = At(t, k)
    BY <1>2
  <2>2. k \in Nat /\ k < Len(t)
    BY <1>0, <1>3, <1>6, <2>1
  <2>3. k + 1 \in 0..Len(t)
    BY <1>0, <2>2
  <2>4. p < At(t, k + 1) /\ IsPiece(r, p, At(t, k + 1))
    BY <2>1, <2>2, PartThere, PartIsPiece DEF r
  <2> QED
    BY <1>2, <2>3, <2>4
<1>7. IsCut(r, 0, Len(r), cuts)
  BY <1>5, <1>6 DEF IsCut
<1> QED
  BY <1>1, <1>4, <1>7 DEF Accepts, r, cuts
-----------------------------------------------------------------------------
\* What is written for a text is read back part by part: i stands between the
\* parts of two bytes, and the bytes before it have been copied.
Copied(t, k) ==
  i = At(t, k) /\ out \in Seq(0..255) /\ Len(out) = k /\ \A j \in 1..k : out[j] = t[j]

CopiedSoFar(t) ==
  /\ pc \in {"scan", "done"}
  /\ \E k \in 0..Len(t) : Copied(t, k) /\ (pc = "done" => k = Len(t))

BackInv == \A t \in Texts : raw = escapeString(t) => CopiedSoFar(t)

LEMMA TextBytes == ASSUME NEW t \in Texts PROVE t \in Seq(0..255) /\ isValidUtf8(t)
  BY StringsAssumption

LEMMA InitBack == Init => BackInv
<1> SUFFICES ASSUME Init, NEW t \in Texts, raw = escapeString(t)
             PROVE  CopiedSoFar(t)
  BY DEF BackInv
<1>1. t \in Seq(0..255) /\ Len(t) \in Nat /\ 0 \in 0..Len(t)
  BY TextBytes, LenProperties
<1>2. At(t, 0) = 0
  BY <1>1, WrittenAt DEF At
<1>3. i = 0 /\ out = <<>> /\ pc = "scan" /\ <<>> \in Seq(0..255)
  BY DEF Init
<1>4. Copied(t, 0)
  BY <1>2, <1>3 DEF Copied
<1> QED
  BY <1>1, <1>3, <1>4 DEF CopiedSoFar

\* One more byte.
LEMMA CopyOn ==
  ASSUME NEW t \in Seq(0..255), NEW k \in Nat, k < Len(t), Copied(t, k),
         AppendAndGoOn(<<t[k + 1]>>, At(t, k + 1))
  PROVE  CopiedSoFar(t)'
<1> DEFINE c == t[k + 1]
<1>1. out' = out \o <<c>> /\ i' = At(t, k + 1) /\ pc' = "scan"
  BY DEF AppendAndGoOn
<1>2. out \in Seq(0..255) /\ Len(out) = k /\ \A j \in 1..k : out[j] = t[j]
  BY DEF Copied
<1>3. c \in 0..255
  BY PartThere
<1> HIDE DEF c
<1>4. <<c>> \in Seq(0..255) /\ Len(<<c>>) = 1 /\ <<c>>[1] = c
  BY <1>3
<1>5. /\ out \o <<c>> \in Seq(0..255) /\ Len(out \o <<c>>) = k + 1
      /\ \A j \in 1..k : (out \o <<c>>)[j] = out[j]
      /\ (out \o <<c>>)[k + 1] = c
  BY <1>2, <1>4, Joined
<1>6. ASSUME NEW j \in 1..(k + 1) PROVE (out \o <<c>>)[j] = t[j]
  <2>1. CASE j = k + 1
    BY <1>5, <2>1 DEF c
  <2>2. CASE j # k + 1
    <3>1. j \in 1..k
      BY <2>2
    <3> QED
      BY <1>2, <1>5, <3>1
  <2> QED
    BY <2>1, <2>2
<1>7. Copied(t, k + 1)'
  BY <1>1, <1>5, <1>6 DEF Copied
<1>8. k + 1 \in 0..Len(t)
  BY LenProperties
<1> QED
  BY <1>1, <1>7, <1>8 DEF CopiedSoFar

LEMMA ControlsAreNoSurrogates == \A c \in 0..31 : c \notin HighSurrogate \cup LowSurrogate
<1>1. \A c \in HighSurrogate : c > 31
  BY DEF HighSurrogate
<1>2. \A c \in LowSurrogate : c > 31
  BY DEF LowSurrogate
<1>3. \A c \in 0..31 : ~(c > 31)
  OBVIOUS
<1> QED
  BY <1>1, <1>2, <1>3, Zenon

\* \u00xx with the digits of a control character stands for it.
LEMMA UnitOfByte ==
  ASSUME NEW c, NEW h, NEW l, LongForm(c, h, l), UnicodeAt(raw, i, h, l), i \in Nat
  PROVE  Unit = c /\ Utf8Of(Unit) = <<c>> /\ Unit \notin HighSurrogate \cup LowSurrogate
<1>1. /\ raw[(i + 2) + 1] = Nought /\ raw[(i + 2) + 2] = Nought
      /\ raw[(i + 2) + 3] = h /\ raw[(i + 2) + 4] = l
  <2>1. /\ (i + 2) + 1 = i + 3 /\ (i + 2) + 2 = i + 4
        /\ (i + 2) + 3 = i + 5 /\ (i + 2) + 4 = i + 6
    OBVIOUS
  <2> QED
    BY <2>1 DEF UnicodeAt
<1>2. HexValue(Nought) = 0
  BY DEF HexValue, Nought
<1>3. HexValue(h) * 16 + HexValue(l) = c /\ c \in 0..31
  BY DEF LongForm
<1>4. HexValue(h) \in Int /\ HexValue(l) \in Int
  BY DEF LongForm, HexValue, Digit, HexLetters
<1>5. Unit = ((0 * 16 + 0) * 16 + HexValue(h)) * 16 + HexValue(l)
  BY <1>1, <1>2 DEF Unit, readHex
<1>6. Unit = c
  BY <1>3, <1>4, <1>5
<1>7. Utf8Of(c) = <<c>>
  BY <1>3 DEF Utf8Of
<1>8. c \notin HighSurrogate \cup LowSurrogate
  BY <1>3, ControlsAreNoSurrogates
<1> QED
  BY <1>6, <1>7, <1>8

\* The step from the part of one byte to the next part.
LEMMA PartStep ==
  ASSUME NEW t \in Seq(0..255), raw = escapeString(t), NEW k \in Nat, k < Len(t),
         Copied(t, k), pc = "scan", Next
  PROVE  CopiedSoFar(t)'
<1> DEFINE c == t[k + 1]
<1>0. c \in 0..255 /\ i = At(t, k) /\ i \in Nat /\ i < Len(raw)
  BY PartThere DEF Copied
<1>1. Character \/ UnescapeSimple \/ UnescapeUnit \/ LowFirst \/ HighFirst
  BY <1>0 DEF Next, Unescape, Ended, JoinPair, BreakPair, Finish
<1>2. ASSUME NEW e, ShortForm(c, e)
      PROVE  AppendAndGoOn(<<c>>, At(t, k + 1))
  <2>1. At(t, k + 1) = i + 2 /\ raw[i + 1] = Backslash /\ raw[i + 2] = e
    BY <1>0, <1>2, ShortThere
  <2>2. e \in DOMAIN SimpleEscape /\ e # LowerU /\ SimpleEscape[e] = c
    BY <1>2, UnitIsNotSimple DEF ShortForm
  <2>3. UnescapeSimple
    BY <1>1, <2>1, <2>2 DEF Character, UnescapeUnit, LowFirst, HighFirst
  <2> HIDE DEF c
  <2>4. AppendAndGoOn(<<SimpleEscape[raw[i + 2]]>>, i + 2)
    BY <2>3 DEF UnescapeSimple
  <2> QED
    BY <2>1, <2>2, <2>4
<1>3. ASSUME NEW h, NEW l, LongForm(c, h, l)
      PROVE  AppendAndGoOn(<<c>>, At(t, k + 1))
  <2>1. At(t, k + 1) = i + 6
    BY <1>0, <1>3, LongEnds
  <2>2. UnicodeAt(raw, i, h, l)
    BY <1>0, <1>3, LongThere
  <2> HIDE DEF c
  <2>3. Utf8Of(Unit) = <<c>> /\ Unit \notin HighSurrogate \cup LowSurrogate
    BY <1>0, <1>3, <2>2, UnitOfByte
  <2>4. raw[i + 1] = Backslash /\ raw[i + 2] = LowerU
    BY <2>2 DEF UnicodeAt
  <2>5. UnescapeUnit
    BY <1>1, <2>3, <2>4, UnitIsNotSimple DEF Character, UnescapeSimple, LowFirst, HighFirst
  <2>6. AppendAndGoOn(Utf8Of(Unit), i + 6)
    BY <2>5 DEF UnescapeUnit
  <2> QED
    BY <2>1, <2>3, <2>6
<1>4. ASSUME PlainForm(c)
      PROVE  AppendAndGoOn(<<c>>, At(t, k + 1))
  <2>1. At(t, k + 1) = i + 1 /\ raw[i + 1] = c
    BY <1>0, <1>4, PlainThere
  <2>2. raw[i + 1] # Backslash
    BY <1>4, <2>1 DEF PlainForm, Backslash
  <2>3. Character
    BY <1>1, <2>2 DEF UnescapeSimple, UnescapeUnit, LowFirst, HighFirst, Escape
  <2> QED
    BY <2>1, <2>3 DEF Character
<1>5. AppendAndGoOn(<<c>>, At(t, k + 1))
  BY <1>0, <1>2, <1>3, <1>4, EscapedForms
<1> QED
  BY <1>5, CopyOn

LEMMA NextBack == IInv /\ BackInv /\ [Next]_vars => BackInv'
<1> SUFFICES ASSUME IInv, BackInv, [Next]_vars, NEW t \in Texts, raw' = escapeString(t)
             PROVE  CopiedSoFar(t)'
  BY DEF BackInv
<1>1. raw' = raw
  BY DEF Next, Unescape, Ended, vars, Character, UnescapeSimple, UnescapeUnit, LowFirst, HighFirst,
         JoinPair, BreakPair, Finish, AppendAndGoOn, Throw
<1>2. t \in Seq(0..255) /\ Len(t) \in Nat
  BY TextBytes, LenProperties
<1>3. CopiedSoFar(t)
  BY <1>1 DEF BackInv
<1>4. PICK k \in 0..Len(t) : Copied(t, k) /\ (pc = "done" => k = Len(t))
  BY <1>3 DEF CopiedSoFar
<1>5. CASE pc = "scan" /\ k < Len(t) /\ Next
  <2>1. raw = escapeString(t) /\ k \in Nat
    BY <1>1, <1>2
  <2> QED
    BY <1>2, <1>4, <1>5, <2>1, PartStep
<1>6. CASE pc = "scan" /\ k = Len(t) /\ Next
  <2>1. i = Len(raw)
    BY <1>1, <1>4, <1>6 DEF Copied, At, escapeString
  <2>2. Finish
    BY <1>6, <2>1 DEF Next, Unescape, Ended, Character, UnescapeSimple, UnescapeUnit, LowFirst,
                      HighFirst, JoinPair, BreakPair, Escape, More, IInv
  <2>3. i' = i /\ out' = out /\ pc' = "done"
    BY <2>2 DEF Finish
  <2> QED
    BY <1>4, <1>6, <2>3 DEF CopiedSoFar, Copied
<1>7. CASE UNCHANGED vars
  BY <1>3, <1>7 DEF vars, CopiedSoFar, Copied
<1>8. CASE pc = "done" /\ Next
  <2>1. Ended
    BY <1>8 DEF Next, Unescape, Character, UnescapeSimple, UnescapeUnit, LowFirst, HighFirst,
                JoinPair, BreakPair, Finish, Escape, More
  <2> QED
    BY <1>7, <2>1 DEF Ended
<1> QED
  BY <1>2, <1>3, <1>4, <1>5, <1>6, <1>7, <1>8 DEF CopiedSoFar

LEMMA BackReads == BackInv => EscapeReadsBack
<1> SUFFICES ASSUME BackInv, pc \in {"done", "threw"}, NEW e \in Escapes, raw = e.written
             PROVE  pc = "done" /\ out = e.text
  BY DEF EscapeReadsBack
<1>1. PICK t \in Texts : e = [text |-> t, written |-> escapeString(t)]
  BY DEF Escapes
<1>2. CopiedSoFar(t) /\ e.text = t
  BY <1>1 DEF BackInv
<1>3. pc = "done" /\ Copied(t, Len(t))
  BY <1>2 DEF CopiedSoFar
<1>4. out = t
  BY <1>3, TextBytes, SeqEqual DEF Copied
<1> QED
  BY <1>2, <1>3, <1>4

\* A text survives saving and loading: whatever valid text escapeString is
\* given, of whatever length, unescapeString returns it from what was written.
THEOREM EscapesReadBack == Spec => []EscapeReadsBack
<1>1. IInv /\ BackInv /\ [Next]_vars => (IInv /\ BackInv)'
  BY NextIInv, NextBack
<1> QED
  BY <1>1, InitIInv, InitBack, BackReads, PTL DEF Spec
-----------------------------------------------------------------------------
\* A piece is one wherever it stands.
LEMMA PieceMoved ==
  ASSUME NEW n \in Nat, NEW d \in Nat, NEW r, NEW s, \A j \in 1..n : s[d + j] = r[j],
         NEW p \in 0..n, NEW q \in 0..n, p < q
  PROVE  IsPiece(s, d + p, d + q) <=> IsPiece(r, p, q)
<1>0. \A j \in Nat : j < q - p => s[(d + p) + 1 + j] = r[p + 1 + j]
  <2> SUFFICES ASSUME NEW j \in Nat, j < q - p PROVE s[(d + p) + 1 + j] = r[p + 1 + j]
    OBVIOUS
  <2>1. p + 1 + j \in 1..n /\ (d + p) + 1 + j = d + (p + 1 + j)
    OBVIOUS
  <2> QED
    BY <2>1
<1>1. s[(d + p) + 1] = r[p + 1] /\ s[d + q] = r[q]
  <2>1. p + 1 \in 1..n /\ q \in 1..n /\ (d + p) + 1 = d + (p + 1)
    OBVIOUS
  <2> QED
    BY <2>1
<1>2. IsByte(s, d + p, d + q) <=> IsByte(r, p, q)
  BY <1>1 DEF IsByte
<1>3. IsSimpleEscape(s, d + p, d + q) <=> IsSimpleEscape(r, p, q)
  BY <1>1 DEF IsSimpleEscape
<1>4. IsUnicodeEscape(s, d + p, d + q) <=> IsUnicodeEscape(r, p, q)
  <2>1. d + q = (d + p) + 2 + HexDigits <=> q = p + 2 + HexDigits
    BY StringsAssumption
  <2>2. q = p + 2 + HexDigits => s[(d + p) + 2] = r[p + 2]
    <3>1. ASSUME q = p + 2 + HexDigits PROVE p + 2 \in 1..n /\ (d + p) + 2 = d + (p + 2)
      BY <3>1, StringsAssumption
    <3> QED
      BY <3>1
  <2>3. ASSUME \A h \in ((d + p) + 3)..(d + q) : s[h] \in Digit \cup HexLetters,
               NEW h \in (p + 3)..q
        PROVE  r[h] \in Digit \cup HexLetters
    <3>1. h \in 1..n /\ d + h \in ((d + p) + 3)..(d + q)
      OBVIOUS
    <3> QED
      BY <2>3, <3>1
  <2>4. ASSUME \A h \in (p + 3)..q : r[h] \in Digit \cup HexLetters,
               NEW h \in ((d + p) + 3)..(d + q)
        PROVE  s[h] \in Digit \cup HexLetters
    <3>1. h - d \in (p + 3)..q /\ h - d \in 1..n /\ d + (h - d) = h
      OBVIOUS
    <3> QED
      BY <2>4, <3>1
  <2> QED
    BY <1>1, <2>1, <2>2, <2>3, <2>4, Zenon DEF IsUnicodeEscape
<1> QED
  BY <1>2, <1>3, <1>4 DEF IsPiece

\* So what a range is cut into is what its bytes are cut into.
LEMMA CutMoved ==
  ASSUME NEW n \in Nat, NEW d \in Nat, NEW r, NEW s, \A j \in 1..n : s[d + j] = r[j],
         NEW cuts \in SUBSET (0..n), NEW moved \in SUBSET (d..(d + n)),
         \A p \in 0..n : d + p \in moved <=> p \in cuts
  PROVE  IsCut(s, d, d + n, moved) <=> IsCut(r, 0, n, cuts)
<1>1. d \in moved <=> 0 \in cuts
  <2>1. d + 0 = d /\ 0 \in 0..n
    OBVIOUS
  <2> QED
    BY <2>1
<1>2. d + n \in moved <=> n \in cuts
  OBVIOUS
<1>3. ASSUME \A p \in moved \ {d + n} : \E q \in moved : p < q /\ IsPiece(s, p, q),
             NEW p \in cuts \ {n}
      PROVE  \E q \in cuts : p < q /\ IsPiece(r, p, q)
  <2>1. p \in 0..n /\ d + p \in moved \ {d + n}
    OBVIOUS
  <2>2. PICK x \in moved : d + p < x /\ IsPiece(s, d + p, x)
    BY <1>3, <2>1
  <2>3. x - d \in 0..n /\ d + (x - d) = x /\ p < x - d
    BY <2>1, <2>2
  <2> DEFINE q == x - d
  <2>4. q \in 0..n /\ d + q = x /\ p < q /\ q \in cuts
    BY <2>3
  <2> HIDE DEF q
  <2>5. IsPiece(s, d + p, d + q)
    BY <2>2, <2>4
  <2>6. IsPiece(r, p, q)
    BY <2>1, <2>4, <2>5, PieceMoved
  <2> QED
    BY <2>4, <2>6
<1>4. ASSUME \A p \in cuts \ {n} : \E q \in cuts : p < q /\ IsPiece(r, p, q),
             NEW x \in moved \ {d + n}
      PROVE  \E y \in moved : x < y /\ IsPiece(s, x, y)
  <2>1. x - d \in 0..n /\ d + (x - d) = x /\ x - d # n
    OBVIOUS
  <2>2. x - d \in cuts \ {n}
    BY <2>1
  <2>3. PICK q \in cuts : x - d < q /\ IsPiece(r, x - d, q)
    BY <1>4, <2>2
  <2>4. q \in 0..n /\ d + q \in moved /\ x < d + q
    BY <2>1, <2>3
  <2>5. IsPiece(s, d + (x - d), d + q)
    BY <2>1, <2>3, <2>4, PieceMoved
  <2> QED
    BY <2>1, <2>4, <2>5
<1> QED
  BY <1>1, <1>2, <1>3, <1>4, Zenon DEF IsCut

\* A range of a sequence of bytes.
LEMMA Slice ==
  ASSUME NEW s \in Seq(0..255), NEW d \in Nat, NEW n \in Nat, d + n <= Len(s)
  PROVE  /\ SubSeq(s, d + 1, d + n) \in Seq(0..255) /\ Len(SubSeq(s, d + 1, d + n)) = n
         /\ \A j \in 1..n : SubSeq(s, d + 1, d + n)[j] = s[d + j]
<1> DEFINE B == 0..255
           r == SubSeq(s, d + 1, d + n)
<1>1. \A j \in (d + 1)..(d + n) : j \in 1..Len(s)
  BY LenProperties
<1>2. \A j \in (d + 1)..(d + n) : s[j] \in B
  BY <1>1, ElementOfSeq
<1> HIDE DEF B
<1>3. /\ r \in Seq(B)
      /\ Len(r) = IF d + 1 <= d + n THEN (d + n) - (d + 1) + 1 ELSE 0
      /\ \A j \in 1..((d + n) - (d + 1) + 1) : r[j] = s[(d + 1) + j - 1]
  BY <1>2, SubSeqProperties
<1>4. /\ (d + n) - (d + 1) + 1 = n /\ (~(d + 1 <= d + n) => n = 0)
      /\ \A j \in 1..n : (d + 1) + j - 1 = d + j
  OBVIOUS
<1> HIDE DEF r
<1>5. Len(r) = n
  BY <1>3, <1>4
<1>6. \A j \in 1..n : r[j] = s[d + j]
  BY <1>3, <1>4
<1> QED
  BY <1>3, <1>5, <1>6 DEF B, r

\* What stands between the quotes of a string of the lexical grammar, wherever
\* it stands in a document, is a string as unescapeString is given them: what
\* StringsAssumption asks of the raw strings is what the lexer has checked.
THEOREM LexedIsAccepted ==
  ASSUME NEW s \in Seq(0..255), NEW a \in Nat, NEW b \in 0..Len(s), IsString(s, a, b)
  PROVE  \E cuts : Accepts(SubSeq(s, a + 2, b - 1), cuts)
<1> DEFINE r == SubSeq(s, a + 2, b - 1)
           n == b - a - 2
           d == a + 1
<1>1. PICK moved \in SUBSET ((a + 1)..(b - 1)) : IsCut(s, a + 1, b - 1, moved)
  BY DEF IsString
<1>2. Len(s) \in Nat /\ a + 2 <= b /\ isValidUtf8(r)
  BY LenProperties DEF IsString
<1>3. n \in Nat /\ d \in Nat /\ a + 1 = d /\ b - 1 = d + n
  BY <1>2
<1>4. r \in Seq(0..255) /\ Len(r) = n /\ \A j \in 1..n : r[j] = s[d + j]
  <2>1. a + 2 = d + 1 /\ b - 1 = d + n /\ d + n <= Len(s)
    BY <1>2
  <2>2. r = SubSeq(s, d + 1, d + n)
    BY <2>1
  <2> DEFINE u == SubSeq(s, d + 1, d + n)
  <2> HIDE DEF r, n, d
  <2>3. u \in Seq(0..255) /\ Len(u) = n /\ \A j \in 1..n : u[j] = s[d + j]
    BY <1>3, <2>1, Slice
  <2> QED
    BY <2>2, <2>3
<1> HIDE DEF r, n, d
<1> DEFINE cuts == {p \in 0..n : d + p \in moved}
<1>5. cuts \in SUBSET (0..n) /\ \A p \in 0..n : d + p \in moved <=> p \in cuts
  OBVIOUS
<1>6. moved \in SUBSET (d..(d + n)) /\ IsCut(s, d, d + n, moved)
  BY <1>1, <1>3
<1> HIDE DEF cuts
<1>7. IsCut(r, 0, n, cuts)
  BY <1>3, <1>4, <1>5, <1>6, CutMoved
<1>8. Accepts(r, cuts)
  BY <1>2, <1>4, <1>5, <1>7 DEF Accepts
<1> QED
  BY <1>8 DEF r

\* Two sequences of bytes, one behind the other.
LEMMA JoinedBytes ==
  ASSUME NEW q \in Seq(0..255), NEW r \in Seq(0..255)
  PROVE  /\ q \o r \in Seq(0..255) /\ Len(q \o r) = Len(q) + Len(r)
         /\ \A j \in 1..Len(q) : (q \o r)[j] = q[j]
         /\ \A j \in 1..Len(r) : (q \o r)[Len(q) + j] = r[j]
BY Joined

\* One byte before and behind a sequence of bytes.
LEMMA Enclosed ==
  ASSUME NEW r \in Seq(0..255), NEW q \in Seq(0..255), Len(q) = 1
  PROVE  /\ (q \o r) \o q \in Seq(0..255)
         /\ Len((q \o r) \o q) = Len(r) + 2 /\ Len(r) \in Nat
         /\ ((q \o r) \o q)[1] = q[1] /\ ((q \o r) \o q)[Len(r) + 2] = q[1]
         /\ \A j \in 1..Len(r) : ((q \o r) \o q)[1 + j] = r[j]
<1>1. 1 \in 1..Len(q) /\ Len(r) \in Nat
  BY LenProperties
<1> DEFINE w == q \o r
<1>2. /\ w \in Seq(0..255) /\ Len(w) = Len(q) + Len(r)
      /\ \A j \in 1..Len(q) : w[j] = q[j]
      /\ \A j \in 1..Len(r) : w[Len(q) + j] = r[j]
  BY JoinedBytes, Zenon
<1> HIDE DEF w
<1> DEFINE s == w \o q
<1>3. /\ s \in Seq(0..255) /\ Len(s) = Len(w) + Len(q)
      /\ \A j \in 1..Len(w) : s[j] = w[j]
      /\ \A j \in 1..Len(q) : s[Len(w) + j] = q[j]
  BY <1>2, Joined
<1> HIDE DEF s
<1>4. Len(w) = Len(r) + 1 /\ 1 \in 1..Len(w) /\ \A j \in 1..Len(r) : 1 + j \in 1..Len(w)
  BY <1>1, <1>2
<1>5. w[1] = q[1] /\ \A j \in 1..Len(r) : w[1 + j] = r[j]
  BY <1>1, <1>2
<1>6. Len(s) = Len(r) + 2 /\ s[1] = q[1] /\ s[Len(r) + 2] = q[1]
  BY <1>1, <1>3, <1>4, <1>5
<1>7. \A j \in 1..Len(r) : s[1 + j] = r[j]
  BY <1>3, <1>4, <1>5
<1> QED
  BY <1>1, <1>3, <1>6, <1>7 DEF s, w

LEMMA BetweenQuotes ==
  ASSUME NEW r, NEW cuts, Accepts(r, cuts),
         NEW s \in Seq(0..255), Len(s) = Len(r) + 2, s[1] = Quote, s[Len(r) + 2] = Quote,
         \A j \in 1..Len(r) : s[1 + j] = r[j]
  PROVE  IsString(s, 0, Len(s))
<1> DEFINE n == Len(r)
           d == 1
           moved == {x \in d..(d + n) : x - d \in cuts}
<1>1. r \in Seq(0..255) /\ isValidUtf8(r) /\ cuts \in SUBSET (0..n) /\ IsCut(r, 0, n, cuts)
  BY DEF Accepts
<1>2. n \in Nat /\ d \in Nat
  BY <1>1, LenProperties
<1>3. moved \in SUBSET (d..(d + n)) /\ \A p \in 0..n : d + p \in moved <=> p \in cuts
  BY <1>2
<1>4. \A j \in 1..n : s[d + j] = r[j]
  OBVIOUS
<1>5. /\ 0 + 1 = d /\ 0 + 2 = d + 1 /\ Len(s) - 1 = d + n /\ 0 + 2 <= Len(s) /\ d + n <= Len(s)
      /\ s[0 + 1] = 34 /\ s[Len(s)] = 34
  BY <1>2 DEF Quote
<1> HIDE DEF n, d, moved
<1>6. IsCut(s, d, d + n, moved)
  BY <1>1, <1>2, <1>3, <1>4, CutMoved
<1> DEFINE u == SubSeq(s, d + 1, d + n)
<1>7. u \in Seq(0..255) /\ Len(u) = n /\ \A j \in 1..n : u[j] = s[d + j]
  BY <1>2, <1>5, Slice
<1> HIDE DEF u
<1>8. u = r
  BY <1>1, <1>4, <1>7, SeqEqual DEF n
<1>9. isValidUtf8(SubSeq(s, 0 + 2, Len(s) - 1))
  BY <1>1, <1>5, <1>8 DEF u
<1>10. moved \in SUBSET ((0 + 1)..(Len(s) - 1)) /\ IsCut(s, 0 + 1, Len(s) - 1, moved)
  BY <1>3, <1>5, <1>6
<1> QED
  BY <1>5, <1>9, <1>10, Zenon DEF IsString

\* And a text that is written between quotes (JsonSerializer.cpp:20) is a
\* string of the lexical grammar, which the lexer reads as one token.
THEOREM WrittenIsString ==
  ASSUME NEW t \in Seq(0..255), isValidUtf8(t)
  PROVE  LET s == (<<Quote>> \o escapeString(t)) \o <<Quote>> IN IsString(s, 0, Len(s))
<1> DEFINE r == escapeString(t)
           q == <<Quote>>
           s == (q \o r) \o q
<1>1. Accepts(r, EscapeCuts(t)) /\ r \in Seq(0..255)
  BY EscapesAreAccepted DEF Accepts
<1>2. q \in Seq(0..255) /\ Len(q) = 1 /\ q[1] = Quote
  BY DEF Quote
<1> HIDE DEF r, q
<1>3. /\ s \in Seq(0..255) /\ Len(s) = Len(r) + 2 /\ s[1] = q[1] /\ s[Len(r) + 2] = q[1]
      /\ \A j \in 1..Len(r) : s[1 + j] = r[j]
  BY <1>1, <1>2, Enclosed
<1> HIDE DEF s
<1>4. IsString(s, 0, Len(s))
  BY <1>1, <1>2, <1>3, BetweenQuotes
<1> QED
  BY <1>4 DEF s, r, q
=============================================================================
