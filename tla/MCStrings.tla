------------------------------ MODULE MCStrings -----------------------------
(***************************************************************************)
(* JsonStrings on all short strings made of characters and escapes from    *)
(* both ends of every range that is treated by itself, and what they mean. *)
(* A table gives the encoding of each character; nothing is computed.      *)
(***************************************************************************)
EXTENDS JsonStrings, SequencesExt

CONSTANT PieceCount   \* characters and escapes of a string, at most

\* The encodings of the code points used (Unicode, table 3-6).
Encoding ==
  (0 :> <<0>>) @@ (8 :> <<8>>) @@ (9 :> <<9>>) @@ (10 :> <<10>>) @@ (12 :> <<12>>) @@ (13 :> <<13>>)
  @@ (31 :> <<31>>) @@ (34 :> <<34>>) @@ (47 :> <<47>>) @@ (92 :> <<92>>) @@ (127 :> <<127>>)
  @@ (128 :> <<194, 128>>) @@ (2047 :> <<223, 191>>)
  @@ (2048 :> <<224, 160, 128>>) @@ (55295 :> <<237, 159, 191>>)
  @@ (57344 :> <<238, 128, 128>>) @@ (65535 :> <<239, 191, 191>>)
  @@ (65536 :> <<240, 144, 128, 128>>) @@ (66559 :> <<240, 144, 143, 191>>)
  @@ (1113088 :> <<244, 143, 176, 128>>) @@ (1114111 :> <<244, 143, 191, 191>>)

\* Strings of digits, those of d7ff in both cases, and the digits' units.
Spelled ==
  (<<48, 48, 48, 48>> :> 0) @@ (<<48, 48, 49, 102>> :> 31)
  @@ (<<48, 48, 55, 70>> :> 127) @@ (<<48, 48, 56, 48>> :> 128)
  @@ (<<48, 55, 102, 102>> :> 2047) @@ (<<48, 56, 48, 48>> :> 2048)
  @@ (<<68, 55, 70, 102>> :> 55295) @@ (<<100, 56, 48, 48>> :> 55296)
  @@ (<<68, 66, 70, 70>> :> 56319) @@ (<<100, 99, 48, 48>> :> 56320)
  @@ (<<68, 102, 102, 70>> :> 57343) @@ (<<101, 48, 48, 48>> :> 57344)
  @@ (<<102, 102, 102, 102>> :> 65535)

\* The pairs of surrogates and the code points they stand for.
Paired ==
  (<<55296, 56320>> :> 65536) @@ (<<55296, 57343>> :> 66559)
  @@ (<<56319, 56320>> :> 1113088) @@ (<<56319, 57343>> :> 1114111)

Short ==
  (<<92, 34>> :> 34) @@ (<<92, 92>> :> 92) @@ (<<92, 47>> :> 47) @@ (<<92, 98>> :> 8)
  @@ (<<92, 102>> :> 12) @@ (<<92, 110>> :> 10) @@ (<<92, 114>> :> 13) @@ (<<92, 116>> :> 9)

UnitEscape(digits) == <<92, 117>> \o digits
Literal == {Encoding[cp] : cp \in {47} \cup {n \in DOMAIN Encoding : n > 92}}
Pieces == Literal \cup DOMAIN Short \cup {UnitEscape(d) : d \in DOMAIN Spelled}

MCRaws == {FlattenSeq(s) : s \in BoundedSeq(Pieces, PieceCount)}

\* The positions between the bytes and escapes of a string.
PieceLength(r, p) == IF r[p + 1] # Backslash THEN 1 ELSE IF r[p + 2] = LowerU THEN 6 ELSE 2
CutsOf(r) ==
  FoldLeft(LAMBDA cuts, p : IF p \in cuts THEN cuts \cup {p + PieceLength(r, p)} ELSE cuts,
           {0}, [k \in DOMAIN r |-> k - 1])
MCCuts == [r \in MCRaws |-> CutsOf(r)]

\* Characters: one piece, or two escapes that are a pair.
One(r, cp) == [raw |-> r, text |-> Encoding[cp], pieces |-> 1]
Characters ==
  {[raw |-> b, text |-> b, pieces |-> 1] : b \in Literal}
  \cup {One(e, Short[e]) : e \in DOMAIN Short}
  \cup {One(UnitEscape(d), Spelled[d]) : d \in {e \in DOMAIN Spelled : Spelled[e] \in DOMAIN Encoding}}
  \cup {[raw |-> UnitEscape(d[1]) \o UnitEscape(d[2]), pieces |-> 2,
         text |-> Encoding[Paired[<<Spelled[d[1]], Spelled[d[2]]>>]]]
        : d \in {e \in (DOMAIN Spelled) \X (DOMAIN Spelled) : <<Spelled[e[1]], Spelled[e[2]]>> \in DOMAIN Paired}}

Spellings ==
  {FoldLeft(LAMBDA t, c : [raw |-> t.raw \o c.raw, text |-> t.text \o c.text, pieces |-> t.pieces + c.pieces],
            [raw |-> <<>>, text |-> <<>>, pieces |-> 0], s) : s \in BoundedSeq(Characters, PieceCount)}

\* The texts of two characters at most: what is written for them is among MCRaws.
MCTexts == {FlattenSeq(s) : s \in BoundedSeq({Encoding[cp] : cp \in DOMAIN Encoding}, 2)}

\* The strings that TLC reads them back from.
ASSUME EscapesAreRead ==
  \A e \in Escapes : e.written \in MCRaws /\ Accepts(e.written, EscapeCuts(e.text))

-----------------------------------------------------------------------------
Sentences == {t.raw : t \in Spellings}
Meaning == {<<t.raw, t.text>> : t \in Spellings}

\* unescapeString answers every string the lexer accepts: with the text it
\* spells, surrogates in pairs joined, or with an exception when a surrogate
\* has no partner.
Outcome == INSTANCE TextPass WITH
  text <- raw,
  outcome <- IF pc = "done" THEN [kind |-> "accepted", value |-> out]
             ELSE [kind |-> IF pc = "threw" THEN "rejected" ELSE "pending"]

ImplementsTextPass == Outcome!Spec
=============================================================================
