------------------------------ MODULE JsonFuzz ------------------------------
(***************************************************************************)
(* JsonFuzz::checkInput: a document is parsed; what the parser accepts is  *)
(* serialized, compact and then indented, and both texts are parsed again. *)
(* It composes JsonParser, run three times, with JsonSerializer; between   *)
(* them the lexer makes tokens of a text, without its blanks.              *)
(***************************************************************************)
EXTENDS JsonParser, JsonSerializer

Texts == {Text[s] : s \in Strings} \ {Invalid}
Numbers == {Number[s] : s \in Numerals} \ {Invalid}
Blank == [type : {"Blank"}, width : Nat]

\* A spelling is read back as what was spelled, which JsonStrings and JsonNumber
\* are about, and no text is taken for an exception.
ASSUME SpellingAssumption ==
  /\ \A t \in Texts : Escape[t] \in Strings \ {Refused} /\ Text[Escape[t]] = t
  /\ \A n \in Numbers : Written[n] \in Numerals \ {Refused} /\ Number[Written[n]] = n
  /\ Refused \notin Seq(Token \cup Blank)

\* std::map has an order of all keys.
ASSUME OrderAssumption ==
  /\ \A k, l \in Texts : k # l <=> <<k, l>> \in KeyOrder \/ <<l, k>> \in KeyOrder
  /\ \A k, l, m \in Texts : <<k, l>> \in KeyOrder /\ <<l, m>> \in KeyOrder => <<k, m>> \in KeyOrder

\* Both limits are 128.
ASSUME LimitsAssumption == MaxDepth <= MaxLevel

VARIABLES
  stage,      \* which text is being parsed, or how the check ended
  original,   \* the value of the input
  compact     \* its compact text

check == <<stage, original, compact>>

Stages == {"input", "compact", "pretty"}
\* The tokens of a text, and EOF.
WithoutBlanks(text) ==
  LET tokensOf[n \in 0..Len(text)] ==
        IF n = 0 THEN <<>>
        ELSE IF text[n].type = "Blank" THEN tokensOf[n - 1] ELSE Append(tokensOf[n - 1], text[n])
  IN  tokensOf[Len(text)]
Lexed(text) == Append(WithoutBlanks(text), [type |-> "EndOfFile"])

\* operator== of two numbers, and of any two values, with integers of either
\* storage compared by value, and doubles also by sign and never to integers.
SameNumber(a, b) ==
  IF "double" \in {a.storage, b.storage} THEN a = b ELSE a.n = b.n

SameHere(left, right) ==
  /\ left.kind = right.kind
  /\ CASE left.kind = "number" -> SameNumber(left.number, right.number)
       [] left.kind = "array" -> Len(left.elements) = Len(right.elements)
       [] left.kind = "object" -> DOMAIN left.members = DOMAIN right.members
       [] OTHER -> left = right
PairsWithin(left, right) ==
  CASE left.kind = "array" -> {<<left.elements[i], right.elements[i]>> : i \in DOMAIN left.elements}
    [] left.kind = "object" -> {<<left.members[k], right.members[k]>> : k \in DOMAIN left.members}
    [] OTHER -> {}

\* sameValue goes on within two values as far as they are the same; no value
\* it is called for has more than MaxDepth levels.
sameValue(left, right) ==
  LET pairs[n \in 0..MaxDepth] ==
        IF n = 0 THEN {<<left, right>>}
        ELSE UNION {PairsWithin(p[1], p[2]) : p \in {q \in pairs[n - 1] : SameHere(q[1], q[2])}}
  IN  \A n \in 0..MaxDepth : \A p \in pairs[n] : SameHere(p[1], p[2])

FuzzInit ==
  /\ Init
  /\ stage = "input"
  /\ original = NullValue
  /\ compact = <<>>

\* parse() runs on.
Parsing == stage \in Stages /\ Parse /\ UNCHANGED check

\* parse() is called for a text.
ParseAgain(text) ==
  /\ tokens' = Lexed(text)
  /\ current' = 1 /\ currentDepth' = 0
  /\ arrayReservations' = <<>> /\ nextArrayReservation' = 1
  /\ scanAt' = 1 /\ scanStack' = <<>>
  /\ frames' = <<>> /\ ret' = NullValue /\ error' = NoError
  /\ pc' = "construct"

\* checkInput ends, with one of its results or an exception.
End(how) == stage' = how /\ UNCHANGED <<vars, original, compact>>

\* An exception of the parser means that the input is no JSON; what is thrown
\* later leaves checkInput.
ParseFails ==
  /\ stage \in Stages /\ pc = "failed"
  /\ End(IF stage = "input" THEN "rejected" ELSE "bug")

Serialize ==
  /\ stage = "input" /\ pc = "done"
  /\ LET text == serialize(ret, FALSE, 0)
     IN  \/ text = Refused /\ End("bug")
         \/ /\ text # Refused
            /\ original' = ret
            /\ compact' = text
            /\ stage' = "compact"
            /\ ParseAgain(text)

CompareCompact ==
  /\ stage = "compact" /\ pc = "done"
  /\ LET text == serialize(original, TRUE, 0)
         good == /\ sameValue(original, ret)
                 /\ serialize(ret, FALSE, 0) = compact
                 /\ text # Refused
     IN  \/ ~good /\ End("bug")
         \/ /\ good
            /\ stage' = "pretty"
            /\ ParseAgain(text)
            /\ UNCHANGED <<original, compact>>

ComparePretty ==
  /\ stage = "pretty" /\ pc = "done"
  /\ LET good == sameValue(original, ret) /\ serialize(ret, FALSE, 0) = compact
     IN  End(IF good THEN "accepted" ELSE "bug")

Verdict == {"accepted", "rejected", "bug"}
FuzzEnded == stage \in Verdict /\ UNCHANGED <<vars, check>>

FuzzStep == Parsing \/ ParseFails \/ Serialize \/ CompareCompact \/ ComparePretty

FuzzNext == FuzzStep \/ FuzzEnded

\* checkInput runs until it returns or throws.
FuzzSpec == FuzzInit /\ [][FuzzNext]_<<vars, check>> /\ WF_<<vars, check>>(FuzzStep)
-----------------------------------------------------------------------------
\* Containers on the deepest path of a value.
DepthOf(v) ==
  Cardinality({n \in 0..MaxDepth : \E w \in Inside(v)[n] : w.kind \in {"object", "array"}})

\* checkInput never finds a bug: every document the parser accepts, the deepest
\* included, can be written, is read back as the same value, with integers and
\* doubles told apart, and is then written as before; and blanks do not matter.
RoundTripHolds == stage # "bug"

\* The level limit is one of depth: a value can be written at a level exactly
\* if its deepest part ends up at most MaxLevel deep - so the parser's limit
\* and the serializer's, JsonSerializer.cpp:35, are the same.
LimitIsDepth ==
  \A level \in -1..(MaxLevel + 1), pretty \in BOOLEAN :
    serialize(original, pretty, level) = Refused
      <=> level \notin 0..MaxLevel \/ level + DepthOf(original) > MaxLevel
=============================================================================
