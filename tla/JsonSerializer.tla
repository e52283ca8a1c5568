--------------------------- MODULE JsonSerializer ---------------------------
(***************************************************************************)
(* JsonSerializer: the text of a value, compact or indented, written for a *)
(* value that stands level deep in what is being written.  A text is a     *)
(* sequence of tokens, as the lexer would make them, and of the blanks in  *)
(* between; what throws is Refused.                                        *)
(*                                                                         *)
(* How strings and numbers are spelled is Escape and Written: JsonStrings  *)
(* and JsonNumber say that what they give is read back as what it was.     *)
(***************************************************************************)
EXTENDS JsonValues, Integers, FiniteSets, Sequences

CONSTANTS
  MaxLevel,   \* the deepest level of a scalar: 128
  KeyOrder,   \* the pairs of keys that std::map has in this order
  Escape,     \* text |-> what is written between quotes, Refused if not UTF-8
  Written,    \* number |-> its spelling, Refused if NaN or infinite
  Refused     \* what serialize gives by throwing

ASSUME SerializerAssumption == MaxLevel \in Nat

Mark(type) == <<[type |-> type]>>
Space == <<[type |-> "Blank", width |-> 1]>>
NewLine(width) == <<[type |-> "Blank", width |-> width]>>
Spell(type, raw) == IF raw = Refused THEN Refused ELSE <<[type |-> type, raw |-> raw]>>

\* The values that a value is made of, and those n levels within it.
Contained(json) ==
  CASE json.kind = "object" -> {json.members[k] : k \in DOMAIN json.members}
    [] json.kind = "array" -> {json.elements[i] : i \in DOMAIN json.elements}
    [] OTHER -> {}
Inside(json) ==
  LET level[n \in Nat] == IF n = 0 THEN {json} ELSE UNION {Contained(v) : v \in level[n - 1]}
  IN  level

\* Keys in the order of std::map.
InOrder(keys) ==
  CHOOSE s \in [1..Cardinality(keys) -> keys] :
    /\ {s[i] : i \in DOMAIN s} = keys
    /\ \A i, j \in DOMAIN s : i < j => <<s[i], s[j]>> \in KeyOrder

\* An empty container is not indented; any other puts each part on a line of
\* its own, one level deeper than its brackets.  A part may be Refused.
Enclosed(opener, parts, closer, pretty, level) ==
  LET break(n) == IF pretty THEN NewLine(2 * n) ELSE <<>>
      result[i \in 0..Len(parts)] ==
        IF i = 0 THEN Mark(opener)
        ELSE result[i - 1] \o (IF i = 1 THEN <<>> ELSE Mark("Comma")) \o break(level + 1) \o parts[i]
  IN  CASE \E i \in DOMAIN parts : parts[i] = Refused -> Refused
        [] Len(parts) = 0 -> Mark(opener) \o Mark(closer)
        [] OTHER -> result[Len(parts)] \o break(level) \o Mark(closer)

\* Mutants: a container is refused one level too early, and one too late.
ContainerTooDeepEarly(level) == level + 1 >= MaxLevel
ContainerTooDeepLate(level) == level > MaxLevel

ContainerTooDeep(level) == level >= MaxLevel

\* A container at a level, textOf being the texts of its parts one level deeper.
serializeArray(elements, textOf, pretty, level) ==
  Enclosed("LeftBracket", [i \in DOMAIN elements |-> textOf[elements[i]]], "RightBracket", pretty, level)

serializeObject(members, textOf, pretty, level) ==
  LET keys == InOrder(DOMAIN members)
      member(k) ==
        IF Refused \in {Escape[k], textOf[members[k]]} THEN Refused
        ELSE Spell("String", Escape[k]) \o Mark("Colon") \o (IF pretty THEN Space ELSE <<>>)
             \o textOf[members[k]]
  IN  Enclosed("LeftBrace", [i \in DOMAIN keys |-> member(keys[i])], "RightBrace", pretty, level)

Container(json, textOf, pretty, level) ==
  CASE ContainerTooDeep(level) -> Refused
    [] ~ContainerTooDeep(level) /\ json.kind = "object" -> serializeObject(json.members, textOf, pretty, level)
    [] ~ContainerTooDeep(level) /\ json.kind = "array" -> serializeArray(json.elements, textOf, pretty, level)

TextOf(json, textOf, pretty, level) ==
  IF level \notin 0..MaxLevel THEN Refused
  ELSE CASE json.kind = "null" -> Mark("Null")
         [] json.kind = "bool" -> Mark(IF json.flag THEN "True" ELSE "False")
         [] json.kind = "number" -> Spell("Number", Written[json.number])
         [] json.kind = "string" -> Spell("String", Escape[json.text])
         [] OTHER -> Container(json, textOf, pretty, level)

\* serialize calls itself for the values one level within.
serialize(json, pretty, level) ==
  LET text[l \in Int] == [v \in Inside(json)[l - level] |-> TextOf(v, text[l + 1], pretty, l)]
  IN  text[level][json]
=============================================================================
