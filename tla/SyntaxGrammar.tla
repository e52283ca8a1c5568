--------------------------- MODULE SyntaxGrammar ----------------------------
(***************************************************************************)
(* The syntactic grammar of JSON on token streams of any length, and what  *)
(* the parts of a stream mean.  A phrase is a part that the grammar gives  *)
(* a meaning: a value, the elements of an array, a member of an object or  *)
(* several.  It covers the tokens from + 1 to `to`, and depth says how     *)
(* deep containers nest in it.  Each rule makes a phrase of shorter ones   *)
(* that cover the same tokens.  Nothing here decides how to go on at a     *)
(* token, and there is no state.                                           *)
(***************************************************************************)
EXTENDS JsonValues, Integers

CONSTANTS
  MaxDepth,   \* MAX_DEPTH: 128
  Text,       \* raw contents of a string |-> unescaped text, or Invalid
  Number,     \* spelling of a number |-> number, or Invalid if out of range
  Invalid

Phrase(kind, from, to, value, depth) ==
  [kind |-> kind, from |-> from, to |-> to, value |-> value, depth |-> depth]

Larger(m, n) == IF m > n THEN m ELSE n

\* What a token by itself means as a value.
Words == [True |-> BoolValue(TRUE), False |-> BoolValue(FALSE), Null |-> NullValue]
Denoted(t) ==
  CASE t.type \in DOMAIN Words -> {Words[t.type]}
    [] t.type = "String" -> {StringValue(x) : x \in {Text[t.raw]} \ {Invalid}}
    [] t.type = "Number" -> {NumberValue(x) : x \in {Number[t.raw]} \ {Invalid}}
    [] OTHER -> {}

\* The two kinds of lists, what encloses them, and of what they are lists.
ListKinds == {"elements", "members"}
Opener == [elements |-> "LeftBracket", members |-> "LeftBrace"]
Closer == [elements |-> "RightBracket", members |-> "RightBrace"]
Item == [elements |-> "value", members |-> "member"]
NoItems == [elements |-> ArrayValue(<<>>), members |-> ObjectValue(EmptyObject)]

\* A list means the container that encloses it, a member one of that member
\* alone.  The first member of a name counts.
WithItem(kind, list, item) ==
  IF kind = "elements" THEN ArrayValue(Append(list.elements, item))
                       ELSE ObjectValue(WithMembers(list.members, item.members))

-----------------------------------------------------------------------------
\* The phrases that end at token b, made of those in shorter, which end before.
Single(ts, b) == {Phrase("value", b - 1, b, v, 0) : v \in Denoted(ts[b])}

IsEnclosed(ts, l, b) ==
  /\ l.kind \in ListKinds /\ l.to = b - 1 /\ l.from > 0
  /\ ts[l.from].type = Opener[l.kind] /\ ts[b].type = Closer[l.kind]
Containers(ts, shorter, b) ==
  {Phrase("value", l.from - 1, b, l.value, l.depth + 1)
   : l \in {p \in shorter : IsEnclosed(ts, p, b)}}

IsNamed(ts, v) ==
  /\ v.from > 1 /\ ts[v.from].type = "Colon"
  /\ ts[v.from - 1].type = "String" /\ Text[ts[v.from - 1].raw] # Invalid
Named(ts, values) ==
  {Phrase("member", v.from - 2, v.to, ObjectValue(OneMember(Text[ts[v.from - 1].raw], v.value)), v.depth)
   : v \in {p \in values : IsNamed(ts, p)}}

\* A list has no items, or one more than another; commas are between them.
EmptyLists(ts, b) ==
  {Phrase(k, b, b, NoItems[k], 0) : k \in {j \in ListKinds : ts[b].type = Opener[j]}}
GoesOn(ts, l, i) ==
  /\ l.kind \in ListKinds /\ i.kind = Item[l.kind]
  /\ IF l.from = l.to THEN i.from = l.to ELSE i.from = l.to + 1 /\ ts[i.from].type = "Comma"
Longer(ts, lists, items) ==
  {Phrase(p[1].kind, p[1].from, p[2].to, WithItem(p[1].kind, p[1].value, p[2].value),
          Larger(p[1].depth, p[2].depth))
   : p \in {q \in lists \X items : GoesOn(ts, q[1], q[2])}}

Ending(ts, shorter, b) ==
  LET values == Single(ts, b) \cup Containers(ts, shorter, b)
      items == values \cup Named(ts, values)
  IN  items \cup Longer(ts, shorter, items) \cup EmptyLists(ts, b)

\* All phrases that end at token n or before, and all phrases.
PhrasesBy(ts) ==
  LET upTo[n \in 0..Len(ts)] ==
        IF n = 0 THEN {} ELSE LET shorter == upTo[n - 1] IN shorter \cup Ending(ts, shorter, n)
  IN  upTo
Phrases(ts) == PhrasesBy(ts)[Len(ts)]

\* A document is a value, and EOF behind it.
IsRoot(ts, n, p) ==
  /\ ts[n].type = "EndOfFile"
  /\ p.kind = "value" /\ p.from = 0 /\ p.to = n - 1 /\ p.depth <= MaxDepth
Document(ts, n, v) == \E p \in Phrases(ts) : IsRoot(ts, n, p) /\ p.value = v
IsDocument(ts) == Len(ts) > 0 /\ \E p \in Phrases(ts) : IsRoot(ts, Len(ts), p)
=============================================================================
