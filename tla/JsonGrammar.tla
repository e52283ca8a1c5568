---------------------------- MODULE JsonGrammar -----------------------------
(***************************************************************************)
(* The JSON grammar over tokens, written down without the parser: the      *)
(* documents of at most n tokens, each with the value it denotes and its   *)
(* nesting depth.  The documents are built from the shorter ones, so there *)
(* is no reading of tokens here, no position and no control.               *)
(*                                                                         *)
(* scalars is a set of documents of one token, keys a set of pairs of a    *)
(* key's token and the name it denotes.                                    *)
(***************************************************************************)
EXTENDS JsonValues, Naturals, Sequences, SequencesExt

Tok(type) == [type |-> type]
Doc(text, value, depth) == [text |-> text, value |-> value, depth |-> depth]
Deeper(c, d) == IF c.depth > d.depth THEN c.depth ELSE d.depth

\* Everything of exactly k tokens, given the levels below k: the values, the
\* comma-separated elements of an array and the members of an object.
Values(scalars, below, k) ==
  IF k = 1 THEN scalars
  ELSE IF k = 2
  THEN {Doc(<<Tok("LeftBrace"), Tok("RightBrace")>>, ObjectValue(EmptyObject), 1),
        Doc(<<Tok("LeftBracket"), Tok("RightBracket")>>, ArrayValue(<<>>), 1)}
  ELSE {Doc(<<Tok("LeftBrace")>> \o m.text \o <<Tok("RightBrace")>>,
            ObjectValue(m.value), m.depth + 1) : m \in below[k - 2].members}
       \cup
       {Doc(<<Tok("LeftBracket")>> \o e.text \o <<Tok("RightBracket")>>,
            ArrayValue(e.value), e.depth + 1) : e \in below[k - 2].elements}

Elements(values, below, k) ==
  {Doc(v.text, <<v.value>>, v.depth) : v \in values}
  \cup UNION {{Doc(e.text \o <<Tok("Comma")>> \o v.text, Append(e.value, v.value), Deeper(e, v))
               : e \in below[i].elements, v \in below[k - 1 - i].values} : i \in 1..(k - 2)}

\* A member, and a list of members.  The first member of a name counts.
Member(keys, below, k) ==
  IF k < 3 THEN {}
  ELSE {Doc(<<name.token, Tok("Colon")>> \o v.text, name.key :> v.value, v.depth)
        : name \in keys, v \in below[k - 2].values}

Members(member, below, k) ==
  member
  \cup UNION {{Doc(m.text \o <<Tok("Comma")>> \o n.text, m.value @@ n.value, Deeper(m, n))
               : m \in below[i].members, n \in below[k - 1 - i].member} : i \in 1..(k - 2)}

Within(docs, maxDepth) == {d \in docs : d.depth <= maxDepth}

Level(scalars, keys, maxDepth, below, k) ==
  LET values == Within(Values(scalars, below, k), maxDepth)
      member == Member(keys, below, k)
  IN  [values |-> values, elements |-> Elements(values, below, k),
       member |-> member, members |-> Members(member, below, k)]

\* The documents of at most n tokens that nest at most maxDepth deep.
Documents(scalars, keys, maxDepth, n) ==
  LET levels == FoldLeft(LAMBDA below, k :
                           Append(below, Level(scalars, keys, maxDepth, below, k)),
                         <<>>, [k \in 1..n |-> k])
  IN  UNION {levels[k].values : k \in 1..n}
=============================================================================
