------------------------------- MODULE MCFuzz -------------------------------
(***************************************************************************)
(* JsonFuzz on all documents of a few tokens: names that are spelled in    *)
(* two ways, members whose order or repetition the map does not keep, the  *)
(* numbers whose storage or sign could get lost, and every nesting up to   *)
(* one level more than the parser accepts.                                 *)
(***************************************************************************)
EXTENDS JsonFuzz, JsonGrammar

CONSTANT DocumentLength   \* tokens of a document, at most

N == INSTANCE JsonNumber WITH
  Half <- 8, Unit <- 4, Doubles <- (-70)..70, Infinity <- 80, Garbage <- 0,
  number <- 0, other <- 0

MCText == [a |-> "A", u0061 |-> "A", b |-> "B"]
MCEscape == [A |-> "a", B |-> "b"]
MCKeyOrder == {<<"A", "B">>}

\* The spellings of a whole double, of a negative zero and of an integer.
MCNumber == [one |-> N!Signed(1), onePointZero |-> N!Double(4, FALSE), oneE0 |-> N!Double(4, FALSE),
             minusZero |-> N!Double(0, TRUE), minusZeroPointZero |-> N!Double(0, TRUE)]
MCWritten == (N!Signed(1) :> "one") @@ (N!Double(4, FALSE) :> "onePointZero")
             @@ (N!Double(0, TRUE) :> "minusZeroPointZero")

StringOf(s) == [type |-> "String", raw |-> s]
NumberOf(n) == [type |-> "Number", raw |-> n]

\* The spellings that serialize writes for doubles are not among the inputs.
Scalars ==
  {Doc(<<StringOf("b")>>, StringValue("B"), 0)}
  \cup {Doc(<<NumberOf(n)>>, NumberValue(Number[n]), 0) : n \in {"one", "oneE0", "minusZero"}}
Keys == {[token |-> StringOf(s), key |-> Text[s]] : s \in Strings}

MCInputs ==
  {Append(d.text, Tok("EndOfFile")) : d \in Documents(Scalars, Keys, MaxDepth + 1, DocumentLength)}
=============================================================================
