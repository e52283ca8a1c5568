------------------------------- MODULE MCSort -------------------------------
(***************************************************************************)
(* JsonSort on small arrays, with the numbers of JsonNumber and their      *)
(* compareNumbers: integers of either storage and doubles, equal ones and  *)
(* one between two integers, and NaN.                                      *)
(***************************************************************************)
EXTENDS JsonSort

CONSTANTS
  ArrayLength,   \* elements of an array of any values, at most
  NumbersLength  \* elements of an array of numbers, at most

N == INSTANCE JsonNumber WITH
  Half <- 8, Unit <- 4, Doubles <- (-70)..70, Infinity <- 80, Garbage <- 0,
  number <- 0, other <- 0

MCCompareNumbers(a, b) == IF N!NaN \in {a, b} THEN Incomparable ELSE N!compareNumbers(a, b)

Key == <<"a">>
Under(key, v) == ObjectValue(key :> v)

MCExact(n) == N!Exact(n)

OrderedOnes == {N!Signed(-1), N!Signed(1), N!Double(4, FALSE), N!Double(6, FALSE), N!Unsigned(9)}
MCNumbers == OrderedOnes \cup {N!NaN}

NumberValues == {NumberValue(n) : n \in OrderedOnes}
Others == {NumberValue(N!NaN), StringValue(1), StringValue(2), NullValue}

\* Elements whose value at the path a is one of these, or which have no such
\* path, or which have the path a.a; and two that are reached by the paths "a."
\* and "" only, whose last key is empty.
Plain == {Under(Key, v) : v \in NumberValues \cup Others}
Odd == {NullValue, ObjectValue(EmptyObject), Under(<<>>, StringValue(1))}
Nested == {Under(Key, Under(key, v)) : key \in {Key, <<>>}, v \in {StringValue(1), NumberValue(N!Signed(1))}}

MCTargets ==
  {ArrayValue(e) : e \in BoundedSeq(Plain \cup Odd, ArrayLength) \cup BoundedSeq(Nested \cup Odd, ArrayLength)}
  \cup {ArrayValue(e) : e \in BoundedSeq({Under(Key, v) : v \in NumberValues}, NumbersLength)}
  \cup {NullValue, ObjectValue(EmptyObject)}

MCKeyPaths == {Key, <<"a", ".", "a">>, <<"a", ".">>, <<>>}
=============================================================================
