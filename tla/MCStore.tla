------------------------------- MODULE MCStore ------------------------------
(***************************************************************************)
(* JsonStore on every call on every node of small documents: those of two  *)
(* levels that mix objects and arrays, and those of three levels that are  *)
(* objects all through, or arrays, with null and a number in them, or with *)
(* a string.  The references of a call may refer to any node, also to one  *)
(* that contains the target or is contained in it.                         *)
(***************************************************************************)
EXTENDS JsonStore

MCKeyOrder == <<"a", "b">>

\* One level more: the objects and the arrays of at most n of the values.
ObjectsOf(values) == {ObjectValue(m) : m \in UNION {[K -> values] : K \in SUBSET Key}}
ArraysOf(values, n) == {ArrayValue(e) : e \in BoundedSeq(values, n)}

Containers(values) == ObjectsOf(values) \cup ArraysOf(values, 2)
One == NumberValue(1)
Mixed == {NullValue, One} \cup Containers({NullValue, One} \cup Containers({One}))

\* An object with one member that is not empty, and an array likewise.
ObjectWith(values) == {ObjectValue(k :> v) : k \in Key, v \in values}
DeepObjects == ObjectsOf({NullValue} \cup ObjectWith(ObjectsOf({NullValue}) \ {ObjectValue(EmptyObject)}))
DeepArrays == ArraysOf({NullValue} \cup ArraysOf(ArraysOf({One}, 2), 1), 2)

\* A string within one container and within two.
Text == StringValue("t")
Strings == Containers({NullValue, Text}) \cup ObjectWith(ArraysOf({Text}, 1)) \cup ArraysOf(ObjectWith({Text}), 1)

MCDocuments == Mixed \cup DeepObjects \cup DeepArrays \cup Strings
=============================================================================
