----------------------------- MODULE JsonValues -----------------------------
(***************************************************************************)
(* The alternatives of Json::JsonValue, the variant a Json holds.  Each    *)
(* alternative is a record tagged with its kind and carries its content in *)
(* a field of its own, so that values of different kinds are never equal.  *)
(* An object is a function from keys to values, as the std::map is; an     *)
(* array is a sequence.  The three numeric alternatives differ only in the *)
(* abstract number they hold; JsonNumber tells them apart.                 *)
(***************************************************************************)
EXTENDS Sequences

NullValue == [kind |-> "null"]
BoolValue(b) == [kind |-> "bool", flag |-> b]
NumberValue(n) == [kind |-> "number", number |-> n]
StringValue(t) == [kind |-> "string", text |-> t]
ObjectValue(m) == [kind |-> "object", members |-> m]
ArrayValue(e) == [kind |-> "array", elements |-> e]

EmptyObject == [k \in {} |-> NullValue]
OneMember(key, value) == [k \in {key} |-> value]

\* The members of two objects; of equal names the first counts.
WithMembers(first, second) ==
  [k \in DOMAIN first \cup DOMAIN second |-> IF k \in DOMAIN first THEN first[k] ELSE second[k]]
=============================================================================
