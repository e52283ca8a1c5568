------------------------------ MODULE JsonStore -----------------------------
(***************************************************************************)
(* A Json value and the calls that change it: operator[], at, push_back,   *)
(* remove, clear and the merges, made on any node of a document, with      *)
(* arguments that are references to nodes of the same document (two        *)
(* separate documents are two members of one).                             *)
(*                                                                         *)
(* A node is named by its path.  A reference stays good while the object   *)
(* it refers to stays where it is; a call that reads through a reference   *)
(* that is no longer good, or assigns a value to a part of itself, has no  *)
(* defined outcome: pc becomes "undefined" and nothing more is said.       *)
(* Indices count from 1.                                                   *)
(***************************************************************************)
EXTENDS JsonValues, Naturals, Sequences, SequencesExt

CONSTANTS
  Documents,   \* what the document may be when a call is made
  Height,      \* containers on a path of a document, at most
  KeyOrder,    \* the keys, in the order of std::map
  IndexBound,  \* indices a caller asks for: 1..IndexBound, and TooLarge
  TooLarge,    \* any index beyond max_size() of a JsonArray
  MaxSources,  \* arguments of push_back, at most
  Growth       \* how a growing vector relocates its elements, where Json moves
               \* without throwing and where it does not: {"moves", "copies"}

ASSUME StoreAssumption ==
  /\ Height \in Nat /\ IndexBound \in Nat /\ MaxSources \in Nat
  /\ TooLarge \in Nat /\ TooLarge > IndexBound
  /\ Growth \subseteq {"moves", "copies"}
  /\ KeyOrder \in Seq(ToSet(KeyOrder))
  /\ \A i, j \in DOMAIN KeyOrder : KeyOrder[i] = KeyOrder[j] => i = j

VARIABLES
  root,       \* the document
  growth,     \* what this build's vectors do
  call,       \* the call that is made: its operation and arguments
  before,     \* the document when it was made (read by properties only)
  sources,    \* the references it has yet to read, in order
  relocated,  \* the target's elements have moved to a larger buffer
  pc

vars == <<root, growth, call, before, sources, relocated, pc>>

Key == ToSet(KeyOrder)
Index == 1..IndexBound \cup {TooLarge}
Step == [key : Key] \cup [index : Index]
IsKey(step) == "key" \in DOMAIN step

Child(v, step) == IF IsKey(step) THEN v.members[step.key] ELSE v.elements[step.index]
Steps(v) ==
  CASE v.kind = "object" -> [key : DOMAIN v.members]
    [] v.kind = "array" -> [index : DOMAIN v.elements]
    [] OTHER -> {}

\* A map of one member, and the members of two maps: the first one's where
\* both have a key.
Member(key, v) == [k \in {key} |-> v]
Over(m, n) == [k \in DOMAIN m \cup DOMAIN n |-> IF k \in DOMAIN m THEN m[k] ELSE n[k]]

SetChild(v, step, child) ==
  IF IsKey(step) THEN [v EXCEPT !.members = Over(Member(step.key, child), @)]
                 ELSE [v EXCEPT !.elements[step.index] = child]

\* The nodes on the way to the one at a path, from the root on; that node; and
\* a document with that node replaced, put together from the node upwards.
Along(doc, path) ==
  LET node[i \in 0..Len(path)] == IF i = 0 THEN doc ELSE Child(node[i - 1], path[i])
  IN  node
NodeOf(doc, path) == Along(doc, path)[Len(path)]
Replace(doc, path, v) ==
  LET old == Along(doc, path)
      new[i \in 0..Len(path)] ==
        IF i = Len(path) THEN v ELSE SetChild(old[i], path[i + 1], new[i + 1])
  IN  new[0]

Node(path) == NodeOf(root, path)
With(path, v) == Replace(root, path, v)

\* The paths of a document, of those a caller can spell.
Reaches(doc, path) == \A i \in DOMAIN path : path[i] \in Steps(Along(doc, path)[i - 1])
PathsOf(doc) == {path \in BoundedSeq(Step, Height) : Reaches(doc, path)}
Paths == PathsOf(root)

\* Of each node of a document: an object is a map from keys, an array a sequence.
Shaped(v) ==
  /\ v.kind = "object" =>
       DOMAIN v.members \subseteq Key /\ v = ObjectValue([k \in DOMAIN v.members |-> v.members[k]])
  /\ v.kind = "array" => v = ArrayValue(v.elements) /\ v.elements \in Seq(ToSet(v.elements))

ASSUME DocumentsAssumption ==
  \A doc \in Documents : \A path \in PathsOf(doc) : Shaped(NodeOf(doc, path))

Inside(p, q) == p # q /\ IsPrefix(q, p)
Nested(p, q) == Inside(p, q) \/ Inside(q, p)

\* A relocated vector has left its elements' old addresses; what an element
\* owns outside the vector keeps its address if the element was moved.
Dangling(p) ==
  /\ relocated
  /\ Inside(p, call.target)
  /\ growth = "copies" \/ Len(p) = Len(call.target) + 1

\* A value of another kind than the variant holds is built before the old value
\* goes only if copying it may throw and moving it cannot: never a null, boolean
\* or number, and an object only where Json, and so a map, moves without throwing.
BuiltFirst(kind) == kind \in {"string", "array"} \/ (kind = "object" /\ growth = "moves")

\* Assigning the value at p to the node at slot reads p after slot's old value
\* has begun to go, unless the new value is of another kind and built first.
SelfAssigns(slot, p) ==
  Nested(slot, p) /\ (Node(slot).kind = Node(p).kind \/ ~BuiltFirst(Node(p).kind))

-----------------------------------------------------------------------------
Init ==
  /\ root \in Documents
  /\ growth \in Growth
  /\ call = [op |-> "none", target |-> <<>>]
  /\ before = root
  /\ sources = <<>>
  /\ relocated = FALSE
  /\ pc = "ready"

Begin(c) == pc = "ready" /\ call' = c /\ UNCHANGED <<growth, before>>

Settle(how, doc) ==
  /\ pc' = how
  /\ root' = doc
  /\ sources' = <<>>
  /\ UNCHANGED relocated

Throw == Settle("threw", root)

\* Mutant: any value that is no container becomes one.
ScalarConverted(v, step) ==
  IF v.kind \in {"object", "array"} THEN v
  ELSE IF IsKey(step) THEN ObjectValue(EmptyObject) ELSE ArrayValue(<<>>)

\* operator[]: null becomes the container the argument asks for, and what is
\* missing is created as null.
Converted(v, step) ==
  IF v # NullValue THEN v
  ELSE IF IsKey(step) THEN ObjectValue(EmptyObject) ELSE ArrayValue(<<>>)

\* Mutant: resize(index).
OneShort(v, step) ==
  IF IsKey(step) THEN [v EXCEPT !.members = Over(@, Member(step.key, NullValue))]
  ELSE [v EXCEPT !.elements = @ \o [i \in 1..(step.index - 1 - Len(@)) |-> NullValue]]

Grows(v, step) == ~IsKey(step) /\ step.index > Len(v.elements)
Created(v, step) ==
  IF IsKey(step) THEN [v EXCEPT !.members = Over(@, Member(step.key, NullValue))]
  ELSE [v EXCEPT !.elements = @ \o [i \in 1..(step.index - Len(@)) |-> NullValue]]

Fits(v, step) == v.kind = IF IsKey(step) THEN "object" ELSE "array"

\* target[step] = value at sources[1], or target[step] alone.  The value is
\* looked up first, so the reference to it is held while operator[] runs.
Subscript(target, step, held) ==
  /\ Begin([op |-> "subscript", target |-> target, step |-> step, held |-> held])
  /\ LET v == Converted(Node(target), step)
     IN  \/ ~Fits(v, step) /\ Throw
         \/ /\ Fits(v, step) /\ Grows(v, step)  \* too large, or no memory for it
            /\ Settle("threw", With(target, v))
         \/ /\ Fits(v, step) /\ step # [index |-> TooLarge]
            /\ root' = With(target, Created(v, step))
            /\ relocated' \in IF Grows(v, step) THEN BOOLEAN ELSE {FALSE}
            /\ sources' = held
            /\ pc' = IF held = <<>> THEN "returned" ELSE "assign"

Assign ==
  /\ pc = "assign"
  /\ LET slot == Append(call.target, call.step)
         p == Head(sources)
         good == ~Dangling(p) /\ ~SelfAssigns(slot, p)
     IN  IF good THEN Settle("returned", With(slot, Node(p))) ELSE Settle("undefined", root)
  /\ UNCHANGED <<growth, call, before>>

\* at(), and operator[] of a const Json.
At(target, step) ==
  /\ Begin([op |-> "at", target |-> target, step |-> step])
  /\ Settle(IF step \in Steps(Node(target)) THEN "returned" ELSE "threw", root)

RemoveIndex(target, index) ==
  /\ Begin([op |-> "remove", target |-> target, step |-> [index |-> index]])
  /\ LET v == Node(target)
     IN  IF v.kind = "array" /\ index \in DOMAIN v.elements
         THEN Settle("returned", With(target, [v EXCEPT !.elements = RemoveAt(@, index)]))
         ELSE Throw

\* erase() of a key that is not there erases nothing and says nothing.
RemoveKey(target, key) ==
  /\ Begin([op |-> "remove", target |-> target, step |-> [key |-> key]])
  /\ LET v == Node(target)
     IN  IF v.kind = "object"
         THEN Settle("returned", With(target, [v EXCEPT !.members = RestrictDomain(@, LAMBDA k : k # key)]))
         ELSE Throw

Cleared(v) ==
  CASE v.kind = "object" -> ObjectValue(EmptyObject)
    [] v.kind = "array" -> ArrayValue(<<>>)
    [] OTHER -> NullValue

Clear(target) ==
  /\ Begin([op |-> "clear", target |-> target])
  /\ Settle("returned", With(target, Cleared(Node(target))))

(***************************************************************************)
(* The calls that read their arguments one after the other.                *)
(***************************************************************************)
ReadEach(refs, next) ==
  /\ sources' = refs
  /\ pc' = next
  /\ UNCHANGED <<root, relocated>>

PushBack(target, refs) ==
  /\ Begin([op |-> "push_back", target |-> target, refs |-> refs])
  /\ IF Node(target).kind = "array" THEN ReadEach(refs, "push") ELSE Throw

Elements(path) == [i \in DOMAIN Node(path).elements |-> Append(path, [index |-> i])]
Members(path) ==
  LET read[i \in 0..Len(KeyOrder)] ==
        IF i = 0 THEN <<>>
        ELSE IF KeyOrder[i] \in DOMAIN Node(path).members
             THEN Append(read[i - 1], Append(path, [key |-> KeyOrder[i]]))
             ELSE read[i - 1]
  IN  read[Len(KeyOrder)]

Arrays(target, other) == Node(target).kind = "array" /\ Node(other).kind = "array"
Objects(target, other) == Node(target).kind = "object" /\ Node(other).kind = "object"

\* Mutant: an array merged with itself is read in place as any other is.
MergeArrayInPlace(target, other) ==
  /\ Begin([op |-> "mergeArray", target |-> target, other |-> other])
  /\ IF Arrays(target, other) THEN ReadEach(Elements(other), "push") ELSE Throw

\* An array merged with itself appends a copy made beforehand; any other one is
\* read in place, from its first element to the last it had at the start.
MergeArray(target, other) ==
  /\ Begin([op |-> "mergeArray", target |-> target, other |-> other])
  /\ \/ ~Arrays(target, other) /\ Throw
     \/ /\ Arrays(target, other) /\ target = other
        /\ Settle("returned", With(target, [Node(target) EXCEPT !.elements = @ \o @]))
     \/ Arrays(target, other) /\ target # other /\ ReadEach(Elements(other), "push")

MergeObject(target, other, overwrite) ==
  /\ Begin([op |-> "mergeObject", target |-> target, other |-> other, overwrite |-> overwrite])
  /\ IF Objects(target, other) THEN ReadEach(Members(other), "insert") ELSE Throw

\* vector::push_back copies its argument before it gives up a full buffer.
Push ==
  /\ pc = "push" /\ sources # <<>>
  /\ LET v == Node(call.target)
         p == Head(sources)
     IN  \/ Dangling(p) /\ Settle("undefined", root)
         \/ /\ ~Dangling(p)
            /\ root' = With(call.target, [v EXCEPT !.elements = Append(@, Node(p))])
            /\ relocated' \in {relocated, TRUE}
            /\ sources' = Tail(sources)
            /\ UNCHANGED pc
  /\ UNCHANGED <<growth, call, before>>

\* Mutants: the loop does not move on from a member it skips; the last wins.
StuckOnSkip(skipped) == IF skipped THEN sources ELSE Tail(sources)
NeverSkips(key) == FALSE

NextMember(skipped) == Tail(sources)
Skips(key) == ~call.overwrite /\ key \in DOMAIN Node(call.target).members

\* insert_or_assign.  A member that holds the object being iterated over takes
\* that object with it when it is assigned to.
Insert ==
  /\ pc = "insert" /\ sources # <<>>
  /\ LET p == Head(sources)
         key == Last(p).key
         slot == Append(call.target, [key |-> key])
         bad == /\ key \in DOMAIN Node(call.target).members
                /\ Inside(p, slot) \/ SelfAssigns(slot, p)
     IN  \/ ~Skips(key) /\ bad /\ Settle("undefined", root)
         \/ /\ Skips(key) \/ ~bad
            /\ root' = IF Skips(key) THEN root ELSE With(slot, Node(p))
            /\ sources' = NextMember(Skips(key))
            /\ UNCHANGED <<relocated, pc>>
  /\ UNCHANGED <<growth, call, before>>

ReturnRead ==
  /\ pc \in {"push", "insert"} /\ sources = <<>>
  /\ Settle("returned", root)
  /\ UNCHANGED <<growth, call, before>>

-----------------------------------------------------------------------------
\* A caller makes one call, on any node; Documents are all it may find there.
Call ==
  \E target \in Paths :
    \/ \E step \in Step, held \in {<<>>} \cup {<<p>> : p \in Paths} : Subscript(target, step, held)
    \/ \E step \in Step : At(target, step)
    \/ \E index \in Index : RemoveIndex(target, index)
    \/ \E key \in Key : RemoveKey(target, key)
    \/ Clear(target)
    \/ \E refs \in BoundedSeq(Paths, MaxSources) \ {<<>>} : PushBack(target, refs)
    \/ \E other \in Paths : MergeArray(target, other)
    \/ \E other \in Paths, overwrite \in BOOLEAN : MergeObject(target, other, overwrite)

Run == Assign \/ Push \/ Insert \/ ReturnRead

Ended ==
  /\ pc \in {"returned", "threw", "undefined"}
  /\ UNCHANGED vars

Next == (pc = "ready" /\ Call) \/ Run \/ Ended

\* A call that was made runs until it is over; nobody has to make one.
Spec == Init /\ [][Next]_vars /\ WF_vars(Run)
-----------------------------------------------------------------------------
Running == pc \in {"assign", "push", "insert"}

\* The types of the variables; while a call runs, its target is a container of
\* the kind it works on, and the member or element it assigns to is there.
TypeOK ==
  /\ pc \in {"ready", "assign", "push", "insert", "returned", "threw", "undefined"}
  /\ growth \in Growth /\ relocated \in BOOLEAN
  /\ pc = "assign" => call.step \in Steps(Node(call.target))
  /\ pc = "push" => Node(call.target).kind = "array"
  /\ pc = "insert" => Node(call.target).kind = "object"

Was(path) == NodeOf(before, path)

\* What a call on copies of its arguments would leave at the target.
Merged ==
  LET v == Was(call.target)
  IN  CASE call.op = "push_back" ->
             [v EXCEPT !.elements = @ \o [i \in DOMAIN call.refs |-> Was(call.refs[i])]]
        [] call.op = "mergeArray" -> [v EXCEPT !.elements = @ \o Was(call.other).elements]
        [] call.op = "mergeObject" ->
             [v EXCEPT !.members = IF call.overwrite THEN Over(Was(call.other).members, @)
                                                     ELSE Over(@, Was(call.other).members)]

\* Only the first argument is sure to be read before the target changes.
ReadsTarget ==
  IF call.op = "push_back"
  THEN \E i \in DOMAIN call.refs \ {1} : IsPrefix(call.refs[i], call.target)
  ELSE Inside(call.target, call.other)

\* A merge or a push_back that returns has the effect it would have on copies
\* of its arguments taken before the call, and changes nothing but its target,
\* unless an argument contains the target, which is read as it changes
\* (JsonAlgorithms.cpp:19 and :41, JsonHandler.hpp:177).
MergesCopies ==
  pc = "returned" /\ call.op \in {"push_back", "mergeArray", "mergeObject"} /\ ~ReadsTarget
  => root = Replace(before, call.target, Merged)

\* The key or index by which the outer of two nested paths leads to the inner.
Towards(p, q) == IF Inside(p, q) THEN p[Len(q) + 1] ELSE q[Len(p) + 1]

\* What a caller has to avoid, in terms of the call alone.
Hazardous ==
  LET t == call.target
  IN  CASE call.op = "push_back" ->
             \E i \in DOMAIN call.refs \ {1} :
               Inside(call.refs[i], t) /\ (growth = "copies" \/ Len(call.refs[i]) = Len(t) + 1)
        [] call.op = "mergeArray" ->
             growth = "copies" /\ Inside(call.other, t) /\ Len(Was(call.other).elements) > 1
        [] call.op = "mergeObject" ->
             /\ call.overwrite /\ Nested(t, call.other)
             /\ Towards(t, call.other) \in Steps(Was(t)) \cap Steps(Was(call.other))
        [] call.op = "subscript" ->
             \E p \in ToSet(call.held) :
               \/ Nested(p, Append(t, call.step))
               \/ Inside(p, t) /\ call.step \notin Steps(Was(t)) /\ ~IsKey(call.step)
        [] OTHER -> FALSE

\* Only these calls can have no defined outcome: merging an array with itself
\* is not among them, nor is an argument that contains the array it goes into
\* (JsonAlgorithms.cpp:19 and :41, JsonHandler.hpp:177, JsonHandler.cpp:296).
DefinedUnlessHazardous == pc = "undefined" => Hazardous

\* A call that throws leaves the document as it was, except that operator[]
\* has by then made an empty array of a null (JsonHandler.cpp:294).
ThrowKeepsDocument ==
  pc = "threw" =>
    \/ root = before
    \/ /\ call.op = "subscript" /\ ~IsKey(call.step)
       /\ Was(call.target) = NullValue
       /\ root = Replace(before, call.target, ArrayValue(<<>>))

\* remove() throws when there is nothing to remove (JsonHandler.hpp:197).
RemovesOrThrows ==
  pc = "returned" /\ call.op = "remove" => call.step \in Steps(Was(call.target))

\* Every call that was made ends, whatever its arguments refer to.
EveryCallEnds == Running ~> ~Running
=============================================================================
