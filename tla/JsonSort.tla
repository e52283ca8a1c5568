------------------------------- MODULE JsonSort -----------------------------
(***************************************************************************)
(* JsonAlgorithms::sortByPath: the key path is split at its points, and    *)
(* the elements of an array are sorted with a comparator that follows the  *)
(* path into both elements and throws when it cannot compare what it finds *)
(* there - while std::sort may hold an element outside the array.          *)
(*                                                                         *)
(* std::sort is the insertion sort that the library's implementations use  *)
(* for arrays of up to 16 elements (32 in one of them).  Some compare an   *)
(* element with the first one while it is still in its place ("inPlace"),  *)
(* others take it out before any comparison ("takenOut").                  *)
(***************************************************************************)
EXTENDS JsonValues, Integers, FiniteSets, Sequences, SequencesExt

CONSTANTS
  Point,                  \* the character that separates keys
  Numbers, ExactValue(_), \* numbers, and the integer an ordered one is (for properties only)
  CompareNumbers(_, _),   \* compareNumbers: -1, 0, 1, or Incomparable for NaN
  Incomparable,           \* stands for the exception the comparator throws
  Targets, KeyPaths,      \* the values and paths sortByPath is called with
  Sorts                   \* which of "inPlace" and "takenOut" std::sort does

ASSUME SortAssumption ==
  /\ Incomparable \notin -1..1
  /\ Sorts \subseteq {"inPlace", "takenOut"}

VARIABLES
  target, keys, ascending, sort,
  next,   \* the element to be inserted among those before it
  hole,   \* the place whose element has been taken out
  held,   \* that element
  before, \* the target at the time of the call (read by properties only)
  pc

vars == <<target, keys, ascending, sort, next, hole, held, before, pc>>

\* Keys are sequences of characters, as the path is.
Split(path) ==
  FoldLeft(LAMBDA ks, c : IF c = Point THEN Append(ks, <<>>)
                                       ELSE [ks EXCEPT ![Len(ks)] = Append(@, c)],
           << <<>> >>, path)

Missing == [kind |-> "missing"]

\* getValueByPath, Missing where it throws.
ValueAt(path, json) ==
  FoldLeft(LAMBDA v, key : IF v.kind = "object" /\ key \in DOMAIN v.members
                           THEN v.members[key] ELSE Missing, json, path)

ValueByPath(json) == ValueAt(keys, json)

\* An array is one, whatever its elements are; a number that a path leads to is
\* one of Numbers, and a text is its rank among the texts.
ASSUME TargetsAssumption ==
  \A t \in Targets : t.kind = "array" =>
    /\ t = ArrayValue(t.elements) /\ t.elements \in Seq(ToSet(t.elements))
    /\ \A path \in KeyPaths, v \in ToSet(t.elements) :
         LET x == ValueAt(Split(path), v)
         IN  /\ x.kind = "number" => x.number \in Numbers
             /\ x.kind = "string" => x.text \in Int

Sign(i) == IF i < 0 THEN -1 ELSE IF i > 0 THEN 1 ELSE 0

\* What JsonNumberProofs shows of compareNumbers: NaN is incomparable, with
\* itself too, and all other numbers are ordered by what they exactly are.
Ordered(n) == CompareNumbers(n, n) # Incomparable
ASSUME NumbersAssumption ==
  \A a, b \in Numbers :
    IF Ordered(a) /\ Ordered(b)
    THEN ExactValue(a) \in Int /\ CompareNumbers(a, b) = Sign(ExactValue(a) - ExactValue(b))
    ELSE CompareNumbers(a, b) = Incomparable

\* Mutant: a number and a string compare, in the order of the variant.
CompareKinds(x, y) ==
  CASE x.kind = "number" /\ y.kind = "number" -> CompareNumbers(x.number, y.number)
    [] x.kind = "string" /\ y.kind = "string" -> Sign(x.text - y.text)
    [] x.kind = "number" /\ y.kind = "string" -> -1
    [] OTHER -> Incomparable

\* The order of two values, Incomparable where the comparator throws.
Order(x, y) ==
  CASE x.kind = "number" /\ y.kind = "number" -> CompareNumbers(x.number, y.number)
    [] x.kind = "string" /\ y.kind = "string" -> Sign(x.text - y.text)
    [] OTHER -> Incomparable

Compare(a, b) == Order(ValueByPath(a), ValueByPath(b))
Throws(a, b) == Compare(a, b) = Incomparable

\* Mutant: the order is not turned round.
AlwaysAscending(a, b) == Compare(a, b) < 0

ComesBefore(a, b) == IF ascending THEN Compare(a, b) < 0 ELSE Compare(a, b) > 0

\* What an element's place holds once the element has been moved out of it.
MovedFrom(v) ==
  CASE v.kind = "object" -> ObjectValue(EmptyObject)
    [] v.kind = "array" -> ArrayValue(<<>>)
    [] OTHER -> v

-----------------------------------------------------------------------------
Elements == target.elements
Put(i, v) == target' = ArrayValue([Elements EXCEPT ![i] = v])

Init ==
  /\ target \in Targets
  /\ \E path \in KeyPaths : keys = Split(path)
  /\ ascending \in BOOLEAN
  /\ sort \in Sorts
  /\ next = 2 /\ hole = 0 /\ held = NullValue
  /\ before = target
  /\ pc = "call"

Unchanged == UNCHANGED <<keys, ascending, sort, before>>

RefuseType ==
  /\ pc = "call"
  /\ target.kind # "array"
  /\ pc' = "threw"
  /\ UNCHANGED <<target, next, hole, held>> /\ Unchanged

\* Mutant: whether the value is an array is not asked.
BeginAnyhow ==
  /\ pc = "call"
  /\ pc' = "first"
  /\ UNCHANGED <<target, next, hole, held>> /\ Unchanged

Begin ==
  /\ pc = "call"
  /\ target.kind = "array"
  /\ pc' = "first"
  /\ UNCHANGED <<target, next, hole, held>> /\ Unchanged

SortEnds ==
  /\ pc = "first"
  /\ next > Len(Elements)
  /\ pc' = "done"
  /\ UNCHANGED <<target, next, hole, held>> /\ Unchanged

\* An element is compared with the first one.  If it comes before, it is moved
\* to the front, all those before it one place to the back.
Rotated(i) == <<Elements[i]>> \o RemoveAt(Elements, i)

ToFront ==
  /\ pc = "first" /\ next <= Len(Elements)
  /\ ~Throws(Elements[next], Elements[1])
  /\ ComesBefore(Elements[next], Elements[1])
  /\ target' = ArrayValue(Rotated(next))
  /\ next' = next + 1
  /\ UNCHANGED <<hole, held, pc>> /\ Unchanged

\* Otherwise it is taken out of its place, for the others to be moved up.
TakeOut ==
  /\ pc = "first" /\ next <= Len(Elements)
  /\ ~Throws(Elements[next], Elements[1])
  /\ ~ComesBefore(Elements[next], Elements[1])
  /\ held' = Elements[next]
  /\ hole' = next
  /\ Put(next, MovedFrom(Elements[next]))
  /\ pc' = "insert"
  /\ UNCHANGED next /\ Unchanged

\* The scan towards the front looks at no bound: the first element stops it.
Left == Elements[hole - 1]

\* The comparison the comparator is called for next.
Comparing == (pc = "first" /\ next <= Len(Elements)) \/ pc = "insert"
Compared == IF pc = "insert" THEN <<held, Left>> ELSE <<Elements[next], Elements[1]>>

\* The exception leaves sortByPath, and what is held is destroyed: in an
\* insertion always, before it where elements are taken out at once.
ThrowComparing ==
  /\ Comparing
  /\ Throws(Compared[1], Compared[2])
  /\ target' = IF pc = "first" /\ sort = "takenOut"
               THEN ArrayValue([Elements EXCEPT ![next] = MovedFrom(@)]) ELSE target
  /\ pc' = "threw"
  /\ UNCHANGED <<next, hole, held>> /\ Unchanged

MoveUp ==
  /\ pc = "insert"
  /\ ~Throws(held, Left) /\ ComesBefore(held, Left)
  /\ target' = ArrayValue([Elements EXCEPT ![hole] = Left, ![hole - 1] = MovedFrom(Left)])
  /\ hole' = hole - 1
  /\ UNCHANGED <<next, held, pc>> /\ Unchanged

\* Mutant: the same element is inserted again.
PutBackAgain ==
  /\ pc = "insert"
  /\ ~Throws(held, Left) /\ ~ComesBefore(held, Left)
  /\ Put(hole, held)
  /\ pc' = "first"
  /\ UNCHANGED <<next, hole, held>> /\ Unchanged

PutBack ==
  /\ pc = "insert"
  /\ ~Throws(held, Left) /\ ~ComesBefore(held, Left)
  /\ Put(hole, held)
  /\ next' = next + 1
  /\ pc' = "first"
  /\ UNCHANGED <<hole, held>> /\ Unchanged

Ended ==
  /\ pc \in {"done", "threw"}
  /\ UNCHANGED vars

Sort ==
  \/ RefuseType \/ Begin \/ SortEnds
  \/ ToFront \/ TakeOut \/ ThrowComparing
  \/ MoveUp \/ PutBack

Next == Sort \/ Ended

\* A call of sortByPath runs until it returns or throws.
Spec == Init /\ [][Next]_vars /\ WF_vars(Sort)
-----------------------------------------------------------------------------
\* The types of the variables; the scan stays within the array, behind the
\* first element, although it never looks where the array begins.
TypeOK ==
  /\ pc \in {"call", "first", "insert", "done", "threw"}
  /\ ascending \in BOOLEAN /\ sort \in Sorts
  /\ pc \in {"first", "insert", "done"} =>
       target.kind = "array" /\ Len(Elements) = Len(before.elements)
  /\ next >= 2
  /\ pc = "insert" => hole \in 2..next /\ next <= Len(Elements)

\* Nothing is lost when std::sort compares an element with the first one before
\* it takes it out: by the time it holds an element, all it can still compare
\* that element with has compared with the first, and so compares with it too.
\* (The comparator throws inside std::sort, JsonAlgorithms.cpp:78.)
NeverThrowsHolding == pc = "insert" => ~Throws(held, Left)

Occurrences(s, v) == Cardinality({i \in DOMAIN s : s[i] = v})
SameElements(s, t) ==
  \A v \in ToSet(s) \cup ToSet(t) : Occurrences(s, v) = Occurrences(t, v)

\* An exception leaves the elements, in whatever order, and where the library
\* takes them out first, all but the one it held, whose place has been emptied.
ThrowLosesAtMostOne ==
  pc = "threw" /\ target.kind = "array" =>
    \/ SameElements(Elements, before.elements)
    \/ /\ sort = "takenOut"
       /\ \E i \in DOMAIN before.elements :
            SameElements(Elements, [before.elements EXCEPT ![i] = MovedFrom(@)])

\* What can be sorted: an array whose elements all have the path, and there all
\* strings or all numbers but NaN.
Values == {ValueByPath(before.elements[i]) : i \in DOMAIN before.elements}
Sortable ==
  /\ before.kind = "array"
  /\ \/ \A v \in Values : v.kind = "string"
     \/ \A v \in Values : v.kind = "number" /\ Ordered(v.number)

\* Whether the call throws depends on the elements, not on their order: what
\* can be sorted is never refused, and of two elements or more none is so placed
\* that the comparator never meets it.  (Of one element: RefusesAsDocumented.)
ThrowsUnlessSortable ==
  /\ pc = "threw" => ~Sortable
  /\ pc = "done" /\ Len(before.elements) > 1 => Sortable

\* The documentation: sortByPath throws a TypeException "if the JSON value is
\* not an array of objects" and an AccessException "if the key path does not
\* exist in the objects" (JsonAlgorithms.hpp:28-29), so when it returns, all
\* elements are objects that have the path.
RefusesAsDocumented ==
  pc = "done" =>
    \A i \in DOMAIN before.elements :
      before.elements[i].kind = "object" /\ ValueByPath(before.elements[i]) # Missing

\* Two values in the order sortByPath promises, by their exact magnitudes.
Ascends(x, y) ==
  IF x.kind = "number" THEN ExactValue(x.number) <= ExactValue(y.number) ELSE x.text <= y.text

\* sortByPath returns with the same elements in the order asked for, integers
\* of either storage and doubles ordered by their exact values.
SortsByPath ==
  pc = "done" =>
    /\ SameElements(Elements, before.elements)
    /\ \A i \in 1..(Len(Elements) - 1) :
         LET x == ValueByPath(Elements[i])
             y == ValueByPath(Elements[i + 1])
         IN  IF ascending THEN Ascends(x, y) ELSE Ascends(y, x)

\* Every call ends.
Ends == <>(pc \in {"done", "threw"})
=============================================================================
