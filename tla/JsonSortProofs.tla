--------------------------- MODULE JsonSortProofs ---------------------------
(***************************************************************************)
(* What MCSort checks for arrays of four elements, for arrays of any       *)
(* length that std::sort sorts by insertion, and for any values and paths. *)
(***************************************************************************)
EXTENDS JsonSort, FiniteSetTheorems, FunctionTheorems, SequenceTheorems, TLAPS

\* What the array and the element held may consist of.
Reach(b) == ToSet(b.elements) \cup {MovedFrom(v) : v \in ToSet(b.elements)}

\* ComesBefore and Throws of two elements, by the paths that are followed.
OrderAt(path, a, b) == Order(ValueAt(path, a), ValueAt(path, b))
Precedes(path, up, a, b) == IF up THEN OrderAt(path, a, b) < 0 ELSE OrderAt(path, a, b) > 0

\* The shape of a call; the element held does not come before the first one,
\* which is what ends the scan.
Shape ==
  /\ pc \in {"call", "first", "insert", "done", "threw"}
  /\ ascending \in BOOLEAN /\ sort \in Sorts
  /\ before \in Targets /\ \E path \in KeyPaths : keys = Split(path)
  /\ next \in Nat /\ next >= 2
  /\ pc = "call" => target = before /\ next = 2
  /\ pc \in {"first", "insert", "done"} =>
       /\ before.kind = "array" /\ target = ArrayValue(Elements)
       /\ Elements \in Seq(Reach(before))
       /\ Len(Elements) = Len(before.elements)
  /\ pc = "insert" =>
       /\ hole \in 2..next /\ next <= Len(Elements)
       /\ held \in Reach(before)
       /\ ~Precedes(keys, ascending, held, Elements[1])

-----------------------------------------------------------------------------
LEMMA ReachIsClosed ==
  ASSUME NEW b, NEW v \in Reach(b)
  PROVE  MovedFrom(v) \in Reach(b)
<1>1. MovedFrom(MovedFrom(v)) = MovedFrom(v) /\ \A w : MovedFrom(MovedFrom(w)) = MovedFrom(w)
  BY DEF MovedFrom, ObjectValue, ArrayValue
<1> QED
  BY <1>1 DEF Reach

\* An element that is moved up, and what its place is left with.
LEMMA MoveOneUp ==
  ASSUME NEW S, NEW s \in Seq(S), NEW h \in 2..Len(s), NEW v \in S, NEW w \in S
  PROVE  LET t == [s EXCEPT ![h] = v, ![h - 1] = w]
         IN  /\ t \in Seq(S) /\ Len(t) = Len(s)
             /\ \A k \in 1..Len(s) : t[k] = IF k = h THEN v ELSE IF k = h - 1 THEN w ELSE s[k]
<1> DEFINE u == [s EXCEPT ![h] = v]
           t == [u EXCEPT ![h - 1] = w]
<1>0. Len(s) \in Nat /\ h \in 1..Len(s) /\ h - 1 \in 1..Len(s) /\ h # h - 1
  BY LenProperties
<1>1. u \in Seq(S) /\ Len(u) = Len(s) /\ \A k \in 1..Len(s) : u[k] = IF k = h THEN v ELSE s[k]
  BY <1>0, ExceptSeq
<1>2. [s EXCEPT ![h] = v, ![h - 1] = w] = t
  BY <1>0
<1> HIDE DEF u
<1>3. t \in Seq(S) /\ Len(t) = Len(u) /\ \A k \in 1..Len(u) : t[k] = IF k = h - 1 THEN w ELSE u[k]
  BY <1>0, <1>1, ExceptSeq
<1> HIDE DEF t
<1> QED
  BY <1>0, <1>1, <1>2, <1>3

\* An element that is moved to the front.
InFront(s, i) == <<s[i]>> \o RemoveAt(s, i)

LEMMA RotateToFront ==
  ASSUME NEW S, NEW s \in Seq(S), NEW i \in 2..Len(s)
  PROVE  /\ InFront(s, i) \in Seq(S) /\ Len(InFront(s, i)) = Len(s)
         /\ InFront(s, i)[1] = s[i]
         /\ \A k \in 2..i : InFront(s, i)[k] = s[k - 1]
         /\ \A k \in (i + 1)..Len(s) : InFront(s, i)[k] = s[k]
<1> DEFINE r == InFront(s, i)
<1> DEFINE front == SubSeq(s, 1, i - 1)
           rest == SubSeq(s, i + 1, Len(s))
<1>0. Len(s) \in Nat /\ i \in Nat /\ \A k \in 1..Len(s) : s[k] \in S
  BY LenProperties, ElementOfSeq
<1>1. front \in Seq(S) /\ Len(front) = i - 1 /\ \A k \in 1..(i - 1) : front[k] = s[k]
  BY <1>0, SubSeqProperties
<1>2. rest \in Seq(S) /\ Len(rest) = Len(s) - i /\ \A k \in 1..(Len(s) - i) : rest[k] = s[k + i]
  BY <1>0, SubSeqProperties
<1> DEFINE both == front \o rest
<1> HIDE DEF front, rest
<1>3. both \in Seq(S) /\ Len(both) = Len(s) - 1
      /\ \A k \in 1..(Len(s) - 1) : both[k] = IF k <= i - 1 THEN front[k] ELSE rest[k - (i - 1)]
  <2>1. /\ both \in Seq(S) /\ Len(both) = Len(front) + Len(rest)
        /\ \A k \in 1..(Len(front) + Len(rest)) :
             both[k] = IF k <= Len(front) THEN front[k] ELSE rest[k - Len(front)]
    BY <1>1, <1>2, ConcatProperties
  <2> HIDE DEF both
  <2> QED
    BY <1>0, <1>1, <1>2, <2>1
<1>4. r = <<s[i]>> \o both
  BY DEF InFront, RemoveAt, front, rest
<1> HIDE DEF both, r
<1>5. <<s[i]>> \in Seq(S) /\ Len(<<s[i]>>) = 1 /\ <<s[i]>>[1] = s[i]
  BY <1>0
<1>6. r \in Seq(S) /\ Len(r) = Len(s) /\ r[1] = s[i] /\ \A k \in 2..Len(s) : r[k] = both[k - 1]
  <2> DEFINE one == <<s[i]>>
  <2>1. one \in Seq(S) /\ Len(one) = 1 /\ one[1] = s[i]
    BY <1>5
  <2> HIDE DEF one
  <2>2. /\ one \o both \in Seq(S) /\ Len(one \o both) = Len(one) + Len(both)
        /\ \A k \in 1..(Len(one) + Len(both)) :
             (one \o both)[k] = IF k <= Len(one) THEN one[k] ELSE both[k - Len(one)]
    BY <1>3, <2>1, ConcatProperties
  <2>3. r = one \o both
    BY <1>4 DEF one
  <2> HIDE DEF r
  <2>4. r \in Seq(S) /\ Len(r) = Len(s)
    BY <1>0, <1>3, <2>1, <2>2, <2>3
  <2>5. r[1] = s[i]
    BY <1>0, <1>3, <2>1, <2>2, <2>3
  <2>6. ASSUME NEW k \in 2..Len(s) PROVE r[k] = both[k - 1]
    BY <1>0, <1>3, <2>1, <2>2, <2>3
  <2> QED
    BY <2>4, <2>5, <2>6
<1>7. ASSUME NEW k \in 2..i PROVE r[k] = s[k - 1]
  BY <1>0, <1>1, <1>3, <1>6, <1>7
<1>8. ASSUME NEW k \in (i + 1)..Len(s) PROVE r[k] = s[k]
  <2>1. r[k] = both[k - 1] /\ both[k - 1] = rest[k - i]
    BY <1>0, <1>3, <1>6
  <2>2. k - i \in 1..(Len(s) - i) /\ (k - i) + i = k
    BY <1>0
  <2> QED
    BY <1>2, <2>1, <2>2
<1> QED
  BY <1>6, <1>7, <1>8 DEF r

-----------------------------------------------------------------------------
LEMMA InitShape == Init => Shape
  BY DEF Init, Shape

LEMMA ComesBeforeAt ==
  \A a, b : ComesBefore(a, b) <=> Precedes(keys, ascending, a, b)
  BY DEF ComesBefore, Compare, ValueByPath, Precedes, OrderAt

\* What each step of the sort does to the array.
Reshaped ==
  /\ target' = ArrayValue(Elements')
  /\ Elements' \in Seq(Reach(before)) /\ Len(Elements') = Len(Elements)

LEMMA ToFrontDoes ==
  ASSUME Shape, ToFront
  PROVE  /\ Reshaped
         /\ next \in 2..Len(Elements)
         /\ Elements'[1] = Elements[next]
         /\ \A k \in 2..next : Elements'[k] = Elements[k - 1]
         /\ \A k \in (next + 1)..Len(Elements) : Elements'[k] = Elements[k]
<1>1. Elements' = InFront(Elements, next) /\ target' = ArrayValue(Elements')
  BY DEF ToFront, Elements, ArrayValue, Rotated, InFront
<1>2. Elements \in Seq(Reach(before)) /\ next \in 2..Len(Elements)
  BY LenProperties DEF Shape, ToFront
<1> QED
  BY <1>1, <1>2, RotateToFront DEF Reshaped

LEMMA TakeOutDoes ==
  ASSUME Shape, TakeOut
  PROVE  /\ Reshaped
         /\ next \in 2..Len(Elements) /\ Elements[next] \in Reach(before)
         /\ \A k \in 1..Len(Elements) : k # next => Elements'[k] = Elements[k]
         /\ ~Precedes(keys, ascending, Elements[next], Elements[1])
<1> USE DEF Shape
<1>1. next \in 1..Len(Elements) /\ next # 1 /\ Elements[next] \in Reach(before)
  BY LenProperties, ElementOfSeq DEF TakeOut
<1>2. Elements' = [Elements EXCEPT ![next] = MovedFrom(Elements[next])] /\ target' = ArrayValue(Elements')
  BY DEF TakeOut, Put, Elements, ArrayValue
<1>3. /\ Elements' \in Seq(Reach(before)) /\ Len(Elements') = Len(Elements)
      /\ \A k \in 1..Len(Elements) : k # next => Elements'[k] = Elements[k]
  BY <1>1, <1>2, ReachIsClosed, ExceptSeq DEF TakeOut
<1> QED
  BY <1>1, <1>2, <1>3, ComesBeforeAt DEF TakeOut, Reshaped

\* The first element stays in its place: the one held does not come before it.
LEMMA MoveUpDoes ==
  ASSUME Shape, MoveUp
  PROVE  /\ Reshaped
         /\ hole \in 3..next
         /\ Elements'[hole] = Elements[hole - 1]
         /\ \A k \in 1..Len(Elements) : k \notin {hole - 1, hole} => Elements'[k] = Elements[k]
<1> USE DEF Shape
<1>1. hole \in 2..Len(Elements) /\ Len(Elements) \in Nat /\ hole - 1 \in 1..Len(Elements)
  BY LenProperties DEF MoveUp
<1>2. hole # 2
  BY ComesBeforeAt DEF MoveUp, Left
<1>3. Left \in Reach(before) /\ MovedFrom(Left) \in Reach(before)
  BY <1>1, ElementOfSeq, ReachIsClosed DEF MoveUp, Left
<1>4. /\ Elements' = [Elements EXCEPT ![hole] = Left, ![hole - 1] = MovedFrom(Left)]
      /\ target' = ArrayValue(Elements')
  BY DEF MoveUp, Elements, ArrayValue
<1>5. /\ Elements' \in Seq(Reach(before)) /\ Len(Elements') = Len(Elements)
      /\ \A k \in 1..Len(Elements) :
           Elements'[k] = IF k = hole THEN Left ELSE IF k = hole - 1 THEN MovedFrom(Left) ELSE Elements[k]
  BY <1>1, <1>3, <1>4, MoveOneUp DEF MoveUp
<1>6. Elements'[hole] = Elements[hole - 1]
  BY <1>1, <1>5 DEF Left
<1> QED
  BY <1>1, <1>2, <1>4, <1>5, <1>6 DEF MoveUp, Reshaped

LEMMA PutBackDoes ==
  ASSUME Shape, PutBack
  PROVE  /\ Reshaped
         /\ hole \in 2..next /\ next \in 2..Len(Elements)
         /\ Elements'[hole] = held
         /\ \A k \in 1..Len(Elements) : k # hole => Elements'[k] = Elements[k]
<1> USE DEF Shape
<1>1. Len(Elements) \in Nat /\ hole \in 1..Len(Elements)
  BY LenProperties DEF PutBack
<1>2. Elements' = [Elements EXCEPT ![hole] = held] /\ target' = ArrayValue(Elements')
  BY DEF PutBack, Put, Elements, ArrayValue
<1>3. /\ Elements' \in Seq(Reach(before)) /\ Len(Elements') = Len(Elements)
      /\ \A k \in 1..Len(Elements) : Elements'[k] = IF k = hole THEN held ELSE Elements[k]
  BY <1>1, <1>2, ExceptSeq DEF PutBack
<1> QED
  BY <1>1, <1>2, <1>3 DEF PutBack, Reshaped

LEMMA BeginFinds ==
  ASSUME Shape, Begin
  PROVE  Reshaped /\ Elements' = Elements /\ Elements = before.elements
<1>1. target = before /\ target = ArrayValue(Elements) /\ Elements \in Seq(ToSet(before.elements))
  BY TargetsAssumption DEF Shape, Begin, Elements
<1>2. Elements \in Seq(Reach(before))
  BY <1>1, SeqMonotonic DEF Reach
<1> QED
  BY <1>1, <1>2 DEF Begin, Elements, Reshaped

LEMMA NextShape == Shape /\ [Next]_vars => Shape'
<1> SUFFICES ASSUME Shape, [Next]_vars PROVE Shape'
  OBVIOUS
<1> USE DEF Shape, Unchanged, Reshaped
<1>1. CASE RefuseType
  BY <1>1 DEF RefuseType
<1>2. CASE Begin
  BY <1>2, BeginFinds DEF Begin
<1>3. CASE SortEnds
  BY <1>3 DEF SortEnds, Elements
<1>4. CASE ToFront
  BY <1>4, ToFrontDoes DEF ToFront
<1>5. CASE TakeOut
  <2>1. Elements'[1] = Elements[1]
    BY <1>5, TakeOutDoes
  <2> QED
    BY <1>5, <2>1, TakeOutDoes DEF TakeOut
<1>6. CASE ThrowComparing
  BY <1>6 DEF ThrowComparing
<1>7. CASE MoveUp
  <2>1. Len(Elements) \in Nat
    BY <1>7, LenProperties DEF MoveUp
  <2>2. Elements'[1] = Elements[1]
    BY <1>7, <2>1, MoveUpDoes DEF MoveUp
  <2> QED
    BY <1>7, <2>2, MoveUpDoes DEF MoveUp
<1>8. CASE PutBack
  BY <1>8, PutBackDoes DEF PutBack
<1>9. CASE UNCHANGED vars
  BY <1>9 DEF vars, Elements
<1> QED
  BY <1>1, <1>2, <1>3, <1>4, <1>5, <1>6, <1>7, <1>8, <1>9 DEF Next, Sort, Ended

LEMMA ShapeInvariance == Spec => []Shape
  BY InitShape, NextShape, PTL DEF Spec

\* Whatever the arrays, paths and orders are, even ones that are no order at
\* all: the scan that looks at no bound stays behind the first element, so no
\* step of the sort reads or writes outside the array (JsonAlgorithms.cpp:76).
THEOREM ScanStaysInside == Spec => []TypeOK
<1>1. Shape => TypeOK
  BY DEF Shape, TypeOK, ArrayValue
<1> QED
  BY <1>1, ShapeInvariance, PTL
-----------------------------------------------------------------------------
\* The permutations of 1..n.
Perm(n) == Bijection(1..n, 1..n)

LEMMA PermIs ==
  ASSUME NEW n \in Nat
  PROVE  \A g : g \in Perm(n) <=> /\ g \in [1..n -> 1..n]
                                  /\ \A i, j \in 1..n : g[i] = g[j] => i = j
                                  /\ \A j \in 1..n : \E i \in 1..n : g[i] = j
BY DEF Perm, Bijection, Injection, Surjection, IsInjective

\* One permutation after another is one.
LEMMA PermOfPerm ==
  ASSUME NEW n \in Nat, NEW g \in Perm(n), NEW h \in Perm(n)
  PROVE  [k \in 1..n |-> g[h[k]]] \in Perm(n)
BY Fun_BijTransitive DEF Perm

\* The first i places turned round by one, and two places exchanged.
LEMMA PermRotate ==
  ASSUME NEW n \in Nat, NEW i \in 1..n
  PROVE  [k \in 1..n |-> IF k = 1 THEN i ELSE IF k <= i THEN k - 1 ELSE k] \in Perm(n)
<1> DEFINE h == [k \in 1..n |-> IF k = 1 THEN i ELSE IF k <= i THEN k - 1 ELSE k]
<1>1. h \in [1..n -> 1..n]
  OBVIOUS
<1>2. \A k, l \in 1..n : h[k] = h[l] => k = l
  OBVIOUS
<1>3. ASSUME NEW j \in 1..n PROVE \E k \in 1..n : h[k] = j
  <2>1. CASE j < i
    <3>1. j + 1 \in 1..n /\ h[j + 1] = j
      BY <2>1
    <3> QED
      BY <3>1
  <2>2. CASE j = i
    <3>1. 1 \in 1..n /\ h[1] = j
      BY <2>2
    <3> QED
      BY <3>1
  <2>3. CASE j > i
    <3>1. h[j] = j
      BY <2>3
    <3> QED
      BY <3>1
  <2> QED
    BY <2>1, <2>2, <2>3
<1> HIDE DEF h
<1>4. h \in Perm(n)
  BY <1>1, <1>2, <1>3, PermIs
<1> QED
  BY <1>4 DEF h

LEMMA PermExchange ==
  ASSUME NEW n \in Nat, NEW i \in 1..n, NEW j \in 1..n
  PROVE  [k \in 1..n |-> IF k = i THEN j ELSE IF k = j THEN i ELSE k] \in Perm(n)
<1> DEFINE h == [k \in 1..n |-> IF k = i THEN j ELSE IF k = j THEN i ELSE k]
<1>1. h \in [1..n -> 1..n] /\ \A k \in 1..n : h[k] \in 1..n /\ h[h[k]] = k
  OBVIOUS
<1> HIDE DEF h
<1>2. h \in Perm(n)
  BY <1>1, PermIs
<1> QED
  BY <1>2 DEF h

\* What is rearranged consists of the same elements, as often as before.
LEMMA PermKeepsElements ==
  ASSUME NEW n \in Nat, NEW s, NEW t, DOMAIN s = 1..n, DOMAIN t = 1..n, NEW g \in Perm(n),
         \A k \in 1..n : t[k] = s[g[k]]
  PROVE  SameElements(t, s)
<1> SUFFICES ASSUME NEW v PROVE Occurrences(t, v) = Occurrences(s, v)
  BY DEF SameElements
<1> DEFINE S == {i \in 1..n : s[i] = v}
           T == {i \in 1..n : t[i] = v}
           f == [i \in T |-> g[i]]
<1>1. /\ g \in [1..n -> 1..n] /\ \A i, j \in 1..n : g[i] = g[j] => i = j
      /\ \A j \in 1..n : \E i \in 1..n : g[i] = j
  BY PermIs
<1>2. f \in [T -> S]
  BY <1>1
<1>3. \A i, j \in T : f[i] = f[j] => i = j
  BY <1>1
<1>4. \A j \in S : \E i \in T : f[i] = j
  <2> SUFFICES ASSUME NEW j \in S PROVE \E i \in T : f[i] = j
    OBVIOUS
  <2>1. PICK i \in 1..n : g[i] = j
    BY <1>1
  <2>2. i \in T /\ f[i] = j
    BY <2>1
  <2> QED
    BY <2>2
<1>5. IsFiniteSet(T)
  <2>1. IsFiniteSet(1..n)
    BY FS_Interval
  <2> QED
    BY <2>1, FS_Subset
<1> HIDE DEF f, S, T
<1>6. ExistsBijection(T, S)
  <2>1. f \in Bijection(T, S)
    BY <1>2, <1>3, <1>4, Fun_IsBij
  <2> QED
    BY <2>1 DEF ExistsBijection
<1>7. Cardinality(S) = Cardinality(T)
  BY <1>5, <1>6, FS_Bijection
<1> QED
  BY <1>7 DEF Occurrences, S, T

-----------------------------------------------------------------------------
\* The array with the element held put into the hole, and the order its
\* elements were in at the call.
Filled(k) == IF pc = "insert" /\ k = hole THEN held ELSE Elements[k]
Permuted ==
  pc \in {"first", "insert", "done"} =>
    \E g \in Perm(Len(Elements)) :
      \A k \in 1..Len(Elements) : Filled(k) = before.elements[g[k]]

\* A step that rearranges the filled array keeps it permuted.
LEMMA RearrangeKeeps ==
  ASSUME Shape, Permuted, pc \in {"first", "insert"}, UNCHANGED before,
         Len(Elements') = Len(Elements), NEW h \in Perm(Len(Elements)),
         \A k \in 1..Len(Elements) : Filled(k)' = Filled(h[k])
  PROVE  Permuted'
<1> DEFINE n == Len(Elements)
<1>0. n \in Nat
  BY LenProperties DEF Shape
<1>1. PICK g \in Perm(n) : \A k \in 1..n : Filled(k) = before.elements[g[k]]
  BY DEF Permuted
<1> DEFINE f == [k \in 1..n |-> g[h[k]]]
<1>2. f \in Perm(n) /\ \A k \in 1..n : h[k] \in 1..n
  <2> HIDE DEF n
  <2>1. h \in Perm(n)
    BY DEF n
  <2>2. h \in [1..n -> 1..n]
    BY <1>0, <2>1, PermIs
  <2>3. f \in Perm(n)
    BY <1>0, <1>1, <2>1, PermOfPerm
  <2> QED
    BY <2>2, <2>3
<1>3. \A k \in 1..n : Filled(k)' = before'.elements[f[k]]
  BY <1>1, <1>2
<1> HIDE DEF f, n
<1>4. \E x \in Perm(n) : \A k \in 1..n : Filled(k)' = before'.elements[x[k]]
  BY <1>2, <1>3
<1>5. Len(Elements') = n
  BY DEF n
<1> QED
  BY <1>4, <1>5 DEF Permuted

LEMMA PermIdentity ==
  ASSUME NEW n \in Nat
  PROVE  [k \in 1..n |-> k] \in Perm(n)
<1> DEFINE h == [k \in 1..n |-> k]
<1>1. h \in [1..n -> 1..n] /\ \A k \in 1..n : h[k] = k
  OBVIOUS
<1> HIDE DEF h
<1>2. h \in Perm(n)
  BY <1>1, PermIs
<1> QED
  BY <1>2 DEF h

LEMMA SortEndsDoes ==
  ASSUME Shape, SortEnds
  PROVE  UNCHANGED <<before, target>> /\ Elements' = Elements /\ pc = "first" /\ pc' = "done"
BY DEF SortEnds, Elements, Unchanged

LEMMA NextPermuted == Shape /\ Permuted /\ [Next]_vars => Permuted'
<1> SUFFICES ASSUME Shape, Permuted, [Next]_vars PROVE Permuted'
  OBVIOUS
<1> DEFINE n == Len(Elements)
           same == [k \in 1..n |-> k]
<1>0. pc \in {"first", "insert"} => n \in Nat /\ same \in Perm(n)
  BY LenProperties, PermIdentity DEF Shape
<1>1. CASE RefuseType \/ ThrowComparing
  BY <1>1 DEF RefuseType, ThrowComparing, Permuted
<1>2. CASE Begin
  <2>1. Elements' = Elements /\ Elements = before.elements /\ UNCHANGED before /\ pc' = "first"
    BY <1>2, BeginFinds DEF Begin, Unchanged
  <2>2. Len(Elements) \in Nat
    BY <1>2, BeginFinds, LenProperties DEF Reshaped
  <2>3. same \in Perm(n) /\ \A k \in 1..n : same[k] = k
    BY <2>2, PermIdentity
  <2>4. \A k \in 1..n : Filled(k)' = before'.elements[same[k]]
    BY <2>1, <2>3 DEF Filled
  <2> HIDE DEF same
  <2>5. \E x \in Perm(n) : \A k \in 1..n : Filled(k)' = before'.elements[x[k]]
    BY <2>3, <2>4
  <2> QED
    BY <2>1, <2>5 DEF Permuted
<1>3. CASE SortEnds
  <2>1. \A k \in 1..n : Filled(k)' = Filled(same[k])
    BY <1>3, SortEndsDoes DEF Filled
  <2> HIDE DEF same
  <2> QED
    BY <1>0, <1>3, <2>1, SortEndsDoes, RearrangeKeeps
<1>4. CASE ToFront
  <2> DEFINE h == [k \in 1..n |-> IF k = 1 THEN next ELSE IF k <= next THEN k - 1 ELSE k]
  <2>1. /\ UNCHANGED before /\ pc = "first" /\ pc' = "first" /\ next \in 2..n /\ n \in Nat
        /\ Len(Elements') = n
    BY <1>4, ToFrontDoes, LenProperties DEF ToFront, Unchanged, Shape, Reshaped
  <2>2. h \in Perm(n)
    BY <2>1, PermRotate
  <2>3. ASSUME NEW k \in 1..n PROVE Elements'[k] = Elements[h[k]]
    <3>1. CASE k = 1
      BY <1>4, <2>1, <3>1, ToFrontDoes
    <3>2. CASE k \in 2..next
      BY <1>4, <2>1, <3>2, ToFrontDoes
    <3>3. CASE k \in (next + 1)..n
      BY <1>4, <2>1, <3>3, ToFrontDoes
    <3> QED
      BY <2>1, <3>1, <3>2, <3>3
  <2> HIDE DEF h
  <2>4. \A k \in 1..n : Filled(k)' = Filled(h[k])
    BY <2>1, <2>3 DEF Filled
  <2> QED
    BY <2>1, <2>2, <2>4, RearrangeKeeps
<1>5. CASE TakeOut
  <2>1. /\ UNCHANGED before /\ pc = "first" /\ pc' = "insert" /\ hole' = next /\ held' = Elements[next]
        /\ Len(Elements') = n /\ \A k \in 1..n : k # next => Elements'[k] = Elements[k]
    BY <1>5, TakeOutDoes DEF TakeOut, Unchanged, Reshaped
  <2>2. \A k \in 1..n : Filled(k)' = Filled(same[k])
    BY <2>1 DEF Filled
  <2> HIDE DEF same
  <2> QED
    BY <1>0, <2>1, <2>2, RearrangeKeeps
<1>6. CASE MoveUp
  <2> DEFINE h == [k \in 1..n |-> IF k = hole THEN hole - 1 ELSE IF k = hole - 1 THEN hole ELSE k]
  <2>1. /\ UNCHANGED <<before, held>> /\ pc = "insert" /\ pc' = "insert" /\ hole \in 3..next
        /\ next <= n /\ n \in Nat /\ hole' = hole - 1 /\ Len(Elements') = n
        /\ Elements'[hole] = Elements[hole - 1]
        /\ \A k \in 1..n : k \notin {hole - 1, hole} => Elements'[k] = Elements[k]
    BY <1>6, MoveUpDoes, LenProperties DEF MoveUp, Unchanged, Shape, Reshaped
  <2>2. hole \in 1..n /\ hole - 1 \in 1..n /\ next \in Nat
    BY <2>1 DEF Shape
  <2>3. h \in Perm(n)
    BY <2>1, <2>2, PermExchange
  <2>4. \A k \in 1..n : Filled(k)' = Filled(h[k])
    BY <2>1, <2>2 DEF Filled
  <2> HIDE DEF h
  <2> QED
    BY <2>1, <2>3, <2>4, RearrangeKeeps
<1>7. CASE PutBack
  <2>1. /\ UNCHANGED before /\ pc = "insert" /\ pc' = "first" /\ Len(Elements') = n
        /\ Elements'[hole] = held /\ \A k \in 1..n : k # hole => Elements'[k] = Elements[k]
    BY <1>7, PutBackDoes DEF PutBack, Unchanged, Reshaped
  <2>2. \A k \in 1..n : Filled(k)' = Filled(same[k])
    BY <2>1 DEF Filled
  <2> HIDE DEF same
  <2> QED
    BY <1>0, <2>1, <2>2, RearrangeKeeps
<1>8. CASE UNCHANGED vars
  BY <1>8 DEF vars, Permuted, Filled, Elements
<1> QED
  BY <1>1, <1>2, <1>3, <1>4, <1>5, <1>6, <1>7, <1>8 DEF Next, Sort, Ended

\* While the array is sorted it has the elements of the call.
LEMMA FilledHasAll ==
  ASSUME Shape, Permuted, pc \in {"first", "done"}
  PROVE  SameElements(Elements, before.elements)
<1> DEFINE n == Len(Elements)
<1>1. n \in Nat /\ DOMAIN Elements = 1..n /\ DOMAIN before.elements = 1..n
  <2>1. before.elements \in Seq(ToSet(before.elements)) /\ Len(before.elements) = n
    BY TargetsAssumption DEF Shape
  <2> QED
    BY <2>1, LenProperties DEF Shape
<1>2. PICK g \in Perm(n) : \A k \in 1..n : Elements[k] = before.elements[g[k]]
  BY DEF Permuted, Filled
<1> HIDE DEF n
<1> QED
  BY <1>1, <1>2, PermKeepsElements

\* The exception leaves the array as it is, or without the element held.
LEMMA ThrowComparingLoses ==
  ASSUME Shape, Permuted, ThrowComparing, pc = "first"
  PROVE  \/ SameElements(Elements', before.elements)
         \/ /\ sort = "takenOut"
            /\ \E i \in DOMAIN before.elements :
                 SameElements(Elements', [before.elements EXCEPT ![i] = MovedFrom(@)])
<1> DEFINE n == Len(Elements)
           b == before.elements
<1>0. /\ pc = "first" /\ next \in 1..n /\ n \in Nat /\ DOMAIN Elements = 1..n /\ DOMAIN b = 1..n
  <2>1. b \in Seq(ToSet(b)) /\ Len(b) = n
    BY TargetsAssumption DEF Shape, ThrowComparing
  <2> QED
    BY <2>1, LenProperties DEF Shape, ThrowComparing, Comparing
<1>1. CASE sort = "inPlace"
  BY <1>0, <1>1, FilledHasAll DEF ThrowComparing, Elements
<1>2. CASE sort # "inPlace"
  <2>0. sort = "takenOut"
    BY <1>2, SortAssumption DEF Shape
  <2>1. Elements' = [Elements EXCEPT ![next] = MovedFrom(@)]
    BY <1>0, <2>0 DEF ThrowComparing, Elements, ArrayValue
  <2>2. PICK g \in Perm(n) : \A k \in 1..n : Elements[k] = b[g[k]]
    BY <1>0 DEF Permuted, Filled
  <2>3. g \in [1..n -> 1..n] /\ \A i, j \in 1..n : g[i] = g[j] => i = j
    BY <1>0, PermIs
  <2> DEFINE i == g[next]
             c == [b EXCEPT ![i] = MovedFrom(@)]
  <2>4. i \in 1..n /\ DOMAIN c = 1..n /\ DOMAIN Elements' = 1..n
    BY <1>0, <2>1, <2>3
  <2>5. \A k \in 1..n : Elements'[k] = c[g[k]]
    BY <1>0, <2>1, <2>2, <2>3
  <2> HIDE DEF c, n, b
  <2>6. SameElements(Elements', c)
    BY <1>0, <2>4, <2>5, PermKeepsElements
  <2> QED
    BY <1>0, <2>4, <2>6, <2>0 DEF c, b
<1> QED
  BY <1>1, <1>2

-----------------------------------------------------------------------------
\* What is known of the values a path of the call leads to.
Typed(path, v) ==
  LET x == ValueAt(path, v)
  IN  /\ x.kind = "number" => x.number \in Numbers
      /\ x.kind = "string" => x.text \in Int

LEMMA ElementsTyped ==
  ASSUME Shape, Permuted, pc \in {"first", "insert"}
  PROVE  \A k \in 1..Len(Elements) : Typed(keys, Filled(k))
<1> DEFINE n == Len(Elements)
<1>1. n \in Nat /\ before.elements \in Seq(ToSet(before.elements)) /\ Len(before.elements) = n
  BY TargetsAssumption, LenProperties DEF Shape
<1>2. \A k \in 1..n : before.elements[k] \in ToSet(before.elements)
  BY <1>1, ElementOfSeq
<1>3. \A v \in ToSet(before.elements) : Typed(keys, v)
  <2>1. PICK path \in KeyPaths : keys = Split(path)
    BY DEF Shape
  <2>2. before \in Targets /\ before.kind = "array"
    BY DEF Shape
  <2> QED
    BY <2>1, <2>2, TargetsAssumption DEF Typed
<1>4. PICK g \in Perm(n) : \A k \in 1..n : Filled(k) = before.elements[g[k]]
  BY DEF Permuted
<1>5. g \in [1..n -> 1..n]
  BY <1>1, PermIs
<1> QED
  BY <1>2, <1>3, <1>4, <1>5

\* What an element compares with: two elements do if they are of one class.
Class(path, v) ==
  LET x == ValueAt(path, v)
  IN  IF x.kind = "string" THEN "strings"
      ELSE IF x.kind = "number" /\ CompareNumbers(x.number, x.number) # Incomparable THEN "numbers"
      ELSE "none"

LEMMA ThrowsByClass ==
  ASSUME NEW a, NEW b, Typed(keys, a), Typed(keys, b)
  PROVE  Throws(a, b) <=> Class(keys, a) # Class(keys, b) \/ Class(keys, a) = "none"
<1> DEFINE x == ValueAt(keys, a)
           y == ValueAt(keys, b)
<1>1. Throws(a, b) <=> Order(x, y) = Incomparable
  BY DEF Throws, Compare, ValueByPath
<1>2. \A i : Sign(i) # Incomparable
  BY SortAssumption DEF Sign
<1>3. x.kind = "number" /\ y.kind = "number" =>
        (CompareNumbers(x.number, y.number) = Incomparable
         <=> CompareNumbers(x.number, x.number) = Incomparable \/ CompareNumbers(y.number, y.number) = Incomparable)
  <2>1. x.kind = "number" /\ y.kind = "number" => x.number \in Numbers /\ y.number \in Numbers
    BY DEF Typed
  <2> HIDE DEF x, y
  <2> QED
    BY <1>2, <2>1, NumbersAssumption DEF Ordered
<1> HIDE DEF x, y
<1>4. Order(x, y) = Incomparable <=>
        ~(x.kind = "string" /\ y.kind = "string")
        /\ ~(/\ x.kind = "number" /\ y.kind = "number"
             /\ CompareNumbers(x.number, x.number) # Incomparable
             /\ CompareNumbers(y.number, y.number) # Incomparable)
  BY <1>2, <1>3 DEF Order
<1> QED
  BY <1>1, <1>4 DEF Class, x, y

\* Among the elements looked at so far there is one class, both in the array as
\* it is and as it was; the others have not moved.
LooksAt(n, v) ==
  /\ Class(keys, v) # "none"
  /\ \A k \in 1..n : Class(keys, before.elements[k]) = Class(keys, v)

OneClass ==
  /\ pc = "first" =>
       /\ \A k \in next..Len(Elements) : Elements[k] = before.elements[k]
       /\ next = 2 => Elements = before.elements
       /\ next > 2 => /\ LooksAt(next - 1, Elements[1])
                      /\ \A k \in 1..(next - 1) : Class(keys, Elements[k]) = Class(keys, Elements[1])
  /\ pc = "insert" =>
       /\ \A k \in (next + 1)..Len(Elements) : Elements[k] = before.elements[k]
       /\ LooksAt(next, held)
       /\ \A k \in 1..next : k # hole => Class(keys, Elements[k]) = Class(keys, held)

\* The elements of the call are of one class, one that compares.
LEMMA SortableByClass ==
  ASSUME Shape, before.kind = "array", Len(before.elements) >= 1
  PROVE  Sortable <=> /\ Class(keys, before.elements[1]) # "none"
                      /\ \A k \in 1..Len(before.elements) :
                           Class(keys, before.elements[k]) = Class(keys, before.elements[1])
<1>1. before.elements \in Seq(ToSet(before.elements))
  BY TargetsAssumption DEF Shape
<1>2. Len(before.elements) \in Nat /\ DOMAIN before.elements = 1..Len(before.elements)
  BY <1>1, LenProperties
<1>3. Sortable <=> \/ \A k \in 1..Len(before.elements) : Class(keys, before.elements[k]) = "strings"
                   \/ \A k \in 1..Len(before.elements) : Class(keys, before.elements[k]) = "numbers"
  <2>1. Sortable <=> \/ \A v \in Values : v.kind = "string"
                     \/ \A v \in Values : v.kind = "number" /\ Ordered(v.number)
    BY DEF Sortable
  <2>2. Values = {ValueAt(keys, before.elements[k]) : k \in 1..Len(before.elements)}
    BY <1>2 DEF Values, ValueByPath
  <2>3. (\A v \in Values : v.kind = "string")
        <=> \A k \in 1..Len(before.elements) : Class(keys, before.elements[k]) = "strings"
    BY <2>2 DEF Class
  <2>4. (\A v \in Values : v.kind = "number" /\ Ordered(v.number))
        <=> \A k \in 1..Len(before.elements) : Class(keys, before.elements[k]) = "numbers"
    BY <2>2 DEF Class, Ordered
  <2> QED
    BY <2>1, <2>3, <2>4
<1>4. \A v : Class(keys, v) \in {"none", "strings", "numbers"}
  BY DEF Class
<1> QED
  BY <1>2, <1>3, <1>4

CInv == Shape /\ Permuted /\ OneClass /\ ThrowsUnlessSortable

LEMMA InitCInv == Init => CInv
  BY InitShape DEF Init, CInv, Permuted, OneClass, ThrowsUnlessSortable

\* The element compared with the first one compares with it exactly when it
\* and all before it are of one class.
LEMMA NextLooksAt ==
  ASSUME CInv, pc = "first", next <= Len(Elements), ~Throws(Elements[next], Elements[1])
  PROVE  /\ LooksAt(next, Elements[next])
         /\ \A k \in 1..next : Class(keys, Elements[k]) = Class(keys, Elements[next])
<1> USE DEF CInv, Shape, OneClass
<1>0. Len(Elements) \in Nat /\ next \in 2..Len(Elements)
  BY LenProperties
<1>1. Class(keys, Elements[next]) = Class(keys, Elements[1]) /\ Class(keys, Elements[next]) # "none"
  <2>1. Typed(keys, Elements[next]) /\ Typed(keys, Elements[1])
    BY <1>0, ElementsTyped DEF Filled
  <2> QED
    BY <2>1, ThrowsByClass
<1>2. Elements[next] = before.elements[next]
  BY <1>0
<1>3. CASE next = 2
  <2>1. Elements[1] = before.elements[1] /\ 1..next = {1, next}
    BY <1>3
  <2> QED
    BY <1>1, <1>2, <2>1 DEF LooksAt
<1>4. CASE next > 2
  <2>1. \A k \in 1..next : k = next \/ k \in 1..(next - 1)
    BY <1>0
  <2> QED
    BY <1>1, <1>2, <1>4, <2>1 DEF LooksAt
<1> QED
  BY <1>0, <1>3, <1>4

LEMMA ToFrontKeeps ==
  ASSUME CInv, ToFront
  PROVE  OneClass' /\ UNCHANGED <<keys, before>> /\ pc' = "first"
<1> USE DEF CInv, Shape, Reshaped
<1>0. /\ UNCHANGED <<keys, before>> /\ pc = "first" /\ pc' = "first" /\ next' = next + 1
      /\ Len(Elements) \in Nat /\ next \in 2..Len(Elements) /\ Len(Elements') = Len(Elements)
  BY ToFrontDoes, LenProperties DEF ToFront, Unchanged
<1>1. /\ LooksAt(next, Elements[next])
      /\ \A k \in 1..next : Class(keys, Elements[k]) = Class(keys, Elements[next])
  BY NextLooksAt DEF ToFront
<1>2. Elements'[1] = Elements[next]
  BY ToFrontDoes
<1>3. ASSUME NEW k \in 1..next PROVE Class(keys, Elements'[k]) = Class(keys, Elements[next])
  <2>1. CASE k = 1
    BY <1>2, <2>1
  <2>2. CASE k # 1
    <3>1. k \in 2..next /\ k - 1 \in 1..next
      BY <1>0, <2>2
    <3> QED
      BY <1>1, <3>1, ToFrontDoes
  <2> QED
    BY <2>1, <2>2
<1>4. \A k \in next'..Len(Elements') : Elements'[k] = before'.elements[k]
  <2> SUFFICES ASSUME NEW k \in (next + 1)..Len(Elements) PROVE Elements'[k] = before.elements[k]
    BY <1>0
  <2>1. Elements'[k] = Elements[k] /\ k \in next..Len(Elements)
    BY <1>0, ToFrontDoes
  <2> QED
    BY <1>0, <2>1 DEF OneClass
<1> QED
  BY <1>0, <1>1, <1>2, <1>3, <1>4 DEF OneClass, LooksAt

LEMMA TakeOutKeeps ==
  ASSUME CInv, TakeOut
  PROVE  OneClass' /\ UNCHANGED <<keys, before>> /\ pc' = "insert"
<1> USE DEF CInv, Shape, Reshaped
<1>0. /\ UNCHANGED <<keys, before, next>> /\ pc = "first" /\ pc' = "insert"
      /\ hole' = next /\ held' = Elements[next]
      /\ Len(Elements) \in Nat /\ next \in 2..Len(Elements) /\ Len(Elements') = Len(Elements)
  BY TakeOutDoes, LenProperties DEF TakeOut, Unchanged
<1>1. /\ LooksAt(next, Elements[next])
      /\ \A k \in 1..next : Class(keys, Elements[k]) = Class(keys, Elements[next])
  BY NextLooksAt DEF TakeOut
<1>2. \A k \in 1..next : k # next => Class(keys, Elements'[k]) = Class(keys, Elements[next])
  BY <1>0, <1>1, TakeOutDoes
<1>3. \A k \in (next + 1)..Len(Elements) : Elements'[k] = before.elements[k]
  BY <1>0, TakeOutDoes DEF OneClass
<1> QED
  BY <1>0, <1>1, <1>2, <1>3 DEF OneClass, LooksAt

LEMMA MoveUpKeeps ==
  ASSUME CInv, MoveUp
  PROVE  OneClass' /\ UNCHANGED <<keys, before>> /\ pc' = "insert"
<1> USE DEF CInv, Shape, Reshaped
<1>0. /\ UNCHANGED <<keys, before, next, held>> /\ pc = "insert" /\ pc' = "insert" /\ hole' = hole - 1
      /\ Len(Elements) \in Nat /\ next \in 2..Len(Elements) /\ Len(Elements') = Len(Elements)
      /\ hole \in 3..next
  BY MoveUpDoes, LenProperties DEF MoveUp, Unchanged
<1>1. \A k \in 1..next : k # hole => Class(keys, Elements[k]) = Class(keys, held)
  BY <1>0 DEF OneClass
<1>2. ASSUME NEW k \in 1..next, k # hole - 1 PROVE Class(keys, Elements'[k]) = Class(keys, held)
  <2>1. CASE k = hole
    <3>1. hole - 1 \in 1..next /\ hole - 1 # hole
      BY <1>0
    <3> QED
      BY <1>1, <2>1, <3>1, MoveUpDoes
  <2>2. CASE k # hole
    BY <1>0, <1>1, <1>2, <2>2, MoveUpDoes
  <2> QED
    BY <2>1, <2>2
<1>3. \A k \in (next + 1)..Len(Elements) : Elements'[k] = before.elements[k]
  BY <1>0, MoveUpDoes DEF OneClass
<1> QED
  BY <1>0, <1>2, <1>3 DEF OneClass, LooksAt

LEMMA PutBackKeeps ==
  ASSUME CInv, PutBack
  PROVE  OneClass' /\ UNCHANGED <<keys, before>> /\ pc' = "first"
<1> USE DEF CInv, Shape, Reshaped
<1>0. /\ UNCHANGED <<keys, before, held>> /\ pc = "insert" /\ pc' = "first" /\ next' = next + 1
      /\ Len(Elements) \in Nat /\ Len(Elements') = Len(Elements)
      /\ hole \in 2..next /\ next \in 2..Len(Elements)
  BY PutBackDoes, LenProperties DEF PutBack, Unchanged
<1>1. /\ LooksAt(next, held)
      /\ \A k \in 1..next : k # hole => Class(keys, Elements[k]) = Class(keys, held)
  BY <1>0 DEF OneClass
<1>2. ASSUME NEW k \in 1..next PROVE Class(keys, Elements'[k]) = Class(keys, held)
  BY <1>0, <1>1, PutBackDoes
<1>3. ASSUME NEW k \in (next + 1)..Len(Elements) PROVE Elements'[k] = before.elements[k]
  BY <1>0, PutBackDoes DEF OneClass
<1> QED
  BY <1>0, <1>1, <1>2, <1>3 DEF OneClass, LooksAt

\* What is held compares with all it is still to be compared with: they have
\* compared with the first element, as it has.
LEMMA HeldCompares ==
  ASSUME CInv, pc = "insert"
  PROVE  ~Throws(held, Left)
<1>1. hole - 1 \in 1..next /\ hole - 1 # hole /\ LooksAt(next, held)
  BY DEF CInv, Shape, OneClass
<1>2. Class(keys, Left) = Class(keys, held) /\ Class(keys, held) # "none"
  BY <1>1 DEF CInv, OneClass, LooksAt, Left
<1>3. Typed(keys, held) /\ Typed(keys, Left)
  <2>1. hole \in 1..Len(Elements) /\ hole - 1 \in 1..Len(Elements)
    BY LenProperties DEF CInv, Shape
  <2> QED
    BY <2>1, ElementsTyped DEF CInv, Filled, Left
<1> QED
  BY <1>2, <1>3, ThrowsByClass

\* The first element whose class is another, or which compares with nothing,
\* is met as an element that is compared with the first one.
LEMMA ThrowComparingMeets ==
  ASSUME CInv, ThrowComparing
  PROVE  ~Sortable
<1> USE DEF CInv, Shape, OneClass
<1>0. Len(Elements) \in Nat /\ next \in 2..Len(Elements) /\ pc = "first" /\ Len(Elements) = Len(before.elements)
  <2>1. pc = "first" /\ next <= Len(Elements)
    BY HeldCompares DEF ThrowComparing, Comparing, Compared
  <2> QED
    BY <2>1, LenProperties
<1>1. Class(keys, Elements[next]) # Class(keys, Elements[1]) \/ Class(keys, Elements[next]) = "none"
  <2>1. Typed(keys, Elements[next]) /\ Typed(keys, Elements[1])
    BY <1>0, ElementsTyped DEF Filled
  <2> QED
    BY <1>0, <2>1, ThrowsByClass DEF ThrowComparing, Compared
<1>2. Elements[next] = before.elements[next]
  BY <1>0
<1>3. Class(keys, Elements[1]) = Class(keys, before.elements[1])
  BY <1>0 DEF LooksAt
<1>4. before.kind = "array" /\ Len(before.elements) >= 1 /\ next \in 1..Len(before.elements)
  BY <1>0
<1> QED
  BY <1>1, <1>2, <1>3, <1>4, SortableByClass

LEMMA SortEndsMeets ==
  ASSUME CInv, SortEnds, Len(before.elements) > 1
  PROVE  Sortable
<1> USE DEF CInv, Shape, OneClass
<1>0. Len(Elements) \in Nat /\ next > Len(Elements) /\ pc = "first" /\ Len(Elements) = Len(before.elements)
  BY LenProperties DEF SortEnds
<1>1. next > 2 /\ \A k \in 1..Len(before.elements) : k \in 1..(next - 1)
  BY <1>0
<1>2. LooksAt(next - 1, Elements[1])
  BY <1>0, <1>1
<1>3. before.kind = "array" /\ Len(before.elements) >= 1
  BY <1>0
<1>4. 1 \in 1..Len(before.elements)
  BY <1>0
<1> QED
  BY <1>1, <1>2, <1>3, <1>4, SortableByClass DEF LooksAt

LEMMA SortableStays ==
  ASSUME UNCHANGED <<keys, before>>
  PROVE  Sortable' = Sortable
  BY DEF Sortable, Values, ValueByPath

LEMMA NextCInv ==
  CInv /\ [Next]_vars => CInv'
<1> SUFFICES ASSUME CInv, [Next]_vars PROVE CInv'
  OBVIOUS
<1>0. Shape' /\ Permuted'
  BY NextShape, NextPermuted DEF CInv
<1> SUFFICES OneClass' /\ ThrowsUnlessSortable'
  BY <1>0 DEF CInv
<1>1. CASE RefuseType
  <2>1. ~Sortable
    BY <1>1 DEF RefuseType, CInv, Shape, Sortable
  <2> QED
    BY <1>1, <2>1, SortableStays DEF RefuseType, OneClass, ThrowsUnlessSortable, Unchanged
<1>2. CASE Begin
  <2>1. Elements' = Elements /\ Elements = before.elements /\ before.kind = "array"
    BY <1>2, BeginFinds DEF CInv, Shape, Begin
  <2> QED
    BY <1>2, <2>1 DEF Begin, CInv, Shape, OneClass, ThrowsUnlessSortable, Unchanged
<1>3. CASE SortEnds
  BY <1>3, SortEndsMeets, SortableStays DEF SortEnds, CInv, OneClass, ThrowsUnlessSortable, Unchanged
<1>4. CASE ToFront
  BY <1>4, ToFrontKeeps DEF ThrowsUnlessSortable
<1>5. CASE TakeOut
  BY <1>5, TakeOutKeeps DEF ThrowsUnlessSortable
<1>6. CASE ThrowComparing
  BY <1>6, ThrowComparingMeets, SortableStays DEF ThrowComparing, OneClass, ThrowsUnlessSortable, Unchanged
<1>7. CASE MoveUp
  BY <1>7, MoveUpKeeps DEF ThrowsUnlessSortable
<1>8. CASE PutBack
  BY <1>8, PutBackKeeps DEF ThrowsUnlessSortable
<1>9. CASE UNCHANGED vars
  <2>1. OneClass'
    BY <1>9 DEF vars, CInv, OneClass, LooksAt, Elements
  <2> QED
    BY <1>9, <2>1, SortableStays DEF vars, CInv, ThrowsUnlessSortable
<1> QED
  BY <1>1, <1>2, <1>3, <1>4, <1>5, <1>6, <1>7, <1>8, <1>9 DEF Next, Sort, Ended

LEMMA CInvariance ==
  Spec => []CInv
  BY InitCInv, NextCInv, PTL DEF Spec

\* In an array of any length, the comparator cannot throw while the sort holds
\* an element outside the array (JsonAlgorithms.cpp:78): all the elements it is
\* then compared with have compared with the first one, as it has.
THEOREM NothingThrownHolding ==
  Spec => []NeverThrowsHolding
<1>1. CInv => NeverThrowsHolding
  BY HeldCompares DEF NeverThrowsHolding
<1> QED
  BY <1>1, CInvariance, PTL

\* An exception leaves the elements of an array of any length, or all but the
\* one that std::sort held outside it.
THEOREM NothingElseLost == Spec => []ThrowLosesAtMostOne
<1> DEFINE PInv == CInv /\ ThrowLosesAtMostOne
<1>1. Init => PInv
  BY InitCInv DEF Init, ThrowLosesAtMostOne
<1>2. PInv /\ [Next]_vars => PInv'
  <2> SUFFICES ASSUME PInv, [Next]_vars PROVE ThrowLosesAtMostOne'
    BY NextCInv
  <2>1. CASE RefuseType
    BY <2>1 DEF RefuseType, ThrowLosesAtMostOne
  <2>2. CASE ThrowComparing
    <3>1. UNCHANGED <<before, sort>>
      BY <2>2 DEF ThrowComparing, Unchanged
    <3>2. pc = "first"
      BY <2>2, HeldCompares DEF ThrowComparing, Comparing, Compared
    <3> QED
      BY <2>2, <3>1, <3>2, ThrowComparingLoses DEF CInv, ThrowLosesAtMostOne
  <2>3. CASE Begin \/ SortEnds \/ ToFront \/ TakeOut \/ MoveUp \/ PutBack
    <3>1. pc' # "threw"
      BY <2>3 DEF Begin, SortEnds, ToFront, TakeOut, MoveUp, PutBack
    <3> QED
      BY <3>1 DEF ThrowLosesAtMostOne
  <2>4. CASE UNCHANGED vars
    BY <2>4 DEF vars, ThrowLosesAtMostOne, Elements
  <2> QED
    BY <2>1, <2>2, <2>3, <2>4 DEF Next, Sort, Ended
<1>3. PInv => ThrowLosesAtMostOne
  OBVIOUS
<1> HIDE DEF PInv
<1> QED
  BY <1>1, <1>2, <1>3, PTL DEF Spec

\* Whether sortByPath throws is the same for every order of the elements, in an
\* array of any length: of two elements or more it throws exactly if they do not
\* all have strings or all numbers other than NaN at the path, of fewer only if
\* they do not (JsonAlgorithms.cpp:82).
THEOREM ThrowsForAnyOrder ==
  Spec => []ThrowsUnlessSortable
<1>1. CInv => ThrowsUnlessSortable
  BY DEF CInv
<1> QED
  BY <1>1, CInvariance, PTL

-----------------------------------------------------------------------------
\* The integer by which an element has its place among those of its class.
RankAt(path, v) ==
  LET x == ValueAt(path, v) IN IF x.kind = "number" THEN ExactValue(x.number) ELSE x.text
InOrderAt(path, up, a, b) ==
  IF up THEN RankAt(path, a) <= RankAt(path, b) ELSE RankAt(path, b) <= RankAt(path, a)
InOrder(a, b) == InOrderAt(keys, ascending, a, b)

LEMMA OrderByRank ==
  ASSUME NEW a, NEW b, Typed(keys, a), Typed(keys, b),
         Class(keys, a) = Class(keys, b), Class(keys, b) # "none"
  PROVE  /\ RankAt(keys, a) \in Int /\ RankAt(keys, b) \in Int
         /\ Compare(a, b) = Sign(RankAt(keys, a) - RankAt(keys, b))
<1> DEFINE x == ValueAt(keys, a)
           y == ValueAt(keys, b)
<1>1. \/ x.kind = "string" /\ y.kind = "string"
      \/ x.kind = "number" /\ y.kind = "number" /\ Ordered(x.number) /\ Ordered(y.number)
  BY DEF Class, Ordered
<1>2. CASE x.kind = "string" /\ y.kind = "string"
  <2>1. RankAt(keys, a) = x.text /\ RankAt(keys, b) = y.text /\ x.text \in Int /\ y.text \in Int
    BY <1>2 DEF RankAt, Typed
  <2> QED
    BY <1>2, <2>1 DEF Compare, ValueByPath, Order
<1>3. CASE x.kind = "number" /\ y.kind = "number" /\ Ordered(x.number) /\ Ordered(y.number)
  <2>1. /\ RankAt(keys, a) = ExactValue(x.number) /\ RankAt(keys, b) = ExactValue(y.number)
        /\ x.number \in Numbers /\ y.number \in Numbers
    BY <1>3 DEF RankAt, Typed
  <2>2. Compare(a, b) = CompareNumbers(x.number, y.number)
    BY <1>3 DEF Compare, ValueByPath, Order
  <2> HIDE DEF x, y
  <2> QED
    BY <1>3, <2>1, <2>2, NumbersAssumption
<1> QED
  BY <1>1, <1>2, <1>3

\* Of two elements that compare, one that does not come before the other one
\* may stand behind it, and one that does may stand in front of it.
LEMMA OrderIsTotal ==
  ASSUME NEW a, NEW b, Typed(keys, a), Typed(keys, b), ascending \in BOOLEAN,
         Class(keys, a) = Class(keys, b), Class(keys, b) # "none"
  PROVE  (ComesBefore(a, b) => InOrder(a, b)) /\ (~ComesBefore(a, b) => InOrder(b, a))
<1>1. /\ RankAt(keys, a) \in Int /\ RankAt(keys, b) \in Int
      /\ Compare(a, b) = Sign(RankAt(keys, a) - RankAt(keys, b))
  BY OrderByRank
<1> QED
  BY <1>1 DEF ComesBefore, InOrder, InOrderAt, Sign

LEMMA OrderIsTransitive ==
  ASSUME NEW a, NEW b, NEW c, InOrder(a, b), InOrder(b, c),
         RankAt(keys, a) \in Int, RankAt(keys, b) \in Int, RankAt(keys, c) \in Int
  PROVE  InOrder(a, c)
BY DEF InOrder, InOrderAt

\* The elements inserted so far are in order, and while one is held, so are
\* those on either side of the hole, where it comes before those behind it.
InsertedInOrder ==
  /\ pc = "first" =>
       \A i, j \in 1..(next - 1) : i < j => InOrder(Elements[i], Elements[j])
  /\ pc = "insert" =>
       /\ \A i, j \in (1..next) \ {hole} : i < j => InOrder(Elements[i], Elements[j])
       /\ \A j \in (hole + 1)..next : InOrder(held, Elements[j])
  /\ pc = "done" =>
       \A i, j \in 1..Len(Elements) : i < j => InOrder(Elements[i], Elements[j])

\* The elements inserted so far, and the one held, compare with one another.
LEMMA InsertedCompare ==
  ASSUME CInv, pc \in {"first", "insert"}
  PROVE  /\ Len(Elements) \in Nat /\ next \in Nat
         /\ pc = "first" => \A k \in 1..Len(Elements) : Typed(keys, Elements[k])
         /\ pc = "insert" => /\ Typed(keys, held) /\ RankAt(keys, held) \in Int
                             /\ \A k \in (1..next) \ {hole} :
                                  Typed(keys, Elements[k]) /\ RankAt(keys, Elements[k]) \in Int
<1>1. Len(Elements) \in Nat /\ next \in Nat
  BY LenProperties DEF CInv, Shape
<1>2. \A k \in 1..Len(Elements) : Typed(keys, Filled(k))
  BY ElementsTyped DEF CInv
<1>3. pc = "first" => \A k \in 1..Len(Elements) : Typed(keys, Elements[k])
  BY <1>2 DEF Filled
<1>4. ASSUME pc = "insert"
      PROVE  /\ Typed(keys, held) /\ RankAt(keys, held) \in Int
             /\ \A k \in (1..next) \ {hole} :
                  Typed(keys, Elements[k]) /\ RankAt(keys, Elements[k]) \in Int
  <2>1. hole \in 1..Len(Elements) /\ next <= Len(Elements)
    BY <1>1, <1>4 DEF CInv, Shape
  <2>2. Typed(keys, held) /\ \A k \in (1..next) \ {hole} : Typed(keys, Elements[k])
    BY <1>1, <1>2, <1>4, <2>1 DEF Filled
  <2>3. /\ Class(keys, held) # "none"
        /\ \A k \in (1..next) \ {hole} : Class(keys, Elements[k]) = Class(keys, held)
    BY <1>1, <1>4 DEF CInv, OneClass, LooksAt
  <2> QED
    BY <2>2, <2>3, OrderByRank
<1> QED
  BY <1>1, <1>3, <1>4

LEMMA ToFrontInOrder ==
  ASSUME CInv, InsertedInOrder, ToFront
  PROVE  InsertedInOrder'
<1>0. /\ pc = "first" /\ pc' = "first" /\ next' = next + 1 /\ UNCHANGED <<keys, ascending>>
      /\ next \in 2..Len(Elements) /\ Len(Elements) \in Nat /\ ascending \in BOOLEAN
      /\ Elements'[1] = Elements[next] /\ \A k \in 2..next : Elements'[k] = Elements[k - 1]
  BY ToFrontDoes, LenProperties DEF ToFront, Unchanged, CInv, Shape
<1>1. /\ Class(keys, Elements[next]) # "none"
      /\ \A k \in 1..next : /\ Class(keys, Elements[k]) = Class(keys, Elements[next])
                            /\ Typed(keys, Elements[k])
  BY <1>0, NextLooksAt, InsertedCompare DEF ToFront, LooksAt
<1>2. \A k \in 1..next : RankAt(keys, Elements[k]) \in Int
  <2> SUFFICES ASSUME NEW k \in 1..next PROVE RankAt(keys, Elements[k]) \in Int
    OBVIOUS
  <2>1. next \in 1..next
    BY <1>0
  <2> QED
    BY <1>1, <2>1, OrderByRank
<1>3. InOrder(Elements[next], Elements[1])
  <2>1. next \in 1..next /\ 1 \in 1..next
    BY <1>0
  <2> QED
    BY <1>0, <1>1, <2>1, OrderIsTotal DEF ToFront
<1>4. \A i, j \in 1..(next - 1) : i < j => InOrder(Elements[i], Elements[j])
  BY <1>0 DEF InsertedInOrder
<1>5. \A j \in 1..(next - 1) : InOrder(Elements[next], Elements[j])
  <2> SUFFICES ASSUME NEW j \in 1..(next - 1), j # 1 PROVE InOrder(Elements[next], Elements[j])
    BY <1>3
  <2>1. InOrder(Elements[1], Elements[j])
    BY <1>0, <1>4
  <2>2. next \in 1..next /\ 1 \in 1..next /\ j \in 1..next
    BY <1>0
  <2> QED
    BY <1>2, <1>3, <2>1, <2>2, OrderIsTransitive
<1>6. ASSUME NEW i \in 1..next, NEW j \in 1..next, i < j
      PROVE  InOrder(Elements'[i], Elements'[j])
  <2>1. j \in 2..next /\ j - 1 \in 1..(next - 1) /\ Elements'[j] = Elements[j - 1]
    BY <1>0, <1>6
  <2>2. CASE i = 1
    BY <1>0, <1>5, <2>1, <2>2
  <2>3. CASE i # 1
    <3>1. i \in 2..next /\ i - 1 \in 1..(next - 1) /\ i - 1 < j - 1
      BY <1>0, <1>6, <2>1, <2>3
    <3>2. Elements'[i] = Elements[i - 1]
      BY <1>0, <3>1
    <3> QED
      BY <1>4, <2>1, <3>1, <3>2
  <2> QED
    BY <2>2, <2>3
<1>7. \A a, b : InOrder(a, b) => InOrderAt(keys', ascending', a, b)
  BY <1>0 DEF InOrder
<1>8. \A i, j \in 1..(next' - 1) : i < j => InOrder(Elements[i], Elements[j])'
  BY <1>0, <1>6, <1>7 DEF InOrder
<1> QED
  BY <1>0, <1>8 DEF InsertedInOrder

LEMMA TakeOutInOrder ==
  ASSUME CInv, InsertedInOrder, TakeOut
  PROVE  InsertedInOrder'
<1>0. /\ pc = "first" /\ pc' = "insert" /\ UNCHANGED <<next, keys, ascending>> /\ hole' = next
      /\ next \in 2..Len(Elements) /\ Len(Elements) \in Nat
      /\ \A k \in 1..Len(Elements) : k # next => Elements'[k] = Elements[k]
  BY TakeOutDoes, LenProperties DEF TakeOut, Unchanged, CInv, Shape
<1>1. \A i, j \in 1..(next - 1) : i < j => InOrder(Elements[i], Elements[j])
  BY <1>0 DEF InsertedInOrder
<1>2. ASSUME NEW i \in (1..next) \ {next}, NEW j \in (1..next) \ {next}, i < j
      PROVE  InOrder(Elements[i], Elements[j])'
  <2>1. Elements'[i] = Elements[i] /\ Elements'[j] = Elements[j] /\ i \in 1..(next - 1) /\ j \in 1..(next - 1)
    BY <1>0
  <2> QED
    BY <1>0, <1>1, <1>2, <2>1 DEF InOrder
<1>3. (hole + 1)'..next' = {}
  BY <1>0
<1> QED
  BY <1>0, <1>2, <1>3 DEF InsertedInOrder

LEMMA MoveUpInOrder ==
  ASSUME CInv, InsertedInOrder, MoveUp
  PROVE  InsertedInOrder'
<1>0. /\ pc = "insert" /\ pc' = "insert" /\ UNCHANGED <<next, held, keys, ascending>>
      /\ hole' = hole - 1 /\ hole \in 3..next /\ next <= Len(Elements)
      /\ Len(Elements) \in Nat /\ next \in Nat /\ ascending \in BOOLEAN
      /\ Elements'[hole] = Elements[hole - 1]
      /\ \A k \in 1..Len(Elements) : k \notin {hole - 1, hole} => Elements'[k] = Elements[k]
  BY MoveUpDoes, LenProperties DEF MoveUp, Unchanged, CInv, Shape
<1>1. /\ \A i, j \in (1..next) \ {hole} : i < j => InOrder(Elements[i], Elements[j])
      /\ \A j \in (hole + 1)..next : InOrder(held, Elements[j])
  BY <1>0 DEF InsertedInOrder
<1>2. InOrder(held, Elements[hole - 1])
  <2>1. hole - 1 \in (1..next) \ {hole}
    BY <1>0
  <2>2. Typed(keys, held) /\ Typed(keys, Elements[hole - 1])
    BY <1>0, <2>1, InsertedCompare
  <2>3. Class(keys, Elements[hole - 1]) = Class(keys, held) /\ Class(keys, held) # "none"
    BY <1>0, <2>1 DEF CInv, OneClass, LooksAt
  <2> QED
    BY <1>0, <2>2, <2>3, OrderIsTotal DEF MoveUp, Left
<1>3. ASSUME NEW i \in (1..next) \ {hole - 1}, NEW j \in (1..next) \ {hole - 1}, i < j
      PROVE  InOrder(Elements[i], Elements[j])'
  <2> DEFINE from(k) == IF k = hole THEN hole - 1 ELSE k
  <2>1. \A k \in (1..next) \ {hole - 1} : Elements'[k] = Elements[from(k)] /\ from(k) \in (1..next) \ {hole}
    BY <1>0
  <2>2. from(i) < from(j)
    BY <1>0, <1>3
  <2> QED
    BY <1>0, <1>1, <2>1, <2>2 DEF InOrder
<1>4. ASSUME NEW j \in hole..next
      PROVE  InOrder(held, Elements[j])'
  <2>1. CASE j = hole
    BY <1>0, <1>2, <2>1 DEF InOrder
  <2>2. CASE j # hole
    <3>1. j \in (hole + 1)..next /\ Elements'[j] = Elements[j]
      BY <1>0, <2>2
    <3> QED
      BY <1>0, <1>1, <3>1 DEF InOrder
  <2> QED
    BY <2>1, <2>2
<1>5. hole' + 1 = hole
  BY <1>0
<1> QED
  BY <1>0, <1>3, <1>4, <1>5 DEF InsertedInOrder

LEMMA PutBackInOrder ==
  ASSUME CInv, InsertedInOrder, PutBack
  PROVE  InsertedInOrder'
<1>0. /\ pc = "insert" /\ pc' = "first" /\ next' = next + 1 /\ UNCHANGED <<held, keys, ascending>>
      /\ hole \in 2..next /\ next <= Len(Elements)
      /\ Len(Elements) \in Nat /\ next \in Nat /\ ascending \in BOOLEAN
      /\ Elements'[hole] = held
      /\ \A k \in 1..Len(Elements) : k # hole => Elements'[k] = Elements[k]
  BY PutBackDoes, LenProperties DEF PutBack, Unchanged, CInv, Shape
<1>1. /\ \A i, j \in (1..next) \ {hole} : i < j => InOrder(Elements[i], Elements[j])
      /\ \A j \in (hole + 1)..next : InOrder(held, Elements[j])
  BY <1>0 DEF InsertedInOrder
<1>2. /\ RankAt(keys, held) \in Int
      /\ \A k \in (1..next) \ {hole} : RankAt(keys, Elements[k]) \in Int
  BY <1>0, InsertedCompare
<1>3. hole - 1 \in (1..next) \ {hole}
  BY <1>0
<1>4. InOrder(Elements[hole - 1], held)
  <2>1. Typed(keys, held) /\ Typed(keys, Elements[hole - 1])
    BY <1>0, <1>3, InsertedCompare
  <2>2. Class(keys, Elements[hole - 1]) = Class(keys, held) /\ Class(keys, held) # "none"
    BY <1>0, <1>3 DEF CInv, OneClass, LooksAt
  <2> QED
    BY <1>0, <2>1, <2>2, OrderIsTotal DEF PutBack, Left
<1>5. ASSUME NEW i \in 1..next, i < hole PROVE InOrder(Elements[i], held)
  <2>1. CASE i = hole - 1
    BY <1>4, <2>1
  <2>2. CASE i # hole - 1
    <3>1. i \in (1..next) \ {hole} /\ i < hole - 1
      BY <1>0, <1>5, <2>2
    <3>2. InOrder(Elements[i], Elements[hole - 1])
      BY <1>1, <1>3, <3>1
    <3> QED
      BY <1>2, <1>3, <1>4, <3>1, <3>2, OrderIsTransitive
  <2> QED
    BY <2>1, <2>2
<1>6. ASSUME NEW i \in 1..next, NEW j \in 1..next, i < j
      PROVE  InOrder(Elements[i], Elements[j])'
  <2>1. \A k \in 1..next : Elements'[k] = IF k = hole THEN held ELSE Elements[k]
    BY <1>0
  <2>2. InOrder(Elements'[i], Elements'[j])
    <3>1. CASE i = hole
      <4>1. j \in (hole + 1)..next /\ j # hole
        BY <1>0, <1>6, <3>1
      <4> QED
        BY <1>1, <2>1, <3>1, <4>1
    <3>2. CASE j = hole
      <4>1. i # hole /\ i < hole
        BY <1>0, <1>6, <3>2
      <4> QED
        BY <1>5, <2>1, <3>2, <4>1
    <3>3. CASE i # hole /\ j # hole
      BY <1>1, <1>6, <2>1, <3>3
    <3> QED
      BY <3>1, <3>2, <3>3
  <2> QED
    BY <1>0, <2>2 DEF InOrder
<1>7. next' - 1 = next
  BY <1>0
<1> QED
  BY <1>0, <1>6, <1>7 DEF InsertedInOrder

LEMMA NextInOrder == CInv /\ InsertedInOrder /\ [Next]_vars => InsertedInOrder'
<1> SUFFICES ASSUME CInv, InsertedInOrder, [Next]_vars PROVE InsertedInOrder'
  OBVIOUS
<1>1. CASE RefuseType \/ ThrowComparing
  BY <1>1 DEF RefuseType, ThrowComparing, InsertedInOrder
<1>2. CASE Begin
  <2>1. next' = 2 /\ pc' = "first"
    BY <1>2 DEF Begin, CInv, Shape
  <2>2. \A i, j \in 1..(next' - 1) : ~(i < j)
    BY <2>1
  <2> QED
    BY <2>1, <2>2 DEF InsertedInOrder
<1>3. CASE SortEnds
  <2>1. /\ pc = "first" /\ pc' = "done" /\ UNCHANGED <<keys, ascending>> /\ Elements' = Elements
        /\ Len(Elements) \in Nat /\ next \in Nat /\ Len(Elements) <= next - 1
    BY <1>3, SortEndsDoes, LenProperties DEF SortEnds, Unchanged, CInv, Shape
  <2>2. ASSUME NEW i \in 1..Len(Elements), NEW j \in 1..Len(Elements), i < j
        PROVE  InOrder(Elements[i], Elements[j])'
    BY <2>1, <2>2 DEF InsertedInOrder, InOrder
  <2> QED
    BY <2>1, <2>2 DEF InsertedInOrder
<1>4. CASE UNCHANGED vars
  BY <1>4 DEF vars, InsertedInOrder, InOrder, Elements
<1> QED
  BY <1>1, <1>2, <1>3, <1>4, ToFrontInOrder, TakeOutInOrder, MoveUpInOrder, PutBackInOrder
  DEF Next, Sort, Ended

\* An array of any length comes back with the elements it had, in the order of
\* what is at the path: numbers by their exact values, whatever stores them,
\* and texts by their rank (JsonAlgorithms.cpp:76).
THEOREM SortsAnyArray == Spec => []SortsByPath
<1> DEFINE SInv == CInv /\ InsertedInOrder
<1>1. Init => SInv
  BY InitCInv DEF Init, InsertedInOrder
<1>2. SInv /\ [Next]_vars => SInv'
  BY NextCInv, NextInOrder
<1>3. SInv => SortsByPath
  <2> SUFFICES ASSUME SInv, pc = "done" PROVE SortsByPath
    BY DEF SortsByPath
  <2>1. SameElements(Elements, before.elements)
    BY FilledHasAll DEF CInv
  <2>2. Len(Elements) \in Nat
    BY LenProperties DEF CInv, Shape
  <2>3. ASSUME NEW i \in 1..(Len(Elements) - 1)
        PROVE  LET x == ValueByPath(Elements[i])
                   y == ValueByPath(Elements[i + 1])
               IN  IF ascending THEN Ascends(x, y) ELSE Ascends(y, x)
    <3> DEFINE a == Elements[i]
               b == Elements[i + 1]
    <3>1. InOrder(a, b)
      BY <2>2 DEF InsertedInOrder
    <3>2. ValueByPath(a).kind = "number" <=> ValueByPath(b).kind = "number"
      <4>1. before.elements \in Seq(ToSet(before.elements)) /\ Len(before.elements) = Len(Elements)
        BY TargetsAssumption DEF CInv, Shape
      <4>2. PICK g \in Perm(Len(Elements)) :
              \A k \in 1..Len(Elements) : Elements[k] = before.elements[g[k]]
        BY DEF CInv, Permuted, Filled
      <4>3. g[i] \in DOMAIN before.elements /\ g[i + 1] \in DOMAIN before.elements
        <5>1. g \in [1..Len(Elements) -> 1..Len(Elements)]
          BY <2>2, <4>2, PermIs
        <5>2. DOMAIN before.elements = 1..Len(Elements)
          BY <4>1, LenProperties
        <5>3. i \in 1..Len(Elements) /\ i + 1 \in 1..Len(Elements)
          BY <2>2
        <5> QED
          BY <5>1, <5>2, <5>3
      <4>4. ValueByPath(a) \in Values /\ ValueByPath(b) \in Values
        BY <2>2, <4>2, <4>3 DEF Values
      <4>5. Len(before.elements) > 1
        BY <2>2, <4>1
      <4> HIDE DEF a, b
      <4> QED
        BY <4>4, <4>5 DEF CInv, ThrowsUnlessSortable, Sortable
    <3> QED
      BY <3>1, <3>2 DEF InOrder, InOrderAt, RankAt, ValueByPath, Ascends
  <2> QED
    BY <2>1, <2>3 DEF SortsByPath
<1> HIDE DEF SInv
<1> QED
  BY <1>1, <1>2, <1>3, PTL DEF Spec
=============================================================================
