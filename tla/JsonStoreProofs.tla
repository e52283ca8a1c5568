--------------------------- MODULE JsonStoreProofs --------------------------
(***************************************************************************)
(* What MCStore checks for small documents, for any documents: the nodes   *)
(* of a document, what replacing one of them does to the others, and from  *)
(* that what a call leaves behind.                                         *)
(***************************************************************************)
EXTENDS JsonStore, FunctionTheorems, SequenceTheorems, WellFoundedInduction, TLAPS

\* A sequence, whatever it is a sequence of; a map, whatever it leads to.
IsSeq(e) == e \in Seq(ToSet(e))
IsMap(m) == m = [k \in DOMAIN m |-> m[k]]

\* What push_back and mergeArray read, and how much of it has been read.
Refs ==
  IF call.op = "push_back" THEN call.refs
  ELSE [i \in DOMAIN Was(call.other).elements |-> Append(call.other, [index |-> i])]
ItemsRead == Len(Refs) - Len(sources)

\* What mergeObject reads, and the keys it has read.
Ref(key) == Append(call.other, [key |-> key])
KeysRead == {k \in DOMAIN Was(call.other).members : Ref(k) \notin ToSet(sources)}

Began ==
  /\ pc \in {"ready", "assign", "push", "insert", "returned", "threw", "undefined"}
  /\ growth \in Growth /\ relocated \in BOOLEAN
  /\ before \in Documents
  /\ IF pc = "ready" THEN root = before /\ sources = <<>> /\ ~relocated
                     ELSE call.target \in PathsOf(before)

\* The document while a value is looked up and assigned to target[step].
Subscripted ==
  pc = "assign" =>
    /\ call.op = "subscript" /\ call.step \in Step
    /\ \E p \in PathsOf(before) : sources = <<p>> /\ call.held = <<p>>
    /\ LET v == Converted(Was(call.target), call.step)
       IN  /\ Fits(v, call.step)
           /\ root = Replace(before, call.target, Created(v, call.step))
           /\ relocated => Grows(v, call.step)

\* The document while values are appended: only the target has changed, which
\* has its elements and then what has been read, each a copy of what it was
\* unless the target is part of it.
Pushed ==
  LET old == Was(call.target).elements
      new == Node(call.target).elements
  IN  pc = "push" =>
        /\ \/ call.op = "push_back" /\ call.refs \in Seq(PathsOf(before))
           \/ /\ call.op = "mergeArray" /\ call.other \in PathsOf(before)
              /\ call.other # call.target /\ Was(call.other).kind = "array"
        /\ Was(call.target).kind = "array"
        /\ sources \in Seq(ToSet(Refs)) /\ ItemsRead \in 0..Len(Refs)
        /\ \A i \in DOMAIN sources : sources[i] = Refs[ItemsRead + i]
        /\ root = Replace(before, call.target, Node(call.target))
        /\ Node(call.target) = ArrayValue(new)
        /\ IsSeq(new) /\ Len(new) = Len(old) + ItemsRead
        /\ \A i \in 1..Len(old) : new[i] = old[i]
        /\ ~ReadsTarget => \A i \in 1..ItemsRead : new[Len(old) + i] = Was(Refs[i])
        /\ ItemsRead = 0 => root = before /\ ~relocated

\* The document while members are inserted: only the target has changed, which
\* has its members and those read, the ones asked for overwritten.  The member
\* that the other object is part of is not among them.
Inserted ==
  LET other == Was(call.other).members
      old == Was(call.target).members
      new == Node(call.target).members
  IN  pc = "insert" =>
        /\ call.op = "mergeObject" /\ call.other \in PathsOf(before) /\ call.overwrite \in BOOLEAN
        /\ Was(call.target).kind = "object" /\ Was(call.other).kind = "object"
        /\ IsSeq(sources) /\ \A i \in DOMAIN sources : \E k \in DOMAIN other : sources[i] = Ref(k)
        /\ \A i, j \in DOMAIN sources : sources[i] = sources[j] => i = j
        /\ root = Replace(before, call.target, Node(call.target))
        /\ Node(call.target) = ObjectValue(new)
        /\ IsMap(new) /\ DOMAIN new = DOMAIN old \cup KeysRead
        /\ \A k \in DOMAIN old : ~(call.overwrite /\ k \in KeysRead) => new[k] = old[k]
        /\ ~ReadsTarget => \A k \in KeysRead : call.overwrite \/ k \notin DOMAIN old => new[k] = other[k]
        /\ call.overwrite /\ Inside(call.other, call.target) =>
             \A k \in KeysRead : Towards(call.target, call.other) # [key |-> k]

Left == MergesCopies /\ DefinedUnlessHazardous /\ ThrowKeepsDocument

IInv == Began /\ Subscripted /\ Pushed /\ Inserted /\ Left

-----------------------------------------------------------------------------
\* Induction over the numbers, and over those up to n in either direction.
LEMMA NatInduct ==
  ASSUME NEW S, 0 \in S, \A n \in Nat : n \in S => n + 1 \in S
  PROVE  Nat \subseteq S
<1> DEFINE T == Nat \ S
           R == OpToRel(<, Nat)
<1>1. SUFFICES ASSUME T # {} PROVE FALSE
  OBVIOUS
<1>2. IsWellFoundedOn(R, Nat) /\ T \subseteq Nat
  BY NatLessThanWellFounded
<1>3. PICK m \in T : \A k \in T : ~(<<k, m>> \in R)
  <2> HIDE DEF R, T
  <2> QED
    BY <1>1, <1>2, WFMin
<1>4. m # 0 /\ m \in Nat /\ m - 1 \in Nat /\ m - 1 < m
  OBVIOUS
<1>5. <<m - 1, m>> \in R
  BY <1>4 DEF OpToRel
<1>6. m - 1 \in S
  BY <1>3, <1>4, <1>5
<1>7. (m - 1) + 1 = m
  BY <1>4
<1> QED
  BY <1>4, <1>6, <1>7

\* A set that 0 belongs to and that goes on from i to i + 1 has all numbers up to n.
LEMMA UpTo ==
  ASSUME NEW n \in Nat, NEW S, 0 \in S, \A i \in 0..(n - 1) : i \in S => i + 1 \in S
  PROVE  0..n \subseteq S
<1> DEFINE T == {i \in Nat : i <= n => i \in S}
<1>1. 0 \in T
  OBVIOUS
<1>2. ASSUME NEW i \in Nat, i \in T PROVE i + 1 \in T
  BY <1>2
<1>3. Nat \subseteq T
  <2> HIDE DEF T
  <2> QED
    BY <1>1, <1>2, NatInduct
<1> QED
  BY <1>3

\* The same from n down to 0.
LEMMA DownFrom ==
  ASSUME NEW n \in Nat, NEW S, n \in S, \A i \in 0..(n - 1) : i + 1 \in S => i \in S
  PROVE  0..n \subseteq S
<1> DEFINE T == {i \in 0..n : n - i \in S}
<1>1. 0 \in T
  OBVIOUS
<1>2. ASSUME NEW i \in 0..(n - 1), i \in T PROVE i + 1 \in T
  <2>1. n - i - 1 \in 0..(n - 1) /\ (n - i - 1) + 1 = n - i
    OBVIOUS
  <2>2. n - i - 1 \in S
    BY <1>2, <2>1
  <2> QED
    BY <2>2
<1>3. 0..n \subseteq T
  <2> HIDE DEF T
  <2> QED
    BY <1>1, <1>2, UpTo
<1>4. ASSUME NEW j \in 0..n PROVE j \in S
  <2>1. n - j \in T /\ n - (n - j) = j
    BY <1>3
  <2> QED
    BY <2>1
<1> QED
  BY <1>4

-----------------------------------------------------------------------------
\* The nodes on the way to a path: each is the child of the one before.
LEMMA AlongDef ==
  ASSUME NEW doc, NEW path, Len(path) \in Nat
  PROVE  Along(doc, path) =
           [i \in 0..Len(path) |->
              IF i = 0 THEN doc ELSE Child(Along(doc, path)[i - 1], path[i])]
<1> DEFINE n == Len(path)
           S == {m \in Nat : \E f : f = [i \in 0..m |-> IF i = 0 THEN doc ELSE Child(f[i - 1], path[i])]}
<1>1. 0 \in S
  <2>1. LET f == [i \in 0..0 |-> doc]
        IN  f = [i \in 0..0 |-> IF i = 0 THEN doc ELSE Child(f[i - 1], path[i])]
    OBVIOUS
  <2> QED
    BY <2>1
<1>2. ASSUME NEW m \in Nat, m \in S PROVE m + 1 \in S
  <2>1. PICK f : f = [i \in 0..m |-> IF i = 0 THEN doc ELSE Child(f[i - 1], path[i])]
    BY <1>2
  <2> DEFINE g == [i \in 0..(m + 1) |-> IF i = m + 1 THEN Child(f[m], path[m + 1]) ELSE f[i]]
  <2>2. \A i \in 0..m : g[i] = f[i]
    OBVIOUS
  <2>3. ASSUME NEW i \in 0..(m + 1)
        PROVE  g[i] = IF i = 0 THEN doc ELSE Child(g[i - 1], path[i])
    <3>1. CASE i = m + 1
      <4>1. g[i] = Child(f[m], path[i]) /\ i # 0 /\ i - 1 = m
        BY <3>1
      <4> QED
        BY <4>1, <2>2
    <3>2. CASE i # m + 1
      <4>1. i \in 0..m /\ (i # 0 => i - 1 \in 0..m)
        BY <3>2
      <4>2. f[i] = IF i = 0 THEN doc ELSE Child(f[i - 1], path[i])
        BY <2>1, <4>1
      <4> QED
        BY <2>2, <4>1, <4>2
    <3> QED
      BY <3>1, <3>2
  <2>4. g = [i \in 0..(m + 1) |-> IF i = 0 THEN doc ELSE Child(g[i - 1], path[i])]
    <3> DEFINE h == [i \in 0..(m + 1) |-> IF i = 0 THEN doc ELSE Child(g[i - 1], path[i])]
    <3>1. \A i \in 0..(m + 1) : g[i] = h[i]
      <4> HIDE DEF g
      <4> QED
        BY <2>3
    <3>2. g = [i \in 0..(m + 1) |-> g[i]] /\ h = [i \in 0..(m + 1) |-> h[i]]
      OBVIOUS
    <3> HIDE DEF g, h
    <3>3. g = h
      BY <3>1, <3>2
    <3> QED
      BY <3>3 DEF h
  <2> HIDE DEF g
  <2> QED
    BY <2>4
<1>3. \E f : f = [i \in 0..n |-> IF i = 0 THEN doc ELSE Child(f[i - 1], path[i])]
  <2>1. Nat \subseteq S
    <3> HIDE DEF S
    <3> QED
      BY <1>1, <1>2, NatInduct
  <2> QED
    BY <2>1
<1> QED
  BY <1>3 DEF Along

\* The nodes along a path: the document, and each one's child at the next step.
LEMMA AlongAt ==
  ASSUME NEW doc, NEW path, Len(path) \in Nat
  PROVE  /\ Along(doc, path)[0] = doc
         /\ \A i \in 1..Len(path) : Along(doc, path)[i] = Child(Along(doc, path)[i - 1], path[i])
<1> DEFINE along == Along(doc, path)
<1>1. along = [i \in 0..Len(path) |-> IF i = 0 THEN doc ELSE Child(along[i - 1], path[i])]
  BY AlongDef
<1> HIDE DEF along
<1>2. along[0] = doc
  BY <1>1
<1>3. ASSUME NEW i \in 1..Len(path) PROVE along[i] = Child(along[i - 1], path[i])
  BY <1>1
<1> QED
  BY <1>2, <1>3 DEF along

\* Where two paths meet the same node and go on alike, they go on to the same.
LEMMA AlikeFrom ==
  ASSUME NEW d, NEW p, NEW e, NEW q, Len(p) \in Nat, Len(q) \in Nat,
         NEW m \in Nat, NEW n \in Nat, NEW j \in Nat, m + j <= Len(p), n + j <= Len(q),
         Along(d, p)[m] = Along(e, q)[n],
         \A i \in 1..j : p[m + i] = q[n + i]
  PROVE  Along(d, p)[m + j] = Along(e, q)[n + j]
<1> DEFINE S == {i \in 0..j : Along(d, p)[m + i] = Along(e, q)[n + i]}
<1>1. 0 \in S
  OBVIOUS
<1>2. ASSUME NEW i \in 0..(j - 1), i \in S PROVE i + 1 \in S
  <2>1. m + i + 1 \in 1..Len(p) /\ n + i + 1 \in 1..Len(q) /\ i + 1 \in 1..j
    OBVIOUS
  <2>2. Along(d, p)[m + i + 1] = Child(Along(d, p)[m + i], p[m + i + 1])
    <3>1. (m + i + 1) - 1 = m + i
      OBVIOUS
    <3> QED
      BY <2>1, <3>1, AlongAt
  <2>3. Along(e, q)[n + i + 1] = Child(Along(e, q)[n + i], q[n + i + 1])
    <3>1. (n + i + 1) - 1 = n + i
      OBVIOUS
    <3> QED
      BY <2>1, <3>1, AlongAt
  <2>4. p[m + (i + 1)] = q[n + (i + 1)]
    BY <2>1
  <2>5. m + (i + 1) = m + i + 1 /\ n + (i + 1) = n + i + 1
    OBVIOUS
  <2>6. Along(d, p)[m + i + 1] = Along(e, q)[n + i + 1]
    BY <1>2, <2>2, <2>3, <2>4, <2>5
  <2> QED
    BY <2>1, <2>5, <2>6
<1>3. 0..j \subseteq S
  <2> HIDE DEF S
  <2> QED
    BY <1>1, <1>2, UpTo
<1> QED
  BY <1>3

\* In particular from the root on.
LEMMA AlikeUpTo ==
  ASSUME NEW doc, NEW p, NEW q, Len(p) \in Nat, Len(q) \in Nat,
         NEW j \in Nat, j <= Len(p), j <= Len(q), \A i \in 1..j : p[i] = q[i]
  PROVE  Along(doc, p)[j] = Along(doc, q)[j]
<1>1. PICK z \in Nat : z = 0
  OBVIOUS
<1>2. Along(doc, p)[z] = Along(doc, q)[z]
  BY <1>1, AlongAt
<1>3. /\ z + j <= Len(p) /\ z + j <= Len(q) /\ z + j = j
      /\ \A i \in 1..j : p[z + i] = q[z + i]
  BY <1>1
<1>4. Along(doc, p)[z + j] = Along(doc, q)[z + j]
  <2> HIDE <1>1
  <2> QED
    BY <1>2, <1>3, AlikeFrom
<1> QED
  BY <1>3, <1>4

\* And to the end of a path once the same node is met on it.
LEMMA AlikeToEnd ==
  ASSUME NEW d, NEW e, NEW p, Len(p) \in Nat, NEW m \in 1..Len(p), Along(d, p)[m] = Along(e, p)[m]
  PROVE  NodeOf(d, p) = NodeOf(e, p)
<1> DEFINE S == {i \in 0..Len(p) : i >= m => Along(d, p)[i] = Along(e, p)[i]}
<1>1. 0 \in S
  OBVIOUS
<1>2. ASSUME NEW i \in 0..(Len(p) - 1), i \in S PROVE i + 1 \in S
  <2>1. i + 1 \in 1..Len(p) /\ (i + 1) - 1 = i /\ (i + 1 >= m => i + 1 = m \/ i >= m)
    OBVIOUS
  <2>2. Along(d, p)[i + 1] = Child(Along(d, p)[i], p[i + 1])
    BY <2>1, AlongAt
  <2>3. Along(e, p)[i + 1] = Child(Along(e, p)[i], p[i + 1])
    BY <2>1, AlongAt
  <2>4. i + 1 >= m => Along(d, p)[i + 1] = Along(e, p)[i + 1]
    BY <1>2, <2>1, <2>2, <2>3
  <2> QED
    BY <2>1, <2>4
<1>3. 0..Len(p) \subseteq S
  <2> HIDE DEF S
  <2> QED
    BY <1>1, <1>2, UpTo
<1> QED
  BY <1>3 DEF NodeOf

AnyStep == [key : Key] \cup [index : Nat \ {0}]

\* One step more leads to the child of the node.
LEMMA AppendStep ==
  ASSUME NEW doc, NEW p \in Seq(AnyStep), NEW s \in AnyStep
  PROVE  /\ Append(p, s) \in Seq(AnyStep) /\ Len(Append(p, s)) = Len(p) + 1
         /\ \A i \in 1..Len(p) : Append(p, s)[i] = p[i]
         /\ Append(p, s)[Len(p) + 1] = s
         /\ \A i \in 0..Len(p) : Along(doc, Append(p, s))[i] = Along(doc, p)[i]
         /\ NodeOf(doc, Append(p, s)) = Child(NodeOf(doc, p), s)
<1> DEFINE q == Append(p, s)
<1>1. /\ q \in Seq(AnyStep) /\ Len(q) = Len(p) + 1 /\ Len(p) \in Nat
      /\ (\A i \in 1..Len(p) : q[i] = p[i]) /\ q[Len(p) + 1] = s
  BY AppendProperties, LenProperties
<1> HIDE DEF q
<1>2. ASSUME NEW i \in 0..Len(p) PROVE Along(doc, q)[i] = Along(doc, p)[i]
  <2>1. Len(q) \in Nat /\ i \in Nat /\ i <= Len(q) /\ i <= Len(p) /\ \A j \in 1..i : q[j] = p[j]
    BY <1>1
  <2> QED
    BY <1>1, <2>1, AlikeUpTo
<1>3. Along(doc, q)[Len(q)] = Child(Along(doc, q)[Len(q) - 1], q[Len(q)])
  BY <1>1, AlongAt
<1>4. Len(q) - 1 = Len(p)
  BY <1>1
<1>5. NodeOf(doc, q) = Child(NodeOf(doc, p), s)
  BY <1>1, <1>2, <1>3, <1>4 DEF NodeOf
<1> QED
  BY <1>1, <1>2, <1>5 DEF q

-----------------------------------------------------------------------------
\* A container in which a child can be set, and what that does to it.
Opens(v, s) ==
  /\ s \in AnyStep
  /\ IF IsKey(s) THEN v = ObjectValue(v.members) /\ IsMap(v.members)
     ELSE v = ArrayValue(v.elements) /\ IsSeq(v.elements) /\ s.index \in DOMAIN v.elements

\* A step has a key or an index, and nothing else.
LEMMA StepIs ==
  \A s \in AnyStep : IF IsKey(s) THEN s.key \in Key /\ s = [key |-> s.key]
                     ELSE s.index \in Nat \ {0} /\ s = [index |-> s.index]
  BY DEF AnyStep, IsKey

\* Any sequence is one of its own elements.
LEMMA SeqIs ==
  ASSUME NEW S, NEW e \in Seq(S)
  PROVE  IsSeq(e) /\ ToSet(e) \subseteq S
<1>1. Len(e) \in Nat /\ DOMAIN e = 1..Len(e) /\ e = [i \in 1..Len(e) |-> e[i]]
      /\ \A i \in 1..Len(e) : e[i] \in S
  BY LenProperties, ElementOfSeq
<1>2. e \in [1..Len(e) -> ToSet(e)]
  BY <1>1 DEF ToSet
<1> QED
  BY <1>1, <1>2 DEF IsSeq, ToSet

\* A child that was set is read back, the others stay, setting it once more forgets
\* the first time, and setting it to what it was changes nothing.
LEMMA ChildSet ==
  ASSUME NEW v, NEW s, NEW c, Opens(v, s)
  PROVE  /\ Child(SetChild(v, s, c), s) = c
         /\ Opens(SetChild(v, s, c), s)
         /\ \A d : SetChild(SetChild(v, s, c), s, d) = SetChild(v, s, d)
         /\ s \in Steps(v) => SetChild(v, s, Child(v, s)) = v
         /\ \A r \in Steps(v) : r # s => Child(SetChild(v, s, c), r) = Child(v, r)
<1> DEFINE w == SetChild(v, s, c)
<1>1. CASE IsKey(s)
  <2> DEFINE m == v.members
             n == Over(Member(s.key, c), m)
  <2>1. v = ObjectValue(m) /\ IsMap(m) /\ s \in AnyStep /\ s = [key |-> s.key]
    BY <1>1, StepIs DEF Opens
  <2>2. \A x, d : SetChild(ObjectValue(x), s, d) = ObjectValue(Over(Member(s.key, d), x))
    BY <1>1 DEF SetChild, ObjectValue
  <2>3. \A x, d : LET y == Over(Member(s.key, d), x)
                  IN  /\ IsMap(y) /\ DOMAIN y = DOMAIN x \cup {s.key} /\ y[s.key] = d
                      /\ \A k \in DOMAIN x : k # s.key => y[k] = x[k]
    BY DEF Over, Member, IsMap
  <2>4. w = ObjectValue(n)
    BY <2>1, <2>2
  <2>5. \A x : ObjectValue(x).members = x /\ ObjectValue(x).kind = "object"
    BY DEF ObjectValue
  <2>6. Child(w, s) = c
    BY <1>1, <2>3, <2>4, <2>5 DEF Child
  <2>7. Opens(w, s)
    BY <1>1, <2>1, <2>3, <2>4, <2>5 DEF Opens
  <2>8. ASSUME NEW d PROVE SetChild(w, s, d) = SetChild(v, s, d)
    <3>1. Over(Member(s.key, d), n) = Over(Member(s.key, d), m)
      BY DEF Over, Member
    <3> QED
      BY <2>1, <2>2, <2>4, <3>1
  <2>9. ASSUME s \in Steps(v) PROVE SetChild(v, s, Child(v, s)) = v
    <3>1. s.key \in DOMAIN m
      BY <1>1, <2>1, <2>5, <2>9 DEF Steps, IsKey
    <3>2. Child(v, s) = m[s.key]
      BY <1>1 DEF Child
    <3>3. Over(Member(s.key, m[s.key]), m) = m
      BY <2>1, <3>1 DEF Over, Member, IsMap
    <3> QED
      BY <2>1, <2>2, <3>2, <3>3
  <2>10. ASSUME NEW r \in Steps(v), r # s PROVE Child(w, r) = Child(v, r)
    <3>1. r \in [key : DOMAIN m]
      BY <2>1, <2>5 DEF Steps
    <3>2. IsKey(r) /\ r.key \in DOMAIN m /\ r.key # s.key
      BY <2>1, <2>10, <3>1 DEF IsKey
    <3> QED
      BY <2>3, <2>4, <2>5, <3>2 DEF Child
  <2> QED
    BY <2>6, <2>7, <2>8, <2>9, <2>10
<1>2. CASE ~IsKey(s)
  <2> DEFINE e == v.elements
             i == s.index
  <2>1. v = ArrayValue(e) /\ IsSeq(e) /\ i \in DOMAIN e /\ s \in AnyStep /\ s = [index |-> i]
    BY <1>2, StepIs DEF Opens
  <2>2. \A x, d : SetChild(ArrayValue(x), s, d) = ArrayValue([x EXCEPT ![i] = d])
    BY <1>2 DEF SetChild, ArrayValue
  <2>3. \A x : ArrayValue(x).elements = x /\ ArrayValue(x).kind = "array"
    BY DEF ArrayValue
  <2>4. w = ArrayValue([e EXCEPT ![i] = c])
    BY <2>1, <2>2
  <2>5. e = [k \in DOMAIN e |-> e[k]]
    BY <2>1, LenProperties DEF IsSeq
  <2>6. Child(w, s) = c
    BY <1>2, <2>1, <2>3, <2>4 DEF Child
  <2>7. Opens(w, s)
    <3> DEFINE S == ToSet(e) \cup {c}
               f == [e EXCEPT ![i] = c]
    <3>1. e \in Seq(S)
      <4>1. e \in Seq(ToSet(e)) /\ ToSet(e) \subseteq S
        BY <2>1 DEF IsSeq
      <4>2. Len(e) \in Nat /\ e \in [1..Len(e) -> ToSet(e)]
        BY <4>1, LenProperties, ElementOfSeq
      <4>3. e \in [1..Len(e) -> S]
        BY <4>1, <4>2
      <4> QED
        BY <4>2, <4>3
    <3>2. DOMAIN e = 1..Len(e)
      BY <3>1, LenProperties
    <3>3. f \in Seq(S)
      <4> HIDE DEF S
      <4>1. c \in S
        BY DEF S
      <4> QED
        BY <2>1, <3>1, <3>2, <4>1, ExceptSeq
    <3>4. IsSeq(f) /\ i \in DOMAIN f
      BY <2>1, <3>3, SeqIs
    <3> QED
      BY <1>2, <2>1, <2>3, <2>4, <3>4 DEF Opens
  <2>8. ASSUME NEW d PROVE SetChild(w, s, d) = SetChild(v, s, d)
    <3>1. [[e EXCEPT ![i] = c] EXCEPT ![i] = d] = [e EXCEPT ![i] = d]
      OBVIOUS
    <3> QED
      BY <2>1, <2>2, <2>4, <3>1
  <2>9. ASSUME s \in Steps(v) PROVE SetChild(v, s, Child(v, s)) = v
    <3>1. Child(v, s) = e[i]
      BY <1>2 DEF Child
    <3>2. [e EXCEPT ![i] = e[i]] = e
      BY <2>1, <2>5
    <3> QED
      BY <2>1, <2>2, <3>1, <3>2
  <2>10. ASSUME NEW r \in Steps(v), r # s PROVE Child(w, r) = Child(v, r)
    <3>1. r \in [index : DOMAIN e]
      BY <2>1, <2>3 DEF Steps
    <3>2. ~IsKey(r) /\ r.index \in DOMAIN e /\ r.index # i
      BY <2>1, <2>10, <3>1 DEF IsKey
    <3> QED
      BY <2>3, <2>4, <3>2 DEF Child
  <2> QED
    BY <2>6, <2>7, <2>8, <2>9, <2>10
<1> QED
  BY <1>1, <1>2

-----------------------------------------------------------------------------
\* What Replace puts in the place of the nodes on the way to a path.
IsRebuilt(new, doc, path, v) ==
  new = [i \in 0..Len(path) |->
           IF i = Len(path) THEN v ELSE SetChild(Along(doc, path)[i], path[i + 1], new[i + 1])]

\* Replace has the values that its recursion asks for, from the node upwards.
LEMMA ReplaceDef ==
  ASSUME NEW doc, NEW path, NEW v, Len(path) \in Nat
  PROVE  \E new : IsRebuilt(new, doc, path, v) /\ Replace(doc, path, v) = new[0]
<1> DEFINE n == Len(path)
           old == Along(doc, path)
           S == {m \in 0..n : \E f : f = [i \in m..n |-> IF i = n THEN v ELSE SetChild(old[i], path[i + 1], f[i + 1])]}
<1> HIDE DEF old
<1>1. n \in S
  <2>1. LET f == [i \in n..n |-> v]
        IN  f = [i \in n..n |-> IF i = n THEN v ELSE SetChild(old[i], path[i + 1], f[i + 1])]
    OBVIOUS
  <2>2. \E f : f = [i \in n..n |-> IF i = n THEN v ELSE SetChild(old[i], path[i + 1], f[i + 1])]
    BY <2>1
  <2>3. n \in 0..n
    OBVIOUS
  <2> QED
    BY <2>2, <2>3
<1>2. ASSUME NEW m \in 0..(n - 1), m + 1 \in S PROVE m \in S
  <2>1. PICK f : f = [i \in (m + 1)..n |-> IF i = n THEN v ELSE SetChild(old[i], path[i + 1], f[i + 1])]
    BY <1>2
  <2> DEFINE g == [i \in m..n |-> IF i = m THEN SetChild(old[m], path[m + 1], f[m + 1]) ELSE f[i]]
  <2>2. \A i \in (m + 1)..n : g[i] = f[i]
    OBVIOUS
  <2>3. ASSUME NEW i \in m..n
        PROVE  g[i] = IF i = n THEN v ELSE SetChild(old[i], path[i + 1], g[i + 1])
    <3>1. CASE i = m
      <4>1. g[i] = SetChild(old[i], path[i + 1], f[i + 1]) /\ i # n /\ i + 1 \in (m + 1)..n
        BY <3>1
      <4> QED
        BY <4>1, <2>2
    <3>2. CASE i # m
      <4>1. i \in (m + 1)..n /\ (i # n => i + 1 \in (m + 1)..n)
        BY <3>2
      <4>2. f[i] = IF i = n THEN v ELSE SetChild(old[i], path[i + 1], f[i + 1])
        BY <2>1, <4>1
      <4> QED
        BY <2>2, <4>1, <4>2
    <3> QED
      BY <3>1, <3>2
  <2>4. g = [i \in m..n |-> IF i = n THEN v ELSE SetChild(old[i], path[i + 1], g[i + 1])]
    <3> DEFINE h == [i \in m..n |-> IF i = n THEN v ELSE SetChild(old[i], path[i + 1], g[i + 1])]
    <3>1. \A i \in m..n : g[i] = h[i]
      <4> HIDE DEF g
      <4> QED
        BY <2>3
    <3>2. g = [i \in m..n |-> g[i]] /\ h = [i \in m..n |-> h[i]]
      OBVIOUS
    <3> HIDE DEF g, h
    <3>3. g = h
      BY <3>1, <3>2
    <3> QED
      BY <3>3 DEF h
  <2> HIDE DEF g
  <2> QED
    BY <2>4
<1>3. \E f : f = [i \in 0..n |-> IF i = n THEN v ELSE SetChild(old[i], path[i + 1], f[i + 1])]
  <2>1. 0..n \subseteq S
    <3> HIDE DEF S
    <3> QED
      BY <1>1, <1>2, DownFrom
  <2> QED
    BY <2>1
<1> DEFINE new == CHOOSE f : f = [i \in 0..n |-> IF i = n THEN v ELSE SetChild(old[i], path[i + 1], f[i + 1])]
<1>4. new = [i \in 0..n |-> IF i = n THEN v ELSE SetChild(old[i], path[i + 1], new[i + 1])]
  BY <1>3
<1>5. Replace(doc, path, v) = new[0]
  BY DEF Replace, old
<1>6. IsRebuilt(new, doc, path, v)
  <2> HIDE DEF new
  <2> QED
    BY <1>4 DEF IsRebuilt, old
<1> QED
  BY <1>5, <1>6

\* What is put together: the new node, and above it each old node with a new child.
LEMMA RebuiltAt ==
  ASSUME NEW doc, NEW path, NEW v, Len(path) \in Nat, NEW new, IsRebuilt(new, doc, path, v)
  PROVE  /\ new[Len(path)] = v
         /\ \A i \in 0..(Len(path) - 1) :
              new[i] = SetChild(Along(doc, path)[i], path[i + 1], new[i + 1])
<1>1. new[Len(path)] = v
  BY DEF IsRebuilt
<1>2. ASSUME NEW i \in 0..(Len(path) - 1)
      PROVE  new[i] = SetChild(Along(doc, path)[i], path[i + 1], new[i + 1])
  BY DEF IsRebuilt
<1> QED
  BY <1>1, <1>2

\* A path along which children can be set.
Open(doc, path) ==
  /\ path \in Seq(AnyStep)
  /\ \A i \in 0..(Len(path) - 1) : Opens(Along(doc, path)[i], path[i + 1])

\* The nodes on the way, when the one at the path has been replaced.
LEMMA ReplacedAlong ==
  ASSUME NEW doc, NEW path, NEW v, Open(doc, path), NEW new, IsRebuilt(new, doc, path, v),
         Replace(doc, path, v) = new[0]
  PROVE  \A i \in 0..Len(path) : Along(Replace(doc, path, v), path)[i] = new[i]
<1> DEFINE along == Along(Replace(doc, path, v), path)
           S == {i \in 0..Len(path) : along[i] = new[i]}
<1>0. Len(path) \in Nat
  BY LenProperties DEF Open
<1>1. 0 \in S
  BY <1>0, AlongAt
<1>2. ASSUME NEW i \in 0..(Len(path) - 1), i \in S PROVE i + 1 \in S
  <2>1. i + 1 \in 1..Len(path) /\ (i + 1) - 1 = i
    BY <1>0
  <2>2. along[i + 1] = Child(new[i], path[i + 1])
    BY <1>0, <1>2, <2>1, AlongAt
  <2>3. new[i] = SetChild(Along(doc, path)[i], path[i + 1], new[i + 1])
    BY <1>0, RebuiltAt
  <2>4. Opens(Along(doc, path)[i], path[i + 1])
    BY DEF Open
  <2>5. Child(new[i], path[i + 1]) = new[i + 1]
    BY <2>3, <2>4, ChildSet
  <2> QED
    BY <2>1, <2>2, <2>5
<1>3. 0..Len(path) \subseteq S
  <2> HIDE DEF S
  <2> QED
    BY <1>0, <1>1, <1>2, UpTo
<1> QED
  BY <1>3

\* The node that was replaced is the new one, and can be replaced again.
LEMMA ReplaceNode ==
  ASSUME NEW doc, NEW path, NEW v, Open(doc, path)
  PROVE  NodeOf(Replace(doc, path, v), path) = v /\ Open(Replace(doc, path, v), path)
<1>0. Len(path) \in Nat
  BY LenProperties DEF Open
<1>1. PICK new : IsRebuilt(new, doc, path, v) /\ Replace(doc, path, v) = new[0]
  BY <1>0, ReplaceDef
<1>2. \A i \in 0..Len(path) : Along(Replace(doc, path, v), path)[i] = new[i]
  BY <1>1, ReplacedAlong
<1>3. NodeOf(Replace(doc, path, v), path) = v
  BY <1>0, <1>1, <1>2, RebuiltAt DEF NodeOf
<1>4. ASSUME NEW i \in 0..(Len(path) - 1)
      PROVE  Opens(Along(Replace(doc, path, v), path)[i], path[i + 1])
  <2>1. new[i] = SetChild(Along(doc, path)[i], path[i + 1], new[i + 1])
    BY <1>0, <1>1, RebuiltAt
  <2>2. Opens(Along(doc, path)[i], path[i + 1])
    BY DEF Open
  <2>3. Opens(new[i], path[i + 1])
    BY <2>1, <2>2, ChildSet
  <2>4. i \in 0..Len(path)
    BY <1>0
  <2> QED
    BY <1>2, <2>3, <2>4
<1> QED
  BY <1>3, <1>4 DEF Open

\* The last replacement counts.
LEMMA ReplaceTwice ==
  ASSUME NEW doc, NEW path, NEW v, NEW w, Open(doc, path)
  PROVE  Replace(Replace(doc, path, v), path, w) = Replace(doc, path, w)
<1> DEFINE mid == Replace(doc, path, v)
<1>0. Len(path) \in Nat
  BY LenProperties DEF Open
<1>1. PICK one : IsRebuilt(one, doc, path, v) /\ mid = one[0]
  BY <1>0, ReplaceDef
<1>2. \A i \in 0..Len(path) : Along(mid, path)[i] = one[i]
  BY <1>1, ReplacedAlong
<1> HIDE DEF mid
<1>3. PICK two : IsRebuilt(two, mid, path, w) /\ Replace(mid, path, w) = two[0]
  BY <1>0, ReplaceDef
<1>4. PICK new : IsRebuilt(new, doc, path, w) /\ Replace(doc, path, w) = new[0]
  BY <1>0, ReplaceDef
<1> DEFINE S == {i \in 0..Len(path) : two[i] = new[i]}
<1>5. Len(path) \in S
  <2>1. two[Len(path)] = w
    BY <1>0, <1>3, RebuiltAt
  <2>2. new[Len(path)] = w
    BY <1>0, <1>4, RebuiltAt
  <2> QED
    BY <1>0, <2>1, <2>2
<1>6. ASSUME NEW i \in 0..(Len(path) - 1), i + 1 \in S PROVE i \in S
  <2>1. two[i] = SetChild(Along(mid, path)[i], path[i + 1], two[i + 1])
    BY <1>0, <1>3, RebuiltAt
  <2>2. new[i] = SetChild(Along(doc, path)[i], path[i + 1], new[i + 1])
    BY <1>0, <1>4, RebuiltAt
  <2>3. Along(mid, path)[i] = SetChild(Along(doc, path)[i], path[i + 1], one[i + 1])
    <3>1. one[i] = SetChild(Along(doc, path)[i], path[i + 1], one[i + 1])
      BY <1>0, <1>1, RebuiltAt
    <3>2. i \in 0..Len(path)
      BY <1>0
    <3> QED
      BY <1>2, <3>1, <3>2
  <2>4. Opens(Along(doc, path)[i], path[i + 1])
    BY DEF Open
  <2>5. \A c, d : SetChild(SetChild(Along(doc, path)[i], path[i + 1], c), path[i + 1], d)
                    = SetChild(Along(doc, path)[i], path[i + 1], d)
    BY <2>4, ChildSet
  <2>6. two[i + 1] = new[i + 1] /\ i \in 0..Len(path)
    BY <1>0, <1>6
  <2>7. two[i] = new[i]
    BY <2>1, <2>2, <2>3, <2>5, <2>6
  <2> QED
    BY <2>6, <2>7
<1>7. 0..Len(path) \subseteq S
  <2> HIDE DEF S
  <2> QED
    BY <1>0, <1>5, <1>6, DownFrom
<1>8. two[0] = new[0]
  BY <1>0, <1>7
<1> QED
  BY <1>3, <1>4, <1>8 DEF mid

\* Putting back what is there changes nothing.
LEMMA ReplaceSame ==
  ASSUME NEW doc, NEW path, Open(doc, path), Reaches(doc, path)
  PROVE  Replace(doc, path, NodeOf(doc, path)) = doc
<1> DEFINE v == NodeOf(doc, path)
<1>0. Len(path) \in Nat /\ DOMAIN path = 1..Len(path)
  BY LenProperties DEF Open
<1>1. PICK new : IsRebuilt(new, doc, path, v) /\ Replace(doc, path, v) = new[0]
  BY <1>0, ReplaceDef
<1> DEFINE S == {i \in 0..Len(path) : new[i] = Along(doc, path)[i]}
<1>2. Len(path) \in S
  BY <1>0, <1>1, RebuiltAt DEF NodeOf
<1>3. ASSUME NEW i \in 0..(Len(path) - 1), i + 1 \in S PROVE i \in S
  <2>1. new[i] = SetChild(Along(doc, path)[i], path[i + 1], new[i + 1])
    BY <1>0, <1>1, RebuiltAt
  <2>2. i + 1 \in 1..Len(path) /\ (i + 1) - 1 = i /\ i \in 0..Len(path)
    BY <1>0
  <2>3. Along(doc, path)[i + 1] = Child(Along(doc, path)[i], path[i + 1])
    BY <1>0, <2>2, AlongAt
  <2>4. Opens(Along(doc, path)[i], path[i + 1])
    BY DEF Open
  <2>5. path[i + 1] \in Steps(Along(doc, path)[i])
    BY <1>0, <2>2 DEF Reaches
  <2>6. SetChild(Along(doc, path)[i], path[i + 1], Child(Along(doc, path)[i], path[i + 1]))
          = Along(doc, path)[i]
    BY <2>4, <2>5, ChildSet
  <2>7. new[i + 1] = Along(doc, path)[i + 1]
    BY <1>3
  <2>8. new[i] = Along(doc, path)[i]
    BY <2>1, <2>3, <2>6, <2>7
  <2> QED
    BY <2>2, <2>8
<1>4. 0..Len(path) \subseteq S
  <2> HIDE DEF S
  <2> QED
    BY <1>0, <1>2, <1>3, DownFrom
<1>5. new[0] = doc
  BY <1>0, <1>4, AlongAt
<1> QED
  BY <1>1, <1>5

\* Setting a child of a node is replacing the node.
LEMMA ReplaceChild ==
  ASSUME NEW doc, NEW path \in Seq(AnyStep), NEW s \in AnyStep, NEW c
  PROVE  Replace(doc, Append(path, s), c) = Replace(doc, path, SetChild(NodeOf(doc, path), s, c))
<1> DEFINE far == Append(path, s)
           n == Len(path)
           v == SetChild(NodeOf(doc, path), s, c)
<1>0. /\ n \in Nat /\ far \in Seq(AnyStep) /\ Len(far) = n + 1
      /\ (\A i \in 1..n : far[i] = path[i]) /\ far[n + 1] = s
      /\ \A i \in 0..n : Along(doc, far)[i] = Along(doc, path)[i]
  BY AppendStep, LenProperties
<1> HIDE DEF far, n
<1>1. PICK two : IsRebuilt(two, doc, far, c) /\ Replace(doc, far, c) = two[0]
  BY <1>0, ReplaceDef
<1>2. PICK one : IsRebuilt(one, doc, path, v) /\ Replace(doc, path, v) = one[0]
  BY <1>0, ReplaceDef DEF n
<1>3. one[n] = v /\ \A i \in 0..(n - 1) : one[i] = SetChild(Along(doc, path)[i], path[i + 1], one[i + 1])
  <2>1. one[Len(path)] = v
    BY <1>0, <1>2, RebuiltAt DEF n
  <2>2. \A i \in 0..(Len(path) - 1) : one[i] = SetChild(Along(doc, path)[i], path[i + 1], one[i + 1])
    <3> HIDE DEF v
    <3>1. Len(path) \in Nat
      BY <1>0 DEF n
    <3> QED
      BY <1>2, <3>1, RebuiltAt
  <2> QED
    BY <2>1, <2>2 DEF n
<1>4. two[n + 1] = c /\ \A i \in 0..n : two[i] = SetChild(Along(doc, far)[i], far[i + 1], two[i + 1])
  <2>1. Len(far) \in Nat /\ Len(far) - 1 = n
    BY <1>0
  <2>2. two[Len(far)] = c
    BY <1>1, <2>1 DEF IsRebuilt
  <2>3. \A i \in 0..(Len(far) - 1) : two[i] = SetChild(Along(doc, far)[i], far[i + 1], two[i + 1])
    BY <1>1, <2>1, RebuiltAt
  <2> QED
    BY <1>0, <2>1, <2>2, <2>3
<1> DEFINE S == {i \in 0..n : two[i] = one[i]}
<1>5. n \in S
  <2>1. two[n] = SetChild(Along(doc, far)[n], far[n + 1], two[n + 1])
    BY <1>0, <1>4
  <2>2. two[n] = SetChild(Along(doc, path)[n], s, c)
    BY <1>0, <1>4, <2>1
  <2>3. one[n] = SetChild(Along(doc, path)[n], s, c)
    BY <1>3 DEF n, NodeOf
  <2> QED
    BY <1>0, <2>2, <2>3
<1>6. ASSUME NEW i \in 0..(n - 1), i + 1 \in S PROVE i \in S
  <2>1. i \in 0..n /\ i + 1 \in 1..n
    BY <1>0
  <2>2. two[i] = SetChild(Along(doc, path)[i], path[i + 1], two[i + 1])
    BY <1>0, <1>4, <2>1
  <2>3. two[i] = one[i]
    BY <1>3, <1>6, <2>2
  <2> QED
    BY <2>1, <2>3
<1>7. 0..n \subseteq S
  <2> HIDE DEF S
  <2> QED
    BY <1>0, <1>5, <1>6, DownFrom
<1>8. two[0] = one[0]
  BY <1>0, <1>7
<1> QED
  BY <1>1, <1>2, <1>8 DEF far

-----------------------------------------------------------------------------
\* Prefixes, step by step.
LEMMA PrefixIs ==
  ASSUME NEW p \in Seq(AnyStep), NEW q \in Seq(AnyStep)
  PROVE  IsPrefix(q, p) <=> Len(q) <= Len(p) /\ \A i \in 1..Len(q) : p[i] = q[i]
<1>0. Len(p) \in Nat /\ Len(q) \in Nat
  BY LenProperties
<1>1. ASSUME Len(q) <= Len(p)
      PROVE  SubSeq(q, 1, Len(q)) = SubSeq(p, 1, Len(q)) <=> \A i \in 1..Len(q) : p[i] = q[i]
  <2> DEFINE a == SubSeq(q, 1, Len(q))
             b == SubSeq(p, 1, Len(q))
             n == Len(q)
  <2>1. n \in Nat /\ n <= Len(p)
    BY <1>0, <1>1
  <2>2. a \in Seq(AnyStep) /\ Len(a) = n /\ \A i \in 1..n : a[i] = q[i]
    BY <1>0, SubSeqProperties
  <2>3. b \in Seq(AnyStep) /\ Len(b) = n /\ \A i \in 1..n : b[i] = p[i]
    BY <1>0, <1>1, SubSeqProperties
  <2> HIDE DEF a, b, n
  <2>4. a = [i \in 1..n |-> a[i]] /\ b = [i \in 1..n |-> b[i]]
    BY <2>2, <2>3, LenProperties
  <2>5. a = b <=> \A i \in 1..n : a[i] = b[i]
    BY <2>4
  <2>6. a = b <=> \A i \in 1..n : p[i] = q[i]
    BY <2>2, <2>3, <2>5
  <2> QED
    BY <2>6 DEF a, b, n
<1> QED
  BY <1>1 DEF IsPrefix

\* A node that neither is the one replaced nor contains it stays what it was;
\* if it is contained in it, that child of the node replaced has to stay.
LEMMA NodeStays ==
  ASSUME NEW doc, NEW t, NEW p, NEW w, Open(doc, t), Reaches(doc, t), Reaches(doc, p),
         p \in Seq(AnyStep), ~IsPrefix(p, t),
         IsPrefix(t, p) => Child(w, p[Len(t) + 1]) = Child(NodeOf(doc, t), p[Len(t) + 1])
  PROVE  NodeOf(Replace(doc, t, w), p) = NodeOf(doc, p)
<1> DEFINE doc2 == Replace(doc, t, w)
<1>0. /\ t \in Seq(AnyStep) /\ Len(t) \in Nat /\ Len(p) \in Nat
      /\ DOMAIN p = 1..Len(p) /\ DOMAIN t = 1..Len(t)
  BY LenProperties DEF Open
<1>1. \E d \in 1..Len(p) : Along(doc2, p)[d] = Along(doc, p)[d]
  <2>1. CASE IsPrefix(t, p)
    <3>1. Len(t) <= Len(p) /\ \A i \in 1..Len(t) : p[i] = t[i]
      BY <1>0, <2>1, PrefixIs
    <3>2. Len(t) < Len(p)
      BY <1>0, <3>1, PrefixIs
    <3> DEFINE n == Len(t)
    <3>3. n \in Nat /\ n <= Len(p) /\ n <= Len(t) /\ n + 1 \in 1..Len(p) /\ (n + 1) - 1 = n
      BY <1>0, <3>2
    <3>4. Along(doc, p)[n] = NodeOf(doc, t)
      BY <1>0, <3>1, <3>3, AlikeUpTo DEF NodeOf
    <3>5. Along(doc2, p)[n] = w
      <4>1. NodeOf(doc2, t) = w
        BY ReplaceNode
      <4> HIDE DEF doc2
      <4>2. Along(doc2, p)[n] = Along(doc2, t)[n]
        BY <1>0, <3>1, <3>3, AlikeUpTo
      <4> QED
        BY <4>1, <4>2 DEF NodeOf
    <3> HIDE DEF doc2
    <3>6. Along(doc2, p)[n + 1] = Child(w, p[n + 1])
      BY <1>0, <3>3, <3>5, AlongAt
    <3>7. Along(doc, p)[n + 1] = Child(NodeOf(doc, t), p[n + 1])
      BY <1>0, <3>3, <3>4, AlongAt
    <3> QED
      BY <2>1, <3>3, <3>6, <3>7
  <2>2. CASE ~IsPrefix(t, p)
    <3> DEFINE D == {i \in 1..Len(p) : i <= Len(t) /\ p[i] # t[i]}
    <3>1. D # {}
      <4>1. CASE Len(t) <= Len(p)
        BY <1>0, <2>2, <4>1, PrefixIs
      <4>2. CASE Len(p) < Len(t)
        BY <1>0, <4>2, PrefixIs
      <4> QED
        BY <1>0, <4>1, <4>2
    <3>2. PICK d \in D : \A k \in D : ~(k < d)
      <4>1. D \subseteq Nat
        OBVIOUS
      <4> DEFINE R == OpToRel(<, Nat)
      <4>2. PICK d \in D : \A k \in D : ~(<<k, d>> \in R)
        <5> HIDE DEF D, R
        <5>1. IsWellFoundedOn(R, Nat)
          BY NatLessThanWellFounded DEF R
        <5> QED
          BY <3>1, <4>1, <5>1, WFMin
      <4>3. ASSUME NEW k \in D PROVE ~(k < d)
        BY <4>1, <4>2 DEF OpToRel
      <4> QED
        BY <4>3
    <3> DEFINE n == d - 1
    <3>3. /\ d \in 1..Len(p) /\ d \in 1..Len(t) /\ p[d] # t[d]
          /\ n \in Nat /\ n <= Len(p) /\ n <= Len(t) /\ n + 1 = d
          /\ \A i \in 1..n : i \in 1..Len(p) /\ i <= Len(t) /\ i < d
      BY <1>0
    <3>4. \A i \in 1..n : p[i] = t[i]
      BY <3>2, <3>3
    <3> HIDE DEF n, D
    <3>5. Along(doc, p)[n] = Along(doc, t)[n] /\ Along(doc2, p)[n] = Along(doc2, t)[n]
      BY <1>0, <3>3, <3>4, AlikeUpTo
    <3>6. PICK new : IsRebuilt(new, doc, t, w) /\ doc2 = new[0]
      BY <1>0, ReplaceDef
    <3>7. Along(doc2, t)[n] = new[n] /\ n \in 0..(Len(t) - 1)
      <4>1. n \in 0..Len(t) /\ n \in 0..(Len(t) - 1)
        BY <1>0, <3>3
      <4> QED
        BY <3>6, <4>1, ReplacedAlong
    <3> HIDE DEF doc2
    <3>8. new[n] = SetChild(Along(doc, t)[n], t[d], new[d])
      <4>1. \A i \in 0..(Len(t) - 1) : new[i] = SetChild(Along(doc, t)[i], t[i + 1], new[i + 1])
        BY <1>0, <3>6, RebuiltAt
      <4>2. new[n] = SetChild(Along(doc, t)[n], t[n + 1], new[n + 1])
        BY <3>7, <4>1
      <4> QED
        BY <3>3, <4>2
    <3>9. Opens(Along(doc, t)[n], t[d])
      BY <3>3, <3>7 DEF Open
    <3>10. p[d] \in Steps(Along(doc, t)[n])
      <4>1. d \in DOMAIN p /\ d - 1 = n
        BY <1>0, <3>3
      <4> QED
        BY <3>5, <4>1 DEF Reaches
    <3>11. Child(new[n], p[d]) = Child(Along(doc, t)[n], p[d])
      BY <3>3, <3>8, <3>9, <3>10, ChildSet
    <3>12. d - 1 = n
      BY <1>0, <3>3
    <3>13. Along(doc2, p)[d] = Child(new[n], p[d])
      BY <1>0, <3>3, <3>5, <3>7, <3>12, AlongAt
    <3>14. Along(doc, p)[d] = Child(Along(doc, t)[n], p[d])
      BY <1>0, <3>3, <3>5, <3>12, AlongAt
    <3> QED
      BY <3>3, <3>11, <3>13, <3>14
  <2> QED
    BY <2>1, <2>2
<1>2. PICK d \in 1..Len(p) : Along(doc2, p)[d] = Along(doc, p)[d]
  BY <1>1
<1> HIDE DEF doc2
<1>3. NodeOf(doc2, p) = NodeOf(doc, p)
  BY <1>0, <1>2, AlikeToEnd
<1> QED
  BY <1>3 DEF doc2

-----------------------------------------------------------------------------
\* What Documents promise: a child can be set wherever there is one.
LEMMA StepsOpen ==
  ASSUME NEW v, Shaped(v), NEW s \in Steps(v)
  PROVE  Opens(v, s)
<1>1. CASE v.kind = "object"
  <2>1. s \in [key : DOMAIN v.members]
    BY <1>1 DEF Steps
  <2>2. DOMAIN v.members \subseteq Key /\ v = ObjectValue([k \in DOMAIN v.members |-> v.members[k]])
    BY <1>1 DEF Shaped
  <2>3. IsKey(s) /\ s \in AnyStep
    BY <2>1, <2>2 DEF IsKey, AnyStep
  <2>4. v.members = [k \in DOMAIN v.members |-> v.members[k]]
    BY <2>2 DEF ObjectValue
  <2> QED
    BY <2>2, <2>3, <2>4 DEF Opens, IsMap
<1>2. CASE v.kind = "array"
  <2>1. s \in [index : DOMAIN v.elements]
    BY <1>2 DEF Steps
  <2>2. v = ArrayValue(v.elements) /\ IsSeq(v.elements)
    BY <1>2 DEF Shaped, IsSeq
  <2>3. DOMAIN v.elements = 1..Len(v.elements) /\ Len(v.elements) \in Nat
    BY <2>2, LenProperties DEF IsSeq
  <2>4. ~IsKey(s) /\ s \in AnyStep /\ s.index \in DOMAIN v.elements
    BY <2>1, <2>3 DEF IsKey, AnyStep
  <2> QED
    BY <2>2, <2>4 DEF Opens
<1> QED
  BY <1>1, <1>2 DEF Steps

\* What a caller asks for is a step.
LEMMA StepsAsked == Step \subseteq AnyStep
  BY StoreAssumption DEF Step, AnyStep, Index

\* The paths of a document a call can find lead through containers to a shaped node.
LEMMA PathsAreOpen ==
  ASSUME NEW doc \in Documents, NEW path \in PathsOf(doc)
  PROVE  /\ path \in Seq(AnyStep) /\ Open(doc, path) /\ Reaches(doc, path)
         /\ Shaped(NodeOf(doc, path))
<1>1. /\ path \in BoundedSeq(Step, Height) /\ Reaches(doc, path)
      /\ Shaped(NodeOf(doc, path))
  BY DocumentsAssumption DEF PathsOf
<1>2. PICK n \in 0..Height : path \in [1..n -> Step]
  BY <1>1 DEF BoundedSeq, SeqOf
<1>3. n \in Nat /\ n <= Height /\ Height \in Nat
  BY StoreAssumption
<1>4. path \in Seq(Step) /\ Len(path) = n
  <2>1. path \in Seq(Step)
    BY <1>2, <1>3
  <2> QED
    BY <1>2, <1>3, <2>1, LenProperties
<1>5. path \in Seq(AnyStep)
  <2>1. path \in [1..n -> AnyStep]
    BY <1>2, StepsAsked
  <2> QED
    BY <1>3, <2>1
<1>6. ASSUME NEW i \in 0..(Len(path) - 1)
      PROVE  Opens(Along(doc, path)[i], path[i + 1])
  <2> DEFINE pre == SubSeq(path, 1, i)
  <2>1. pre \in Seq(Step) /\ Len(pre) = i /\ \A j \in 1..i : pre[j] = path[j]
    <3>1. i \in Nat /\ i <= Len(path)
      BY <1>3, <1>4
    <3> QED
      BY <1>4, <3>1, SubSeqProperties
  <2> HIDE DEF pre
  <2>2. i \in 0..Height /\ pre \in [1..i -> Step]
    BY <1>3, <1>4, <2>1, LenProperties, ElementOfSeq
  <2>3. pre \in BoundedSeq(Step, Height)
    BY <2>2 DEF BoundedSeq, SeqOf
  <2>4. \A j \in 0..i : Along(doc, pre)[j] = Along(doc, path)[j]
    <3> TAKE j \in 0..i
    <3>1. j \in Nat /\ j <= Len(pre) /\ j <= Len(path) /\ \A k \in 1..j : pre[k] = path[k]
      BY <1>3, <1>4, <2>1
    <3> QED
      BY <1>3, <1>4, <2>1, <3>1, AlikeUpTo
  <2>5. Reaches(doc, pre)
    <3> SUFFICES ASSUME NEW j \in DOMAIN pre PROVE pre[j] \in Steps(Along(doc, pre)[j - 1])
      BY DEF Reaches
    <3>1. j \in 1..i /\ j - 1 \in 0..i /\ j \in DOMAIN path
      BY <1>2, <1>3, <1>4, <2>2
    <3>2. path[j] \in Steps(Along(doc, path)[j - 1])
      BY <1>1, <3>1 DEF Reaches
    <3> QED
      BY <2>1, <2>4, <3>1, <3>2
  <2>6. Shaped(Along(doc, path)[i])
    <3>1. Shaped(NodeOf(doc, pre))
      BY <2>3, <2>5, DocumentsAssumption DEF PathsOf
    <3>2. i \in 0..i
      BY <1>3, <1>4
    <3>3. NodeOf(doc, pre) = Along(doc, path)[i]
      BY <2>1, <2>4, <3>2 DEF NodeOf
    <3> QED
      BY <3>1, <3>3
  <2>7. path[i + 1] \in Steps(Along(doc, path)[i])
    <3>1. i + 1 \in DOMAIN path /\ (i + 1) - 1 = i
      BY <1>2, <1>3, <1>4
    <3> QED
      BY <1>1, <3>1 DEF Reaches
  <2> QED
    BY <2>6, <2>7, StepsOpen
<1> QED
  BY <1>1, <1>5, <1>6 DEF Open

-----------------------------------------------------------------------------
\* The parts of the invariant that say nothing of where the call has got to.
LEMMA Elsewhere ==
  /\ pc' # "assign" => Subscripted'
  /\ pc' # "push" => Pushed'
  /\ pc' # "insert" => Inserted'
  /\ pc' \notin {"returned", "threw", "undefined"} => Left'
<1>1. pc' # "assign" => Subscripted'
  BY DEF Subscripted
<1>2. pc' # "push" => Pushed'
  BY DEF Pushed
<1>3. pc' # "insert" => Inserted'
  BY DEF Inserted
<1>4. pc' \notin {"returned", "threw", "undefined"} => Left'
  BY DEF Left, MergesCopies, DefinedUnlessHazardous, ThrowKeepsDocument
<1> QED
  BY <1>1, <1>2, <1>3, <1>4

\* Before a call nothing has changed.
LEMMA InitInv == Init => IInv
<1> SUFFICES ASSUME Init PROVE IInv
  OBVIOUS
<1>1. Began /\ pc = "ready"
  BY DEF Init, Began
<1>2. Subscripted /\ Pushed /\ Inserted
  BY <1>1 DEF Subscripted, Pushed, Inserted
<1>3. Left
  BY <1>1 DEF Left, MergesCopies, DefinedUnlessHazardous, ThrowKeepsDocument
<1> QED
  BY <1>1, <1>2, <1>3 DEF IInv

\* What every call begins with.
LEMMA BegunCall ==
  ASSUME Began, NEW c, Begin(c), c.target \in Paths
  PROVE  /\ root = before /\ sources = <<>> /\ ~relocated
         /\ before' = before /\ growth' = growth /\ call' = c
         /\ c.target \in PathsOf(before)
         /\ pc' \in {"assign", "push", "insert", "returned", "threw"} /\ relocated' \in BOOLEAN => Began'
<1>1. /\ root = before /\ sources = <<>> /\ ~relocated
      /\ before' = before /\ growth' = growth /\ call' = c
  BY DEF Began, Begin
<1>2. c.target \in PathsOf(before)
  BY <1>1 DEF Paths
<1>3. growth \in Growth /\ before \in Documents
  BY DEF Began
<1>4. (pc' \in {"assign", "push", "insert", "returned", "threw"} /\ relocated' \in BOOLEAN) => Began'
  <2> SUFFICES ASSUME pc' \in {"assign", "push", "insert", "returned", "threw"}, relocated' \in BOOLEAN
               PROVE  Began'
    OBVIOUS
  <2>1. PathsOf(before)' = PathsOf(before)
    BY <1>1
  <2>2. (call.target)' \in PathsOf(before)'
    BY <1>1, <1>2, <2>1
  <2> HIDE DEF PathsOf
  <2> QED
    BY <1>1, <1>3, <2>2 DEF Began
<1> QED
  BY <1>1, <1>2, <1>4

\* A call that throws before it has changed anything.
LEMMA ThrowStep ==
  ASSUME IInv, NEW c, Begin(c), c.target \in Paths, Throw
  PROVE  IInv'
<1>1. pc' = "threw" /\ root' = root /\ relocated' = relocated
  BY DEF Throw, Settle
<1>2. root = before /\ before' = before /\ Began'
  BY <1>1, BegunCall DEF IInv, Began
<1>3. Left'
  BY <1>1, <1>2 DEF Left, MergesCopies, DefinedUnlessHazardous, ThrowKeepsDocument
<1> QED
  BY <1>1, <1>2, <1>3, Elsewhere DEF IInv

\* A call that returns at once and copies nothing.
LEMMA ReturnStep ==
  ASSUME IInv, NEW c, Begin(c), c.target \in Paths, NEW doc, Settle("returned", doc),
         c.op \notin {"push_back", "mergeArray", "mergeObject"}
  PROVE  IInv'
<1>1. pc' = "returned" /\ relocated' = relocated
  BY DEF Settle
<1>2. Began' /\ call' = c
  BY <1>1, BegunCall DEF IInv, Began
<1>3. Left'
  BY <1>1, <1>2 DEF Left, MergesCopies, DefinedUnlessHazardous, ThrowKeepsDocument
<1> QED
  BY <1>1, <1>2, <1>3, Elsewhere DEF IInv

\* The calls that are over in one step.
LEMMA AtStep ==
  ASSUME IInv, NEW target \in Paths, NEW step \in Step, At(target, step)
  PROVE  IInv'
<1> DEFINE c == [op |-> "at", target |-> target, step |-> step]
<1>1. Begin(c) /\ c.target \in Paths /\ c.op = "at"
  BY DEF At
<1>2. Settle("returned", root) \/ Throw
  BY DEF At, Throw
<1> HIDE DEF c
<1> QED
  BY <1>1, <1>2, ThrowStep, ReturnStep

LEMMA RemoveIndexStep ==
  ASSUME IInv, NEW target \in Paths, NEW index \in Index, RemoveIndex(target, index)
  PROVE  IInv'
<1> DEFINE c == [op |-> "remove", target |-> target, step |-> [index |-> index]]
           doc == With(target, [Node(target) EXCEPT !.elements = RemoveAt(@, index)])
<1>1. Begin(c) /\ c.target \in Paths /\ c.op = "remove"
  BY DEF RemoveIndex
<1>2. Settle("returned", doc) \/ Throw
  BY DEF RemoveIndex
<1> HIDE DEF c, doc
<1> QED
  BY <1>1, <1>2, ThrowStep, ReturnStep

LEMMA RemoveKeyStep ==
  ASSUME IInv, NEW target \in Paths, NEW key \in Key, RemoveKey(target, key)
  PROVE  IInv'
<1> DEFINE c == [op |-> "remove", target |-> target, step |-> [key |-> key]]
<1>1. Begin(c) /\ c.target \in Paths /\ c.op = "remove"
  BY DEF RemoveKey
<1>2. (\E doc : Settle("returned", doc)) \/ Throw
  BY DEF RemoveKey
<1> HIDE DEF c
<1> QED
  BY <1>1, <1>2, ThrowStep, ReturnStep

LEMMA ClearStep ==
  ASSUME IInv, NEW target \in Paths, Clear(target)
  PROVE  IInv'
<1> DEFINE c == [op |-> "clear", target |-> target]
           doc == With(target, Cleared(Node(target)))
<1>1. Begin(c) /\ c.target \in Paths /\ c.op = "clear" /\ Settle("returned", doc)
  BY DEF Clear
<1> HIDE DEF c, doc
<1> QED
  BY <1>1, ReturnStep

\* operator[], up to the assignment.
LEMMA SubscriptStep ==
  ASSUME IInv, NEW target \in Paths, NEW step \in Step,
         NEW held \in {<<>>} \cup {<<p>> : p \in Paths}, Subscript(target, step, held)
  PROVE  IInv'
<1> DEFINE c == [op |-> "subscript", target |-> target, step |-> step, held |-> held]
           v == Converted(Node(target), step)
<1>1. Begin(c) /\ c.target \in Paths
  BY DEF Subscript
<1>2. /\ c.op = "subscript" /\ c.target = target /\ c.step = step /\ c.held = held
  OBVIOUS
<1> HIDE DEF c
<1>3. /\ root = before /\ before' = before /\ call' = c /\ ~relocated /\ sources = <<>>
      /\ (pc' \in {"assign", "push", "insert", "returned", "threw"} /\ relocated' \in BOOLEAN => Began')
  BY <1>1, BegunCall DEF IInv
<1>4. /\ call'.op = "subscript" /\ call'.target = target /\ call'.step = step /\ call'.held = held
  BY <1>2, <1>3
<1>5. v = Converted(Was(target), step)
  BY <1>3 DEF Node, Was
<1>6. \/ Throw
      \/ Grows(v, step) /\ Settle("threw", With(target, v))
      \/ /\ Fits(v, step)
         /\ root' = With(target, Created(v, step))
         /\ relocated' \in IF Grows(v, step) THEN BOOLEAN ELSE {FALSE}
         /\ sources' = held
         /\ pc' = IF held = <<>> THEN "returned" ELSE "assign"
  BY DEF Subscript
<1> HIDE DEF v
<1>7. CASE Throw
  BY <1>1, <1>7, ThrowStep
<1>8. CASE Grows(v, step) /\ Settle("threw", With(target, v))
  <2>1. pc' = "threw" /\ root' = Replace(before, target, v) /\ relocated' = relocated
    BY <1>3, <1>8 DEF Settle, With
  <2>2. Began'
    <3>1. relocated' \in BOOLEAN
      BY <2>1 DEF IInv, Began
    <3> QED
      BY <1>3, <2>1, <3>1
  <2>3. ~IsKey(step)
    BY <1>8 DEF Grows
  <2>4. \/ v = Was(target)
        \/ Was(target) = NullValue /\ v = ArrayValue(<<>>)
    BY <1>5, <2>3 DEF Converted
  <2>5. ThrowKeepsDocument'
    <3>1. CASE v = Was(target)
      <4>1. Open(before, target) /\ Reaches(before, target)
        BY <1>3, PathsAreOpen DEF IInv, Began, Paths
      <4>2. root' = before
        BY <2>1, <3>1, <4>1, ReplaceSame DEF Was
      <4> QED
        BY <1>3, <4>2 DEF ThrowKeepsDocument
    <3>2. CASE Was(target) = NullValue /\ v = ArrayValue(<<>>)
      <4>1. Was(call.target)' = NullValue
        BY <1>3, <1>4, <3>2 DEF Was
      <4>2. root' = Replace(before', call'.target, ArrayValue(<<>>))
        BY <1>3, <1>4, <2>1, <3>2
      <4> QED
        BY <1>4, <2>3, <4>1, <4>2 DEF ThrowKeepsDocument
    <3> QED
      BY <2>4, <3>1, <3>2
  <2>6. Left'
    BY <2>1, <2>5 DEF Left, MergesCopies, DefinedUnlessHazardous
  <2> QED
    BY <2>1, <2>2, <2>6, Elsewhere DEF IInv
<1>9. CASE /\ Fits(v, step)
           /\ root' = With(target, Created(v, step))
           /\ relocated' \in IF Grows(v, step) THEN BOOLEAN ELSE {FALSE}
           /\ sources' = held
           /\ pc' = IF held = <<>> THEN "returned" ELSE "assign"
  <2>1. relocated' \in BOOLEAN /\ (relocated' => Grows(v, step))
    BY <1>9
  <2>2. Began'
    BY <1>3, <1>9, <2>1
  <2>3. CASE held = <<>>
    <3>1. pc' = "returned"
      BY <1>9, <2>3
    <3>2. Left'
      BY <1>4, <3>1 DEF Left, MergesCopies, DefinedUnlessHazardous, ThrowKeepsDocument
    <3> QED
      BY <2>2, <3>1, <3>2, Elsewhere DEF IInv
  <2>4. CASE held # <<>>
    <3>1. pc' = "assign"
      BY <1>9, <2>4
    <3>2. PICK p \in PathsOf(before) : held = <<p>>
      BY <1>3, <2>4 DEF Paths
    <3>3. Subscripted'
      <4>1. Converted(Was(call.target), call.step)' = v
        BY <1>3, <1>4, <1>5 DEF Was
      <4>2. p \in PathsOf(before)' /\ sources' = <<p>> /\ call'.held = <<p>>
        BY <1>3, <1>4, <1>9, <3>2
      <4>3. Fits(v, call'.step) /\ (relocated' => Grows(v, call'.step))
        BY <1>4, <1>9, <2>1
      <4>4. root' = Replace(before', call'.target, Created(v, call'.step))
        BY <1>3, <1>4, <1>9 DEF With
      <4> QED
        BY <1>4, <4>1, <4>2, <4>3, <4>4 DEF Subscripted
    <3> QED
      BY <2>2, <3>1, <3>3, Elsewhere DEF IInv
  <2> QED
    BY <2>3, <2>4
<1> QED
  BY <1>6, <1>7, <1>8, <1>9

\* While a call runs, its target is a node of the document of the call.
LEMMA TargetIs ==
  ASSUME IInv, pc # "ready"
  PROVE  /\ before \in Documents /\ call.target \in PathsOf(before)
         /\ call.target \in Seq(AnyStep) /\ Len(call.target) \in Nat
         /\ Open(before, call.target) /\ Reaches(before, call.target)
         /\ Shaped(Was(call.target))
<1>1. before \in Documents /\ call.target \in PathsOf(before)
  BY DEF IInv, Began
<1>2. /\ call.target \in Seq(AnyStep) /\ Open(before, call.target) /\ Reaches(before, call.target)
      /\ Shaped(NodeOf(before, call.target))
  BY <1>1, PathsAreOpen
<1> QED
  BY <1>1, <1>2, LenProperties DEF Was

\* A call that goes on leaves what was settled when it began.
LEMMA BegunStill ==
  ASSUME IInv, pc # "ready", UNCHANGED <<growth, call, before>>,
         pc' \in {"assign", "push", "insert", "returned", "threw", "undefined"}, relocated' \in BOOLEAN
  PROVE  Began'
<1>1. growth' = growth /\ call' = call /\ before' = before
  OBVIOUS
<1>2. growth \in Growth /\ before \in Documents /\ call.target \in PathsOf(before)
  BY DEF IInv, Began
<1>3. (call.target)' \in PathsOf(before)'
  BY <1>1, <1>2
<1> HIDE DEF PathsOf
<1> QED
  BY <1>1, <1>2, <1>3 DEF Began

\* Where a call ends without a defined outcome.
LEMMA UndefinedStep ==
  ASSUME IInv, pc \in {"assign", "push", "insert"}, UNCHANGED <<growth, call, before>>,
         Settle("undefined", root), Hazardous
  PROVE  IInv'
<1>1. pc' = "undefined" /\ relocated' = relocated
  BY DEF Settle
<1>2. Began'
  <2>1. relocated' \in BOOLEAN
    BY <1>1 DEF IInv, Began
  <2> QED
    BY <1>1, <2>1, BegunStill
<1>3. Hazardous'
  <2>1. growth' = growth /\ call' = call /\ before' = before
    OBVIOUS
  <2> QED
    BY <2>1 DEF Hazardous, Was
<1>4. Left'
  BY <1>1, <1>3 DEF Left, MergesCopies, DefinedUnlessHazardous, ThrowKeepsDocument
<1> QED
  BY <1>1, <1>2, <1>4, Elsewhere DEF IInv

\* The assignment: a value that is read too late makes the call hazardous.
LEMMA AssignStep ==
  ASSUME IInv, Assign
  PROVE  IInv'
<1> DEFINE slot == Append(call.target, call.step)
           p == Head(sources)
<1>0. pc = "assign" /\ UNCHANGED <<growth, call, before>>
  BY DEF Assign
<1>1. PICK q \in PathsOf(before) : sources = <<q>> /\ call.held = <<q>>
  BY <1>0 DEF IInv, Subscripted
<1>2. /\ call.op = "subscript" /\ call.step \in Step
      /\ relocated => Grows(Converted(Was(call.target), call.step), call.step)
  BY <1>0 DEF IInv, Subscripted
<1>3. p = q
  BY <1>1
<1>4. (\E doc : Settle("returned", doc)) \/ (Settle("undefined", root) /\ (Dangling(p) \/ SelfAssigns(slot, p)))
  BY DEF Assign
<1> HIDE DEF p
<1>5. ASSUME NEW doc, Settle("returned", doc) PROVE IInv'
  <2>1. pc' = "returned" /\ relocated' = relocated
    BY <1>5 DEF Settle
  <2>2. relocated' \in BOOLEAN
    BY <2>1 DEF IInv, Began
  <2>3. Began'
    BY <1>0, <2>1, <2>2, BegunStill
  <2>4. Left'
    BY <1>0, <1>2, <2>1 DEF Left, MergesCopies, DefinedUnlessHazardous, ThrowKeepsDocument
  <2> QED
    BY <2>1, <2>3, <2>4, Elsewhere DEF IInv
<1>6. ASSUME Settle("undefined", root), Dangling(p) \/ SelfAssigns(slot, p) PROVE IInv'
  <2>1. q \in ToSet(call.held)
    BY <1>1 DEF ToSet
  <2>2. CASE Dangling(p)
    <3>1. relocated /\ Inside(q, call.target)
      BY <1>3, <2>2 DEF Dangling
    <3>2. Grows(Converted(Was(call.target), call.step), call.step)
      BY <1>2, <3>1
    <3>3. ~IsKey(call.step)
      BY <3>2 DEF Grows
    <3>4. call.step \notin Steps(Was(call.target))
      <4> SUFFICES ASSUME call.step \in Steps(Was(call.target)) PROVE FALSE
        OBVIOUS
      <4>1. Was(call.target).kind = "array" /\ call.step.index \in DOMAIN Was(call.target).elements
        BY <3>3 DEF Steps, IsKey
      <4>2. Was(call.target) # NullValue
        BY <4>1 DEF NullValue
      <4>3. call.step.index > Len(Was(call.target).elements)
        BY <3>2, <4>2 DEF Grows, Converted
      <4>4. Was(call.target).elements \in Seq(ToSet(Was(call.target).elements))
        BY <1>0, <4>1, TargetIs DEF Shaped
      <4> QED
        BY <4>1, <4>3, <4>4, LenProperties
    <3>5. Hazardous
      BY <1>2, <2>1, <3>1, <3>3, <3>4 DEF Hazardous
    <3> QED
      BY <1>0, <1>6, <3>5, UndefinedStep
  <2>3. CASE SelfAssigns(slot, p)
    <3>1. Nested(q, slot)
      BY <1>3, <2>3 DEF SelfAssigns, Nested
    <3>2. Hazardous
      BY <1>2, <2>1, <3>1 DEF Hazardous
    <3> QED
      BY <1>0, <1>6, <3>2, UndefinedStep
  <2> QED
    BY <1>6, <2>2, <2>3
<1> QED
  BY <1>4, <1>5, <1>6

\* The steps out of a container.
LEMMA StepsAre ==
  \A x : Steps(ObjectValue(x)) = [key : DOMAIN x] /\ Steps(ArrayValue(x)) = [index : DOMAIN x]
<1>1. ASSUME NEW x PROVE Steps(ObjectValue(x)) = [key : DOMAIN x]
  <2>1. ObjectValue(x).kind = "object" /\ ObjectValue(x).members = x
    BY DEF ObjectValue
  <2> QED
    BY <2>1 DEF Steps
<1>2. ASSUME NEW x PROVE Steps(ArrayValue(x)) = [index : DOMAIN x]
  <2>1. ArrayValue(x).kind = "array" /\ ArrayValue(x).elements = x
    BY DEF ArrayValue
  <2> QED
    BY <2>1 DEF Steps
<1> QED
  BY <1>1, <1>2

\* What operator[] returns a reference to is there.
LEMMA CreatedIsThere ==
  ASSUME NEW v, NEW step \in Step, Shaped(v) \/ v = NullValue, Fits(Converted(v, step), step)
  PROVE  step \in Steps(Created(Converted(v, step), step))
<1> DEFINE w == Converted(v, step)
<1>0. step \in AnyStep
  BY StepsAsked
<1>1. CASE IsKey(step)
  <2>1. step = [key |-> step.key]
    BY <1>0, <1>1, StepIs
  <2>2. w.kind = "object"
    BY <1>1 DEF Fits
  <2>3. w = ObjectValue(w.members)
    <3>1. CASE v = NullValue
      BY <1>1, <3>1 DEF Converted, ObjectValue
    <3>2. CASE v # NullValue
      <4>1. w = v
        BY <3>2 DEF Converted
      <4>2. v = ObjectValue([k \in DOMAIN v.members |-> v.members[k]])
        BY <2>2, <3>2, <4>1 DEF Shaped
      <4> HIDE DEF w
      <4> QED
        BY <4>1, <4>2 DEF ObjectValue
    <3> QED
      BY <3>1, <3>2
  <2> HIDE DEF w
  <2>4. Created(w, step) = ObjectValue(Over(w.members, Member(step.key, NullValue)))
    BY <1>1, <2>3 DEF Created, ObjectValue
  <2>5. step.key \in DOMAIN Over(w.members, Member(step.key, NullValue))
    BY DEF Over, Member
  <2>6. Steps(Created(w, step)) = [key : DOMAIN Over(w.members, Member(step.key, NullValue))]
    BY <2>4, StepsAre
  <2>7. step \in Steps(Created(w, step))
    BY <2>1, <2>5, <2>6
  <2> QED
    BY <2>7 DEF w
<1>2. CASE ~IsKey(step)
  <2>1. step = [index |-> step.index] /\ step.index \in Nat \ {0}
    BY <1>0, <1>2, StepIs
  <2>2. w.kind = "array"
    BY <1>2 DEF Fits
  <2>3. w = ArrayValue(w.elements) /\ IsSeq(w.elements)
    <3>1. CASE v = NullValue
      <4>1. w = ArrayValue(<<>>)
        BY <1>2, <3>1 DEF Converted
      <4>2. IsSeq(<<>>)
        BY DEF IsSeq
      <4> HIDE DEF w
      <4> QED
        BY <4>1, <4>2 DEF ArrayValue
    <3>2. CASE v # NullValue
      <4>1. w = v
        BY <3>2 DEF Converted
      <4> HIDE DEF w
      <4> QED
        BY <2>2, <3>2, <4>1 DEF Shaped, IsSeq
    <3> QED
      BY <3>1, <3>2
  <2> HIDE DEF w
  <2> DEFINE e == w.elements
             more == [i \in 1..(step.index - Len(e)) |-> NullValue]
  <2>4. e \in Seq(ToSet(e)) /\ Len(e) \in Nat
    BY <2>3, LenProperties DEF IsSeq
  <2>5. Created(w, step) = ArrayValue(e \o more)
    <3>1. \A x : Created(ArrayValue(x), step)
                   = ArrayValue(x \o [i \in 1..(step.index - Len(x)) |-> NullValue])
      BY <1>2 DEF Created, ArrayValue
    <3> QED
      BY <2>3, <3>1
  <2>6. step.index \in DOMAIN (e \o more)
    <3> DEFINE n == IF step.index > Len(e) THEN step.index - Len(e) ELSE 0
               S == ToSet(e) \cup {NullValue}
    <3>1. n \in Nat /\ step.index <= Len(e) + n /\ 1..(step.index - Len(e)) = 1..n
      BY <2>1, <2>4
    <3>2. more \in [1..n -> S] /\ more = [i \in 1..n |-> NullValue]
      BY <3>1
    <3>3. more \in Seq(S) /\ Len(more) = n
      <4> HIDE DEF n, more, S
      <4>1. more \in Seq(S)
        BY <3>1, <3>2
      <4> QED
        BY <3>1, <3>2, <4>1, LenProperties
    <3>4. e \in Seq(S)
      <4>1. e \in [1..Len(e) -> ToSet(e)]
        BY <2>4, LenProperties, ElementOfSeq
      <4>2. e \in [1..Len(e) -> S]
        BY <4>1
      <4> QED
        BY <2>4, <4>2
    <3> HIDE DEF n, more, S, e
    <3>5. e \o more \in Seq(S) /\ Len(e \o more) = Len(e) + n
      BY <3>3, <3>4, ConcatProperties
    <3>6. DOMAIN (e \o more) = 1..(Len(e) + n)
      BY <3>5, LenProperties
    <3> QED
      BY <2>1, <2>4, <3>1, <3>6
  <2> HIDE DEF more, e
  <2>7. Steps(Created(w, step)) = [index : DOMAIN (e \o more)]
    BY <2>5, StepsAre
  <2>8. step \in Steps(Created(w, step))
    BY <2>1, <2>6, <2>7
  <2> QED
    BY <2>8 DEF w
<1> QED
  BY <1>1, <1>2

\* The invariant has the types, and the places that are assigned to are there.
LEMMA TypesHold ==
  ASSUME IInv
  PROVE  TypeOK
<1>1. /\ pc \in {"ready", "assign", "push", "insert", "returned", "threw", "undefined"}
      /\ growth \in Growth /\ relocated \in BOOLEAN
  BY DEF IInv, Began
<1>2. ASSUME pc = "assign" PROVE call.step \in Steps(Node(call.target))
  <2> DEFINE v == Converted(Was(call.target), call.step)
  <2>1. /\ call.step \in Step /\ Fits(v, call.step)
        /\ root = Replace(before, call.target, Created(v, call.step))
    BY <1>2 DEF IInv, Subscripted
  <2>2. Open(before, call.target) /\ Shaped(Was(call.target))
    BY <1>2, TargetIs
  <2>3. call.step \in Steps(Created(v, call.step))
    BY <2>1, <2>2, CreatedIsThere
  <2> HIDE DEF v
  <2>4. Node(call.target) = Created(v, call.step)
    BY <2>1, <2>2, ReplaceNode DEF Node
  <2> QED
    BY <2>3, <2>4
<1>3. ASSUME pc = "push" PROVE Node(call.target).kind = "array"
  <2>1. Node(call.target) = ArrayValue(Node(call.target).elements)
    BY <1>3 DEF IInv, Pushed
  <2> QED
    BY <2>1 DEF ArrayValue
<1>4. ASSUME pc = "insert" PROVE Node(call.target).kind = "object"
  <2>1. Node(call.target) = ObjectValue(Node(call.target).members)
    BY <1>4 DEF IInv, Inserted
  <2> QED
    BY <2>1 DEF ObjectValue
<1> QED
  BY <1>1, <1>2, <1>3, <1>4 DEF TypeOK

-----------------------------------------------------------------------------
\* A path and one step more.
LEMMA ReachFurther ==
  ASSUME NEW doc, NEW path \in Seq(AnyStep), Reaches(doc, path), NEW s \in AnyStep,
         s \in Steps(NodeOf(doc, path))
  PROVE  Reaches(doc, Append(path, s))
<1> DEFINE far == Append(path, s)
           n == Len(path)
<1>0. /\ n \in Nat /\ far \in Seq(AnyStep) /\ Len(far) = n + 1
      /\ (\A i \in 1..n : far[i] = path[i]) /\ far[n + 1] = s
      /\ \A i \in 0..n : Along(doc, far)[i] = Along(doc, path)[i]
  BY AppendStep, LenProperties
<1>1. DOMAIN far = 1..(n + 1) /\ DOMAIN path = 1..n
  BY <1>0, LenProperties
<1>2. Along(doc, path)[n] = NodeOf(doc, path)
  BY DEF NodeOf
<1> HIDE DEF far, n
<1>3. ASSUME NEW i \in 1..(n + 1) PROVE far[i] \in Steps(Along(doc, far)[i - 1])
  <2>1. i - 1 \in 0..n /\ i \in Nat
    BY <1>0
  <2>2. Along(doc, far)[i - 1] = Along(doc, path)[i - 1]
    BY <1>0, <2>1
  <2>3. CASE i = n + 1
    <3>1. i - 1 = n
      BY <1>0, <2>3
    <3> QED
      BY <1>0, <1>2, <2>2, <2>3, <3>1
  <2>4. CASE i # n + 1
    <3>1. i \in 1..n
      BY <1>0, <2>4
    <3>2. path[i] \in Steps(Along(doc, path)[i - 1])
      BY <1>1, <3>1 DEF Reaches
    <3> QED
      BY <1>0, <2>2, <3>1, <3>2
  <2> QED
    BY <2>3, <2>4
<1> QED
  BY <1>1, <1>3 DEF Reaches, far

\* The elements of an array, and the paths that lead to them.
LEMMA ElementsAre ==
  ASSUME NEW doc \in Documents, NEW other \in PathsOf(doc), NodeOf(doc, other).kind = "array"
  PROVE  LET e == NodeOf(doc, other).elements
             refs == [i \in DOMAIN e |-> Append(other, [index |-> i])]
         IN  /\ IsSeq(e) /\ refs \in Seq(Seq(AnyStep)) /\ Len(refs) = Len(e)
             /\ \A i \in 1..Len(e) :
                  /\ refs[i] = Append(other, [index |-> i])
                  /\ Len(refs[i]) = Len(other) + 1
                  /\ Reaches(doc, refs[i]) /\ NodeOf(doc, refs[i]) = e[i]
<1> DEFINE v == NodeOf(doc, other)
           e == v.elements
           refs == [i \in DOMAIN e |-> Append(other, [index |-> i])]
<1>1. other \in Seq(AnyStep) /\ Reaches(doc, other) /\ Shaped(v)
  BY PathsAreOpen
<1>2. v.kind = "array" /\ v = ArrayValue(e) /\ IsSeq(e)
  BY <1>1 DEF Shaped, IsSeq
<1>3. DOMAIN e = 1..Len(e) /\ Len(e) \in Nat
  BY <1>2, LenProperties DEF IsSeq
<1> HIDE DEF e, v
<1>4. ASSUME NEW i \in 1..Len(e)
      PROVE  /\ refs[i] = Append(other, [index |-> i]) /\ refs[i] \in Seq(AnyStep)
             /\ Len(refs[i]) = Len(other) + 1
             /\ Reaches(doc, refs[i]) /\ NodeOf(doc, refs[i]) = e[i]
  <2> DEFINE s == [index |-> i]
  <2>1. s \in AnyStep /\ ~IsKey(s) /\ s.index = i
    BY DEF AnyStep, IsKey
  <2>2. s \in Steps(v)
    <3>1. Steps(v) = [index : DOMAIN e]
      BY <1>2, StepsAre
    <3> QED
      BY <1>3, <3>1
  <2>3. refs[i] = Append(other, s)
    BY <1>3
  <2> HIDE DEF s, refs
  <2>4. Append(other, s) \in Seq(AnyStep) /\ Len(Append(other, s)) = Len(other) + 1
        /\ NodeOf(doc, Append(other, s)) = Child(v, s)
    BY <1>1, <2>1, AppendStep DEF v
  <2>5. Child(v, s) = e[i]
    BY <2>1 DEF Child, e
  <2>6. Reaches(doc, Append(other, s))
    BY <1>1, <2>1, <2>2, ReachFurther DEF v
  <2> QED
    BY <2>3, <2>4, <2>5, <2>6 DEF s
<1>5. refs \in Seq(Seq(AnyStep)) /\ Len(refs) = Len(e)
  <2>1. refs \in [1..Len(e) -> Seq(AnyStep)]
    <3>1. refs = [i \in 1..Len(e) |-> refs[i]]
      BY <1>3
    <3> HIDE DEF refs
    <3> QED
      BY <1>4, <3>1
  <2> HIDE DEF refs
  <2>2. refs \in Seq(Seq(AnyStep))
    BY <1>3, <2>1
  <2> QED
    BY <1>3, <2>1, <2>2, LenProperties
<1> QED
  BY <1>2, <1>4, <1>5 DEF e, v

\* The call begins to read its arguments: nothing has changed yet.
LEMMA PushBegins ==
  ASSUME IInv, NEW c, Begin(c), c.target \in Paths, Node(c.target).kind = "array",
         NEW refs, NEW S, refs \in Seq(S), ReadEach(refs, "push"), Refs' = refs,
         \/ c.op = "push_back" /\ c.refs \in Seq(Paths)
         \/ /\ c.op = "mergeArray" /\ c.other \in Paths
            /\ c.other # c.target /\ Node(c.other).kind = "array"
  PROVE  IInv'
<1> DEFINE t == c.target
<1>1. pc' = "push" /\ root' = root /\ relocated' = relocated /\ sources' = refs
  BY DEF ReadEach
<1>2. /\ root = before /\ before' = before /\ call' = c /\ ~relocated
      /\ t \in PathsOf(before) /\ before \in Documents
      /\ (pc' \in {"assign", "push", "insert", "returned", "threw"} /\ relocated' \in BOOLEAN => Began')
  BY BegunCall DEF IInv, Began
<1>3. relocated \in BOOLEAN
  BY DEF IInv, Began
<1>4. Began'
  BY <1>1, <1>2, <1>3
<1>5. Open(before, t) /\ Reaches(before, t) /\ Shaped(NodeOf(before, t))
  BY <1>2, PathsAreOpen
<1> DEFINE v == NodeOf(before, t)
<1>6. v.kind = "array" /\ v = ArrayValue(v.elements) /\ IsSeq(v.elements) /\ Len(v.elements) \in Nat
  <2>1. v.kind = "array"
    BY <1>2 DEF Node
  <2> QED
    BY <1>5, <2>1, LenProperties DEF Shaped, IsSeq
<1>7. Was(call.target)' = v /\ Node(call.target)' = v /\ (call.target)' = t
  BY <1>1, <1>2 DEF Was, Node
<1>8. root' = Replace(before', t, v)
  BY <1>1, <1>2, <1>5, ReplaceSame
<1>9. Len(refs) \in Nat /\ ItemsRead' = 0 /\ IsSeq(refs)
  <2>1. Len(refs) \in Nat /\ IsSeq(refs)
    BY SeqIs, LenProperties
  <2>2. ItemsRead' = Len(refs) - Len(refs)
    BY <1>1 DEF ItemsRead
  <2> QED
    BY <2>1, <2>2
<1>10. PathsOf(before)' = Paths /\ \A q : Was(q)' = Node(q)
  BY <1>2 DEF Paths, Was, Node
<1>11. /\ \/ call'.op = "push_back" /\ call'.refs \in Seq(PathsOf(before)')
          \/ /\ call'.op = "mergeArray" /\ call'.other \in PathsOf(before)'
             /\ call'.other # call'.target /\ (Was(call.other).kind)' = "array"
  <2>1. Was(call.other)' = Node(c.other)
    BY <1>2 DEF Was, Node
  <2> QED
    BY <1>2, <1>10, <2>1
<1> HIDE DEF v
<1>12. /\ Was(call.target)'.kind = "array"
       /\ sources' \in Seq(ToSet(Refs')) /\ ItemsRead' \in 0..Len(Refs')
       /\ \A i \in DOMAIN sources' : sources'[i] = Refs'[ItemsRead' + i]
  <2>1. DOMAIN refs = 1..Len(refs)
    BY LenProperties
  <2>2. \A i \in 1..Len(refs) : 0 + i = i
    BY <1>9
  <2> QED
    BY <1>1, <1>6, <1>7, <1>9, <2>1, <2>2 DEF IsSeq
<1>13. /\ root' = Replace(before', call'.target, Node(call.target)')
       /\ Node(call.target)' = ArrayValue((Node(call.target).elements)')
       /\ IsSeq((Node(call.target).elements)')
       /\ Len((Node(call.target).elements)') = Len((Was(call.target).elements)') + ItemsRead'
       /\ \A i \in 1..Len((Was(call.target).elements)') :
            (Node(call.target).elements)'[i] = (Was(call.target).elements)'[i]
  BY <1>6, <1>7, <1>8, <1>9
<1>14. root' = before' /\ ~relocated'
  BY <1>1, <1>2
<1>15. ~ReadsTarget' =>
         \A i \in 1..ItemsRead' : (Node(call.target).elements)'[Len((Was(call.target).elements)') + i] = Was(Refs[i])'
  BY <1>9
<1>16. Pushed'
  BY <1>11, <1>12, <1>13, <1>14, <1>15 DEF Pushed
<1> QED
  BY <1>1, <1>4, <1>16, Elsewhere DEF IInv

\* push_back and mergeArray, up to the first element that is read.
LEMMA PushBackStep ==
  ASSUME IInv, NEW target \in Paths, NEW refs \in BoundedSeq(Paths, MaxSources) \ {<<>>},
         PushBack(target, refs)
  PROVE  IInv'
<1> DEFINE c == [op |-> "push_back", target |-> target, refs |-> refs]
<1>1. Begin(c) /\ c.target = target /\ c.op = "push_back" /\ c.refs = refs
  BY DEF PushBack
<1>2. \/ Throw
      \/ Node(target).kind = "array" /\ ReadEach(refs, "push")
  BY DEF PushBack
<1> HIDE DEF c
<1>3. CASE Throw
  BY <1>1, <1>3, ThrowStep
<1>4. CASE Node(target).kind = "array" /\ ReadEach(refs, "push")
  <2>1. refs \in Seq(Paths)
    <3>1. PICK n \in 0..MaxSources : refs \in [1..n -> Paths]
      BY DEF BoundedSeq, SeqOf
    <3>2. n \in Nat
      BY StoreAssumption
    <3> QED
      BY <3>1, <3>2
  <2>2. Refs' = refs
    <3>1. call' = c
      BY <1>1 DEF Begin
    <3> QED
      BY <1>1, <3>1 DEF Refs
  <2> QED
    BY <1>1, <1>4, <2>1, <2>2, PushBegins
<1> QED
  BY <1>2, <1>3, <1>4

LEMMA MergeArrayStep ==
  ASSUME IInv, NEW target \in Paths, NEW other \in Paths, MergeArray(target, other)
  PROVE  IInv'
<1> DEFINE c == [op |-> "mergeArray", target |-> target, other |-> other]
           both == [Node(target) EXCEPT !.elements = @ \o @]
           refs == Elements(other)
<1>1. Begin(c) /\ c.target = target /\ c.op = "mergeArray" /\ c.other = other
  BY DEF MergeArray
<1>2. \/ Throw
      \/ Arrays(target, other) /\ target = other /\ Settle("returned", With(target, both))
      \/ Arrays(target, other) /\ target # other /\ ReadEach(refs, "push")
  BY DEF MergeArray
<1> HIDE DEF c
<1>3. /\ root = before /\ before' = before /\ call' = c /\ before \in Documents
      /\ (pc' \in {"assign", "push", "insert", "returned", "threw"} /\ relocated' \in BOOLEAN => Began')
  BY <1>1, BegunCall DEF IInv, Began
<1>4. CASE Throw
  BY <1>1, <1>4, ThrowStep
<1>5. CASE Arrays(target, other) /\ target = other /\ Settle("returned", With(target, both))
  <2>1. pc' = "returned" /\ relocated' = relocated /\ root' = Replace(before, target, both)
    BY <1>3, <1>5 DEF Settle, With
  <2>2. relocated \in BOOLEAN
    BY DEF IInv, Began
  <2>3. Began'
    BY <1>3, <2>1, <2>2
  <2>4. Merged' = both
    <3>1. call'.op = "mergeArray" /\ call'.target = target /\ call'.other = target
      BY <1>1, <1>3, <1>5
    <3>2. \A q : Was(q)' = Node(q)
      BY <1>3 DEF Was, Node
    <3>3. Was(call.target)' = Node(target) /\ Was(call.other)' = Node(target)
      BY <1>3, <3>1 DEF Was, Node
    <3> QED
      BY <3>1, <3>3 DEF Merged
  <2>5. MergesCopies'
    <3>1. root' = Replace(before', call'.target, Merged')
      BY <1>1, <1>3, <2>1, <2>4
    <3> QED
      BY <3>1 DEF MergesCopies
  <2>6. Left'
    BY <2>1, <2>5 DEF Left, DefinedUnlessHazardous, ThrowKeepsDocument
  <2> QED
    BY <2>1, <2>3, <2>6, Elsewhere DEF IInv
<1>6. CASE Arrays(target, other) /\ target # other /\ ReadEach(refs, "push")
  <2>1. Node(target).kind = "array" /\ Node(other).kind = "array" /\ target # other
    BY <1>6 DEF Arrays
  <2>2. refs \in Seq(Seq(AnyStep))
    <3>1. other \in PathsOf(before) /\ NodeOf(before, other).kind = "array"
      BY <1>3, <2>1 DEF Paths, Node
    <3>2. refs = [i \in DOMAIN NodeOf(before, other).elements |-> Append(other, [index |-> i])]
      BY <1>3 DEF Elements, Node
    <3> HIDE DEF refs
    <3> QED
      BY <1>3, <3>1, <3>2, ElementsAre
  <2>3. Refs' = refs
    <3>1. call'.op = "mergeArray" /\ call'.other = other
      BY <1>1, <1>3
    <3>2. Was(call.other)' = Node(other)
      BY <1>3, <3>1 DEF Was, Node
    <3> QED
      BY <3>1, <3>2 DEF Refs, Elements
  <2> HIDE DEF refs
  <2> QED
    BY <1>1, <1>6, <2>1, <2>2, <2>3, PushBegins
<1> QED
  BY <1>2, <1>4, <1>5, <1>6

-----------------------------------------------------------------------------
\* The paths that push_back and mergeArray read.
LEMMA RefsAre ==
  ASSUME IInv, pc = "push"
  PROVE  /\ Refs \in Seq(Seq(AnyStep)) /\ Len(Refs) \in Nat
         /\ \A i \in 1..Len(Refs) : Reaches(before, Refs[i])
         /\ call.op = "mergeArray" =>
              /\ call.other \in Seq(AnyStep)
              /\ Len(Refs) = Len(Was(call.other).elements) /\ IsSeq(Was(call.other).elements)
              /\ \A i \in 1..Len(Refs) :
                   /\ Refs[i] = Append(call.other, [index |-> i])
                   /\ Len(Refs[i]) = Len(call.other) + 1
                   /\ Was(Refs[i]) = Was(call.other).elements[i]
<1>0. before \in Documents
  BY DEF IInv, Began
<1>1. CASE call.op = "push_back" /\ call.refs \in Seq(PathsOf(before))
  <2>1. Refs = call.refs
    BY <1>1 DEF Refs
  <2>2. Refs \in Seq(PathsOf(before)) /\ Len(Refs) \in Nat
    BY <1>1, <2>1, LenProperties
  <2>3. \A i \in 1..Len(Refs) : Refs[i] \in PathsOf(before)
    BY <2>2, ElementOfSeq
  <2>4. \A i \in 1..Len(Refs) : Refs[i] \in Seq(AnyStep) /\ Reaches(before, Refs[i])
    BY <1>0, <2>3, PathsAreOpen
  <2>5. Refs \in Seq(Seq(AnyStep))
    <3>1. Refs \in [1..Len(Refs) -> Seq(AnyStep)]
      BY <2>2, <2>4, LenProperties
    <3> QED
      BY <2>2, <3>1
  <2> QED
    BY <1>1, <2>2, <2>4, <2>5
<1>2. CASE /\ call.op = "mergeArray" /\ call.other \in PathsOf(before)
           /\ call.other # call.target /\ Was(call.other).kind = "array"
  <2>1. NodeOf(before, call.other).kind = "array"
    BY <1>2 DEF Was
  <2> DEFINE e == NodeOf(before, call.other).elements
             refs == [i \in DOMAIN e |-> Append(call.other, [index |-> i])]
  <2>2. /\ IsSeq(e) /\ refs \in Seq(Seq(AnyStep)) /\ Len(refs) = Len(e)
        /\ \A i \in 1..Len(e) :
             /\ refs[i] = Append(call.other, [index |-> i])
             /\ Len(refs[i]) = Len(call.other) + 1
             /\ Reaches(before, refs[i]) /\ NodeOf(before, refs[i]) = e[i]
    BY <1>0, <1>2, <2>1, ElementsAre
  <2>3. Refs = refs /\ Was(call.other).elements = e
    BY <1>2 DEF Refs, Was
  <2>4. call.other \in Seq(AnyStep)
    BY <1>0, <1>2, PathsAreOpen
  <2>5. Len(e) \in Nat
    BY <2>2, LenProperties DEF IsSeq
  <2> HIDE DEF refs, e
  <2> QED
    BY <2>2, <2>3, <2>4, <2>5 DEF Was
<1> QED
  BY <1>1, <1>2 DEF IInv, Pushed

\* The parts of Pushed, by name, while the call reads its next argument.
LEMMA PushingIs ==
  ASSUME IInv, pc = "push"
  PROVE  LET t == call.target
             old == Was(t).elements
             new == Node(t).elements
         IN  /\ t \in Seq(AnyStep) /\ Len(t) \in Nat /\ Open(before, t) /\ Reaches(before, t)
             /\ Was(t) = ArrayValue(old) /\ IsSeq(old) /\ Len(old) \in Nat
             /\ Node(t) = ArrayValue(new) /\ IsSeq(new) /\ Len(new) \in Nat
             /\ Len(sources) \in Nat /\ DOMAIN sources = 1..Len(sources)
             /\ ItemsRead \in Nat /\ Len(Refs) = ItemsRead + Len(sources)
<1>1. pc # "ready"
  OBVIOUS
<1>2. /\ call.target \in Seq(AnyStep) /\ Len(call.target) \in Nat
      /\ Open(before, call.target) /\ Reaches(before, call.target) /\ Shaped(Was(call.target))
  BY <1>1, TargetIs
<1>3. /\ Was(call.target).kind = "array"
      /\ sources \in Seq(ToSet(Refs)) /\ ItemsRead \in 0..Len(Refs)
      /\ Node(call.target) = ArrayValue(Node(call.target).elements)
      /\ IsSeq(Node(call.target).elements)
  BY DEF IInv, Pushed
<1>4. /\ Was(call.target) = ArrayValue(Was(call.target).elements)
      /\ IsSeq(Was(call.target).elements)
  BY <1>2, <1>3 DEF Shaped, IsSeq
<1>5. Len(Was(call.target).elements) \in Nat /\ Len(Node(call.target).elements) \in Nat
  BY <1>3, <1>4, LenProperties DEF IsSeq
<1>6. Len(sources) \in Nat /\ DOMAIN sources = 1..Len(sources)
  BY <1>3, LenProperties
<1>7. Len(Refs) \in Nat
  BY RefsAre
<1>8. ItemsRead \in Nat /\ Len(Refs) = ItemsRead + Len(sources)
  BY <1>3, <1>6, <1>7 DEF ItemsRead
<1> QED
  BY <1>2, <1>3, <1>4, <1>5, <1>6, <1>8

\* A reference that no longer refers to anything is one a caller has to avoid.
LEMMA PushHazard ==
  ASSUME IInv, pc = "push", sources # <<>>, Dangling(Head(sources))
  PROVE  Hazardous
<1> DEFINE n == ItemsRead + 1
           p == Refs[n]
           t == call.target
<1>1. /\ t \in Seq(AnyStep) /\ Len(t) \in Nat /\ ItemsRead \in Nat
      /\ Len(sources) \in Nat /\ DOMAIN sources = 1..Len(sources)
      /\ Len(Refs) = ItemsRead + Len(sources)
  BY PushingIs
<1>2. Len(sources) >= 1 /\ 1 \in DOMAIN sources
  <2>1. sources \in Seq(ToSet(Refs))
    BY DEF IInv, Pushed
  <2> QED
    BY <1>1, <2>1, EmptySeq, LenProperties
<1>3. Head(sources) = p
  <2>1. \A i \in DOMAIN sources : sources[i] = Refs[ItemsRead + i]
    BY DEF IInv, Pushed
  <2>2. sources \in Seq(ToSet(Refs))
    BY DEF IInv, Pushed
  <2>3. Head(sources) = sources[1]
    BY <2>2, HeadTailProperties
  <2> QED
    BY <1>2, <2>1, <2>3
<1>4. relocated /\ Inside(p, t) /\ (growth = "copies" \/ Len(p) = Len(t) + 1)
  BY <1>3 DEF Dangling
<1>5. ItemsRead # 0
  BY <1>4 DEF IInv, Pushed
<1>6. n \in 1..Len(Refs) /\ n # 1 /\ Len(Refs) > 1
  BY <1>1, <1>2, <1>5
<1> HIDE DEF n
<1>7. CASE call.op = "push_back"
  <2>1. Refs = call.refs
    BY <1>7 DEF Refs
  <2>2. n \in DOMAIN call.refs \ {1}
    BY <1>6, <2>1, RefsAre, LenProperties
  <2> QED
    BY <1>4, <1>7, <2>1, <2>2 DEF Hazardous
<1>8. CASE call.op = "mergeArray"
  <2>1. /\ call.other \in Seq(AnyStep) /\ Len(Refs) = Len(Was(call.other).elements)
        /\ p = Append(call.other, [index |-> n]) /\ Len(p) = Len(call.other) + 1
    BY <1>6, <1>8, RefsAre
  <2>2. call.other # t
    BY <1>8 DEF IInv, Pushed
  <2>3. /\ Len(call.other) \in Nat /\ p \in Seq(AnyStep)
        /\ \A i \in 1..Len(call.other) : p[i] = call.other[i]
    <3>1. [index |-> n] \in AnyStep
      BY <1>1, <1>6 DEF AnyStep
    <3> QED
      BY <2>1, <3>1, AppendStep, LenProperties
  <2>4. IsPrefix(t, p) /\ p # t
    BY <1>4 DEF Inside
  <2>5. Len(t) <= Len(p) /\ \A i \in 1..Len(t) : p[i] = t[i]
    BY <1>1, <2>3, <2>4, PrefixIs
  <2>6. Len(t) # Len(p)
    <3> SUFFICES ASSUME Len(t) = Len(p) PROVE FALSE
      OBVIOUS
    <3> DEFINE m == Len(t)
    <3>1. t = [i \in 1..m |-> t[i]] /\ p = [i \in 1..m |-> p[i]]
      BY <1>1, <2>3, LenProperties
    <3>2. \A i \in 1..m : p[i] = t[i]
      BY <2>5
    <3> HIDE DEF m, p
    <3>3. p = t
      BY <3>1, <3>2
    <3> QED
      BY <2>4, <3>3
  <2>7. Len(t) <= Len(call.other) /\ \A i \in 1..Len(t) : call.other[i] = t[i]
    BY <1>1, <2>1, <2>3, <2>5, <2>6
  <2>8. Inside(call.other, t)
    BY <1>1, <2>1, <2>2, <2>7, PrefixIs DEF Inside
  <2>9. Len(t) # Len(call.other)
    <3> SUFFICES ASSUME Len(t) = Len(call.other) PROVE FALSE
      OBVIOUS
    <3> DEFINE m == Len(t)
               o == call.other
    <3>1. t = [i \in 1..m |-> t[i]] /\ o = [i \in 1..m |-> o[i]]
      BY <1>1, <2>1, LenProperties
    <3>2. \A i \in 1..m : o[i] = t[i]
      BY <2>7
    <3>3. o # t
      BY <2>2
    <3> HIDE DEF m, o
    <3> QED
      BY <3>1, <3>2, <3>3
  <2>10. growth = "copies"
    BY <1>1, <1>4, <2>1, <2>3, <2>9
  <2>11. Len(Was(call.other).elements) > 1
    BY <1>6, <2>1
  <2> QED
    BY <1>8, <2>8, <2>10, <2>11 DEF Hazardous
<1> QED
  BY <1>7, <1>8 DEF IInv, Pushed

\* What is read next is what it was when the call was made.
LEMMA PushReads ==
  ASSUME IInv, pc = "push", NEW n, n = ItemsRead + 1, n \in 1..Len(Refs), ~ReadsTarget
  PROVE  Node(Refs[n]) = Was(Refs[n])
<1> DEFINE t == call.target
           v == Node(t)
           old == Was(t).elements
           new == v.elements
<1>1. /\ t \in Seq(AnyStep) /\ Len(t) \in Nat /\ ItemsRead \in Nat
      /\ Open(before, t) /\ Reaches(before, t)
      /\ Was(t) = ArrayValue(old) /\ IsSeq(old) /\ Len(old) \in Nat
      /\ v = ArrayValue(new)
  BY PushingIs
<1>2. Refs[n] \in Seq(AnyStep) /\ Reaches(before, Refs[n])
  <2>1. Refs \in Seq(Seq(AnyStep)) /\ Reaches(before, Refs[n])
    BY RefsAre
  <2> QED
    BY <2>1, ElementOfSeq
<1>3. CASE ItemsRead = 0
  <2>1. root = before
    BY <1>3 DEF IInv, Pushed
  <2> QED
    BY <2>1 DEF Node, Was
<1>4. CASE ItemsRead # 0
  <2>1. root = Replace(before, t, v) /\ \A i \in 1..Len(old) : new[i] = old[i]
    BY DEF IInv, Pushed
  <2>2. n # 1
    BY <1>1, <1>4
  <2>3. ~IsPrefix(Refs[n], t)
    <3>1. CASE call.op = "push_back"
      <4>1. Refs = call.refs
        BY <3>1 DEF Refs
      <4>2. n \in DOMAIN call.refs \ {1}
        BY <2>2, <4>1, RefsAre, LenProperties
      <4> QED
        BY <3>1, <4>1, <4>2 DEF ReadsTarget
    <3>2. CASE call.op = "mergeArray"
      <4>1. call.other \in Seq(AnyStep) /\ Refs[n] = Append(call.other, [index |-> n])
            /\ call.other # t
        BY <3>2, RefsAre DEF IInv, Pushed
      <4>2. ~Inside(t, call.other)
        BY <3>2 DEF ReadsTarget
      <4>3. ~IsPrefix(call.other, t)
        BY <4>1, <4>2 DEF Inside
      <4>4. [index |-> n] \in AnyStep
        BY <1>1 DEF AnyStep
      <4>5. /\ Len(call.other) \in Nat /\ Len(Refs[n]) = Len(call.other) + 1
            /\ \A i \in 1..Len(call.other) : Refs[n][i] = call.other[i]
        BY <4>1, <4>4, AppendStep, LenProperties
      <4> SUFFICES ASSUME IsPrefix(Refs[n], t) PROVE FALSE
        OBVIOUS
      <4>6. Len(Refs[n]) <= Len(t) /\ \A i \in 1..Len(Refs[n]) : t[i] = Refs[n][i]
        BY <1>1, <1>2, PrefixIs
      <4>7. Len(call.other) <= Len(t) /\ \A i \in 1..Len(call.other) : t[i] = call.other[i]
        BY <1>1, <4>5, <4>6
      <4> QED
        BY <1>1, <4>1, <4>3, <4>7, PrefixIs
    <3> QED
      BY <3>1, <3>2 DEF IInv, Pushed
  <2>4. ASSUME IsPrefix(t, Refs[n])
        PROVE  Child(v, Refs[n][Len(t) + 1]) = Child(NodeOf(before, t), Refs[n][Len(t) + 1])
    <3> DEFINE p == Refs[n]
               s == p[Len(t) + 1]
    <3>1. Len(p) \in Nat /\ Len(t) <= Len(p) /\ \A i \in 1..Len(t) : p[i] = t[i]
      BY <1>1, <1>2, <2>4, PrefixIs, LenProperties
    <3>2. Len(t) # Len(p)
      BY <1>1, <1>2, <2>3, <3>1, PrefixIs
    <3>3. Len(t) + 1 \in DOMAIN p /\ (Len(t) + 1) - 1 = Len(t)
      <4>1. DOMAIN p = 1..Len(p)
        BY <1>2, LenProperties
      <4> QED
        BY <1>1, <3>1, <3>2, <4>1
    <3>4. Along(before, p)[Len(t)] = Was(t)
      <4>1. Along(before, p)[Len(t)] = Along(before, t)[Len(t)]
        BY <1>1, <3>1, AlikeUpTo
      <4> QED
        BY <4>1 DEF Was, NodeOf
    <3>5. s \in Steps(Was(t))
      BY <1>2, <3>3, <3>4 DEF Reaches
    <3>6. Steps(Was(t)) = [index : DOMAIN old]
      BY <1>1, StepsAre
    <3> HIDE DEF s
    <3>7. ~IsKey(s) /\ s.index \in DOMAIN old
      BY <3>5, <3>6 DEF IsKey
    <3>8. s.index \in 1..Len(old)
      BY <1>1, <3>7, LenProperties DEF IsSeq
    <3>9. Child(v, s) = Child(Was(t), s)
      BY <2>1, <3>7, <3>8 DEF Child
    <3> QED
      BY <3>9 DEF s, Was
  <2> HIDE DEF v, t
  <2>5. NodeOf(Replace(before, t, v), Refs[n]) = NodeOf(before, Refs[n])
    BY <1>1, <1>2, <2>3, <2>4, NodeStays
  <2> QED
    BY <2>1, <2>5 DEF Node, Was
<1> QED
  BY <1>3, <1>4

\* An element more.
LEMMA AppendedIs ==
  ASSUME NEW e, IsSeq(e), NEW x
  PROVE  /\ IsSeq(Append(e, x)) /\ Len(Append(e, x)) = Len(e) + 1
         /\ \A i \in 1..Len(e) : Append(e, x)[i] = e[i]
         /\ Append(e, x)[Len(e) + 1] = x
<1> DEFINE S == ToSet(e) \cup {x}
<1>1. e \in Seq(S)
  <2>1. Len(e) \in Nat /\ e \in [1..Len(e) -> ToSet(e)]
    BY LenProperties, ElementOfSeq DEF IsSeq
  <2>2. e \in [1..Len(e) -> S]
    BY <2>1
  <2> QED
    BY <2>1, <2>2
<1>2. x \in S
  OBVIOUS
<1> HIDE DEF S
<1>3. /\ Append(e, x) \in Seq(S) /\ Len(Append(e, x)) = Len(e) + 1
      /\ \A i \in 1..Len(e) : Append(e, x)[i] = e[i]
      /\ Append(e, x)[Len(e) + 1] = x
  BY <1>1, <1>2, AppendProperties
<1>4. IsSeq(Append(e, x))
  BY <1>3, SeqIs
<1> QED
  BY <1>3, <1>4

\* One element more: it is what it was, or the call is hazardous, or it holds the target.
LEMMA PushStep ==
  ASSUME IInv, Push
  PROVE  IInv'
<1> DEFINE t == call.target
           old == Was(t).elements
           new == Node(t).elements
           n == ItemsRead
           p == Head(sources)
           w == ArrayValue(Append(new, Node(p)))
<1>0. pc = "push" /\ sources # <<>> /\ UNCHANGED <<growth, call, before>>
  BY DEF Push
<1>1. \/ Dangling(p) /\ Settle("undefined", root)
      \/ /\ root' = With(t, [Node(t) EXCEPT !.elements = Append(@, Node(p))])
         /\ relocated' \in {relocated, TRUE}
         /\ sources' = Tail(sources)
         /\ pc' = pc
  BY DEF Push
<1>2. CASE Dangling(p) /\ Settle("undefined", root)
  BY <1>0, <1>2, PushHazard, UndefinedStep
<1>3. CASE /\ root' = With(t, [Node(t) EXCEPT !.elements = Append(@, Node(p))])
           /\ relocated' \in {relocated, TRUE}
           /\ sources' = Tail(sources)
           /\ pc' = pc
  <2>1. /\ t \in Seq(AnyStep) /\ Open(before, t) /\ Reaches(before, t)
        /\ Was(t) = ArrayValue(old) /\ IsSeq(old) /\ Len(old) \in Nat
        /\ Node(t) = ArrayValue(new) /\ IsSeq(new) /\ Len(new) \in Nat
        /\ Len(sources) \in Nat /\ DOMAIN sources = 1..Len(sources)
        /\ n \in Nat /\ Len(Refs) = n + Len(sources)
    BY <1>0, PushingIs
  <2>2. /\ sources \in Seq(ToSet(Refs))
        /\ \A i \in DOMAIN sources : sources[i] = Refs[n + i]
        /\ root = Replace(before, t, Node(t))
        /\ Len(new) = Len(old) + n /\ \A i \in 1..Len(old) : new[i] = old[i]
        /\ ~ReadsTarget => \A i \in 1..n : new[Len(old) + i] = Was(Refs[i])
    BY <1>0 DEF IInv, Pushed
  <2>3. Len(sources) >= 1 /\ n + 1 \in 1..Len(Refs)
    BY <1>0, <2>1, <2>2, EmptySeq, LenProperties
  <2>4. p = Refs[n + 1]
    <3>1. p = sources[1]
      BY <2>2, HeadTailProperties
    <3> QED
      BY <2>1, <2>2, <2>3, <3>1
  <2>5. [Node(t) EXCEPT !.elements = Append(@, Node(p))] = w
    <3>1. \A x, y : [ArrayValue(x) EXCEPT !.elements = Append(@, y)] = ArrayValue(Append(x, y))
      BY DEF ArrayValue
    <3> HIDE DEF p, new
    <3> QED
      BY <2>1, <3>1
  <2>6. root' = Replace(before, t, w)
    <3>1. root' = Replace(Replace(before, t, Node(t)), t, w)
      BY <1>3, <2>2, <2>5 DEF With
    <3> HIDE DEF w
    <3> QED
      BY <2>1, <3>1, ReplaceTwice
  <2>7. Node(t)' = w /\ t' = t
    <3>1. t' = t
      BY <1>0
    <3>2. NodeOf(root', t) = w
      <4> HIDE DEF w
      <4> QED
        BY <2>1, <2>6, ReplaceNode
    <3> QED
      BY <3>1, <3>2 DEF Node
  <2> DEFINE more == Append(new, Node(p))
  <2>8. new' = more /\ w = ArrayValue(more)
    BY <2>7 DEF ArrayValue
  <2>9. /\ IsSeq(more) /\ Len(more) = Len(new) + 1
        /\ \A i \in 1..Len(new) : more[i] = new[i]
        /\ more[Len(new) + 1] = Node(p)
    <3> HIDE DEF new, p
    <3> QED
      BY <2>1, AppendedIs
  <2>10. /\ Refs' = Refs /\ old' = old /\ ReadsTarget' = ReadsTarget
         /\ (\A q : Was(q)' = Was(q)) /\ PathsOf(before)' = PathsOf(before)
    <3>1. call' = call /\ before' = before
      BY <1>0
    <3> QED
      BY <3>1 DEF Refs, Was, ReadsTarget
  <2>11. /\ sources' \in Seq(ToSet(Refs)) /\ Len(sources') = Len(sources) - 1
         /\ DOMAIN sources' = 1..(Len(sources) - 1)
         /\ \A i \in 1..(Len(sources) - 1) : sources'[i] = sources[i + 1]
    <3>1. /\ Tail(sources) \in Seq(ToSet(Refs)) /\ Len(Tail(sources)) = Len(sources) - 1
          /\ \A i \in 1..Len(Tail(sources)) : Tail(sources)[i] = sources[i + 1]
      BY <1>0, <2>2, HeadTailProperties
    <3>2. DOMAIN Tail(sources) = 1..Len(Tail(sources))
      BY <3>1, LenProperties
    <3> QED
      BY <1>3, <3>1, <3>2
  <2>12. ItemsRead' = n + 1
    <3>1. ItemsRead' = Len(Refs) - Len(sources')
      BY <2>10 DEF ItemsRead
    <3> HIDE DEF n
    <3> QED
      BY <2>1, <2>11, <3>1
  <2>13. ASSUME NEW i \in DOMAIN sources' PROVE sources'[i] = Refs'[ItemsRead' + i]
    <3>1. i \in 1..(Len(sources) - 1) /\ i + 1 \in DOMAIN sources /\ n + (i + 1) = (n + 1) + i
      BY <2>1, <2>11
    <3>2. sources'[i] = Refs[n + (i + 1)]
      BY <2>2, <2>11, <3>1
    <3> QED
      BY <2>10, <2>12, <3>1, <3>2
  <2>14. ASSUME ~ReadsTarget, NEW i \in 1..(n + 1) PROVE more[Len(old) + i] = Was(Refs[i])
    <3>0. Len(old) \in Nat /\ Len(new) \in Nat /\ n \in Nat /\ Len(new) = Len(old) + n
      BY <2>1, <2>2
    <3>1. CASE i = n + 1
      <4>1. Node(Refs[n + 1]) = Was(Refs[n + 1])
        BY <1>0, <2>3, <2>14, PushReads
      <4> HIDE DEF new, old, p, n
      <4>2. Len(old) + i = Len(new) + 1
        BY <3>0, <3>1
      <4> QED
        BY <2>4, <2>9, <3>1, <4>1, <4>2
    <3>2. CASE i # n + 1
      <4>1. i \in 1..n /\ Len(old) + i \in 1..Len(new)
        <5> HIDE DEF new, old, n
        <5> QED
          BY <3>0, <3>2
      <4>2. new[Len(old) + i] = Was(Refs[i])
        BY <2>2, <2>14, <4>1
      <4> QED
        BY <2>9, <4>1, <4>2
    <3> QED
      BY <3>1, <3>2
  <2>15. /\ \/ call'.op = "push_back" /\ call'.refs \in Seq(PathsOf(before)')
            \/ /\ call'.op = "mergeArray" /\ call'.other \in PathsOf(before)'
               /\ call'.other # call'.target /\ (Was(call.other).kind)' = "array"
         /\ (Was(call.target).kind)' = "array"
    <3>1. call' = call /\ before' = before
      BY <1>0
    <3>2. /\ \/ call.op = "push_back" /\ call.refs \in Seq(PathsOf(before))
             \/ /\ call.op = "mergeArray" /\ call.other \in PathsOf(before)
                /\ call.other # call.target /\ Was(call.other).kind = "array"
          /\ Was(call.target).kind = "array"
      BY <1>0 DEF IInv, Pushed
    <3>3. (Was(call.other).kind)' = Was(call.other).kind /\ (Was(call.target).kind)' = Was(call.target).kind
      BY <3>1 DEF Was
    <3> QED
      BY <2>10, <3>1, <3>2, <3>3
  <2>16. sources' \in Seq(ToSet(Refs)') /\ ItemsRead' \in 0..Len(Refs')
    <3>1. ToSet(Refs)' = ToSet(Refs)
      BY <2>10
    <3> QED
      BY <2>1, <2>3, <2>10, <2>11, <2>12, <3>1
  <2>17. /\ root' = Replace(before', call'.target, Node(call.target)')
         /\ Node(call.target)' = ArrayValue((Node(call.target).elements)')
    <3>1. before' = before
      BY <1>0
    <3> QED
      BY <2>6, <2>7, <2>8, <3>1
  <2>18. /\ IsSeq((Node(call.target).elements)')
         /\ Len((Node(call.target).elements)') = Len((Was(call.target).elements)') + ItemsRead'
         /\ \A i \in 1..Len((Was(call.target).elements)') :
              (Node(call.target).elements)'[i] = (Was(call.target).elements)'[i]
    <3>1. Len(more) = Len(old) + (n + 1)
      BY <2>1, <2>2, <2>9
    <3>2. \A i \in 1..Len(old) : i \in 1..Len(new)
      BY <2>1, <2>2
    <3> QED
      BY <2>2, <2>8, <2>9, <2>10, <2>12, <3>1, <3>2
  <2>19. ~ReadsTarget' =>
           \A i \in 1..ItemsRead' :
             (Node(call.target).elements)'[Len((Was(call.target).elements)') + i] = Was(Refs[i])'
    <3>1. \A i : Was(Refs[i])' = Was(Refs[i])
      BY <2>10
    <3> HIDE DEF more, old, n
    <3> QED
      BY <2>8, <2>10, <2>12, <2>14, <3>1 DEF old
  <2>20. ItemsRead' # 0
    BY <2>1, <2>12
  <2>21. Pushed'
    BY <2>13, <2>15, <2>16, <2>17, <2>18, <2>19, <2>20 DEF Pushed
  <2>22. Began'
    <3>1. relocated' \in BOOLEAN
      BY <1>3 DEF IInv, Began
    <3> QED
      BY <1>0, <1>3, <3>1, BegunStill
  <2> QED
    BY <1>0, <1>3, <2>21, <2>22, Elsewhere DEF IInv
<1> QED
  BY <1>1, <1>2, <1>3

\* A sequence followed by another is the one sequence with the elements of both.
LEMMA ConcatIs ==
  ASSUME NEW e, IsSeq(e), NEW f, IsSeq(f), NEW g, IsSeq(g), Len(g) = Len(e) + Len(f),
         \A i \in 1..Len(e) : g[i] = e[i],
         \A i \in 1..Len(f) : g[Len(e) + i] = f[i]
  PROVE  g = e \o f
<1> DEFINE S == ToSet(e) \cup ToSet(f)
<1>0. Len(e) \in Nat /\ Len(f) \in Nat /\ e \in [1..Len(e) -> ToSet(e)] /\ f \in [1..Len(f) -> ToSet(f)]
  BY LenProperties, ElementOfSeq DEF IsSeq
<1>1. e \in Seq(S) /\ f \in Seq(S)
  <2>1. e \in [1..Len(e) -> S] /\ f \in [1..Len(f) -> S]
    BY <1>0
  <2> HIDE DEF S
  <2> QED
    BY <1>0, <2>1
<1> HIDE DEF S
<1>2. /\ e \o f \in Seq(S) /\ Len(e \o f) = Len(e) + Len(f)
      /\ \A i \in 1..(Len(e) + Len(f)) :
           (e \o f)[i] = IF i <= Len(e) THEN e[i] ELSE f[i - Len(e)]
  BY <1>1, ConcatProperties
<1> DEFINE h == e \o f
           n == Len(e) + Len(f)
<1>3. g = [i \in 1..n |-> g[i]] /\ h = [i \in 1..n |-> h[i]]
  BY <1>2, LenProperties DEF IsSeq
<1>4. ASSUME NEW i \in 1..n PROVE g[i] = h[i]
  <2>1. CASE i <= Len(e)
    BY <1>0, <1>2, <2>1
  <2>2. CASE ~(i <= Len(e))
    <3>1. i - Len(e) \in 1..Len(f) /\ Len(e) + (i - Len(e)) = i
      BY <1>0, <2>2
    <3>2. g[i] = f[i - Len(e)]
      BY <3>1
    <3> QED
      BY <1>2, <2>2, <3>2
  <2> QED
    BY <2>1, <2>2
<1> HIDE DEF n, h
<1>5. g = h
  BY <1>3, <1>4
<1> QED
  BY <1>5 DEF h

\* When all elements have been read, the target is what it would be made of copies.
LEMMA PushedIsMerged ==
  ASSUME IInv, pc = "push", sources = <<>>, ~ReadsTarget
  PROVE  root = Replace(before, call.target, Merged)
<1> DEFINE t == call.target
           old == Was(t).elements
           new == Node(t).elements
           items == IF call.op = "push_back" THEN [i \in DOMAIN call.refs |-> Was(call.refs[i])]
                    ELSE Was(call.other).elements
<1>1. /\ Was(t) = ArrayValue(old) /\ IsSeq(old) /\ Len(old) \in Nat
      /\ Node(t) = ArrayValue(new) /\ IsSeq(new)
      /\ Len(Refs) = ItemsRead + Len(sources) /\ ItemsRead \in Nat
  BY PushingIs
<1>2. /\ root = Replace(before, t, Node(t))
      /\ Len(new) = Len(old) + ItemsRead /\ \A i \in 1..Len(old) : new[i] = old[i]
      /\ \A i \in 1..ItemsRead : new[Len(old) + i] = Was(Refs[i])
  BY DEF IInv, Pushed
<1>3. ItemsRead = Len(Refs)
  <2>1. Len(sources) = 0
    BY EmptySeq
  <2> QED
    BY <1>1, <2>1
<1>4. call.op \in {"push_back", "mergeArray"}
  BY DEF IInv, Pushed
<1>5. IsSeq(items) /\ Len(items) = Len(Refs) /\ \A i \in 1..Len(Refs) : items[i] = Was(Refs[i])
  <2>1. CASE call.op = "push_back"
    <3>1. Refs = call.refs /\ DOMAIN Refs = 1..Len(Refs) /\ Len(Refs) \in Nat
      BY <2>1, RefsAre, LenProperties DEF Refs
    <3>2. items = [i \in 1..Len(Refs) |-> Was(Refs[i])]
      BY <2>1, <3>1
    <3> HIDE DEF items
    <3> DEFINE S == {Was(Refs[i]) : i \in 1..Len(Refs)}
    <3>3. items \in [1..Len(Refs) -> S]
      BY <3>2
    <3> HIDE DEF S
    <3>4. items \in Seq(S)
      BY <3>1, <3>3
    <3>5. Len(items) = Len(Refs) /\ IsSeq(items)
      BY <3>1, <3>3, <3>4, SeqIs, LenProperties
    <3> QED
      BY <3>2, <3>5
  <2>2. CASE call.op = "mergeArray"
    <3>1. items = Was(call.other).elements
      BY <2>2
    <3> HIDE DEF items
    <3> QED
      BY <2>2, <3>1, RefsAre
  <2> QED
    BY <1>4, <2>1, <2>2
<1>6. new = old \o items
  <2> HIDE DEF new, old, items
  <2>1. Len(new) = Len(old) + Len(items) /\ \A i \in 1..Len(items) : new[Len(old) + i] = items[i]
    BY <1>2, <1>3, <1>5
  <2> QED
    <3>1. IsSeq(old) /\ IsSeq(items) /\ IsSeq(new) /\ \A i \in 1..Len(old) : new[i] = old[i]
      BY <1>1, <1>2, <1>5
    <3> QED
      BY <2>1, <3>1, ConcatIs
<1>7. Merged = [Was(t) EXCEPT !.elements = @ \o items]
  <2>1. CASE call.op = "push_back"
    BY <2>1 DEF Merged
  <2>2. CASE call.op = "mergeArray"
    BY <2>2 DEF Merged
  <2> QED
    BY <1>4, <2>1, <2>2
<1>8. Merged = ArrayValue(old \o items)
  <2>1. \A x, z : [ArrayValue(x) EXCEPT !.elements = z] = ArrayValue(z)
    BY DEF ArrayValue
  <2> HIDE DEF items
  <2>2. Merged = [Was(t) EXCEPT !.elements = old \o items]
    BY <1>7
  <2> HIDE DEF old
  <2> QED
    BY <1>1, <2>1, <2>2
<1> QED
  BY <1>1, <1>2, <1>6, <1>8

-----------------------------------------------------------------------------
\* The members of an object, and the paths that lead to them: each one once.
LEMMA MembersAre ==
  ASSUME NEW path \in Seq(AnyStep), DOMAIN Node(path).members \subseteq Key
  PROVE  LET keys == DOMAIN Node(path).members
             refs == Members(path)
         IN  /\ IsSeq(refs)
             /\ \A i \in DOMAIN refs : \E k \in keys : refs[i] = Append(path, [key |-> k])
             /\ \A k \in keys : Append(path, [key |-> k]) \in ToSet(refs)
             /\ \A i, j \in DOMAIN refs : refs[i] = refs[j] => i = j
<1> DEFINE keys == DOMAIN Node(path).members
           Far(k) == Append(path, [key |-> k])
           n == Len(KeyOrder)
           S == {Far(k) : k \in Key}
<1>0. /\ KeyOrder \in Seq(Key) /\ n \in Nat /\ DOMAIN KeyOrder = 1..n
      /\ \A i, j \in 1..n : KeyOrder[i] = KeyOrder[j] => i = j
  BY StoreAssumption, LenProperties DEF Key
<1>1. \A k \in Key : \E i \in 1..n : KeyOrder[i] = k
  BY <1>0 DEF Key, ToSet
<1>2. \A i \in 1..n : KeyOrder[i] \in Key
  BY <1>0, ElementOfSeq
<1>3. ASSUME NEW k, NEW l, k \in Key, l \in Key, Far(k) = Far(l) PROVE k = l
  <2>1. [key |-> k] \in AnyStep /\ [key |-> l] \in AnyStep
    BY <1>3 DEF AnyStep
  <2>2. Far(k)[Len(path) + 1] = [key |-> k] /\ Far(l)[Len(path) + 1] = [key |-> l]
    BY <2>1, AppendStep
  <2>3. [key |-> k] = [key |-> l]
    BY <1>3, <2>2
  <2> QED
    BY <2>3
<1> DEFINE IsRead(read, m) ==
             read = [i \in 0..m |-> IF i = 0 THEN <<>>
                                    ELSE IF KeyOrder[i] \in keys THEN Append(read[i - 1], Far(KeyOrder[i]))
                                         ELSE read[i - 1]]
           D == {m \in Nat : \E read : IsRead(read, m)}
<1>4. \E read : IsRead(read, n)
  <2>1. 0 \in D
    <3>1. LET f == [i \in 0..0 |-> <<>>]
          IN  f = [i \in 0..0 |-> IF i = 0 THEN <<>>
                                  ELSE IF KeyOrder[i] \in keys THEN Append(f[i - 1], Far(KeyOrder[i]))
                                       ELSE f[i - 1]]
      OBVIOUS
    <3> QED
      BY <3>1
  <2>2. ASSUME NEW m \in Nat, m \in D PROVE m + 1 \in D
    <3>1. PICK f : IsRead(f, m)
      BY <2>2
    <3> HIDE DEF Far, keys
    <3> DEFINE g == [i \in 0..(m + 1) |-> IF i # m + 1 THEN f[i]
                                          ELSE IF KeyOrder[i] \in keys THEN Append(f[m], Far(KeyOrder[i]))
                                               ELSE f[m]]
    <3>2. \A i \in 0..m : g[i] = f[i]
      OBVIOUS
    <3>3. ASSUME NEW i \in 0..(m + 1)
          PROVE  g[i] = IF i = 0 THEN <<>>
                        ELSE IF KeyOrder[i] \in keys THEN Append(g[i - 1], Far(KeyOrder[i]))
                             ELSE g[i - 1]
      <4>1. CASE i = m + 1
        <5>1. g[i] = (IF KeyOrder[i] \in keys THEN Append(f[m], Far(KeyOrder[i])) ELSE f[m])
              /\ i # 0 /\ i - 1 = m
          BY <4>1
        <5> QED
          BY <5>1, <3>2
      <4>2. CASE i # m + 1
        <5>1. i \in 0..m /\ (i # 0 => i - 1 \in 0..m)
          BY <4>2
        <5>2. f[i] = IF i = 0 THEN <<>>
                     ELSE IF KeyOrder[i] \in keys THEN Append(f[i - 1], Far(KeyOrder[i]))
                          ELSE f[i - 1]
          BY <3>1, <5>1
        <5> HIDE DEF g
        <5> QED
          BY <3>2, <5>1, <5>2
      <4> QED
        BY <4>1, <4>2
    <3>4. IsRead(g, m + 1)
      <4> DEFINE h == [i \in 0..(m + 1) |-> IF i = 0 THEN <<>>
                        ELSE IF KeyOrder[i] \in keys THEN Append(g[i - 1], Far(KeyOrder[i]))
                             ELSE g[i - 1]]
      <4>1. \A i \in 0..(m + 1) : g[i] = h[i]
        <5> HIDE DEF g
        <5> QED
          BY <3>3
      <4>2. g = [i \in 0..(m + 1) |-> g[i]] /\ h = [i \in 0..(m + 1) |-> h[i]]
        OBVIOUS
      <4> HIDE DEF g, h
      <4>3. g = h
        BY <4>1, <4>2
      <4> QED
        BY <4>3 DEF h
    <3> HIDE DEF g, IsRead
    <3> QED
      BY <3>4
  <2>3. Nat \subseteq D
    <3> HIDE DEF D
    <3> QED
      BY <2>1, <2>2, NatInduct
  <2> HIDE DEF IsRead
  <2> QED
    BY <1>0, <2>3
<1> DEFINE read == CHOOSE f : IsRead(f, n)
<1>5. IsRead(read, n)
  <2> HIDE DEF IsRead
  <2> QED
    BY <1>4
<1>6. Members(path) = read[n]
  BY DEF Members
<1> HIDE DEF read
<1>7. /\ read[0] = <<>>
      /\ \A i \in 0..(n - 1) : read[i + 1] = IF KeyOrder[i + 1] \in keys
                                             THEN Append(read[i], Far(KeyOrder[i + 1])) ELSE read[i]
  <2>1. read[0] = <<>>
    BY <1>0, <1>5
  <2>2. ASSUME NEW i \in 0..(n - 1)
        PROVE  read[i + 1] = IF KeyOrder[i + 1] \in keys
                             THEN Append(read[i], Far(KeyOrder[i + 1])) ELSE read[i]
    <3>1. i + 1 \in 0..n /\ i + 1 # 0 /\ (i + 1) - 1 = i
      BY <1>0
    <3> QED
      BY <1>5, <3>1
  <2> QED
    BY <2>1, <2>2
<1> DEFINE Good(s, m) ==
             /\ s \in Seq(S)
             /\ \A j \in 1..Len(s) : \E i \in 1..m : KeyOrder[i] \in keys /\ s[j] = Far(KeyOrder[i])
             /\ \A i \in 1..m : KeyOrder[i] \in keys => \E j \in 1..Len(s) : s[j] = Far(KeyOrder[i])
             /\ \A j, k \in 1..Len(s) : s[j] = s[k] => j = k
           G == {m \in 0..n : Good(read[m], m)}
<1>8. 0 \in G
  <2>1. Len(<<>>) = 0 /\ <<>> \in Seq(S)
    <3> HIDE DEF S
    <3> QED
      BY EmptySeq
  <2>2. 1..0 = {} /\ 0 \in 0..n
    BY <1>0
  <2> HIDE DEF S, Far, keys
  <2>3. Good(<<>>, 0)
    BY <2>1, <2>2
  <2> HIDE DEF Good
  <2> QED
    BY <1>7, <2>2, <2>3
<1>9. ASSUME NEW m \in 0..(n - 1), m \in G PROVE m + 1 \in G
  <2> DEFINE s == read[m]
             k == KeyOrder[m + 1]
  <2>0. m + 1 \in 0..n /\ m + 1 \in 1..n /\ m \in Nat
    BY <1>0
  <2>1. Good(s, m) /\ k \in Key
    BY <1>2, <1>9, <2>0
  <2>2. CASE k \notin keys
    <3>1. read[m + 1] = s
      BY <1>7, <2>2
    <3> HIDE DEF s, Far, keys, S
    <3>2. \A i \in 1..m : i \in 1..(m + 1)
      BY <2>0
    <3>3. \A i \in 1..(m + 1) : KeyOrder[i] \in keys => i \in 1..m
      BY <2>0, <2>2
    <3>4. Good(s, m + 1)
      BY <2>1, <3>2, <3>3
    <3> QED
      BY <2>0, <3>1, <3>4
  <2>3. CASE k \in keys
    <3> DEFINE f == Append(s, Far(k))
    <3>1. read[m + 1] = f
      BY <1>7, <2>3
    <3>2. Far(k) \in S /\ s \in Seq(S)
      BY <2>1
    <3>3. /\ f \in Seq(S) /\ Len(f) = Len(s) + 1 /\ Len(s) \in Nat
          /\ (\A j \in 1..Len(s) : f[j] = s[j]) /\ f[Len(s) + 1] = Far(k)
      <4> HIDE DEF S, s, Far
      <4> QED
        BY <3>2, AppendProperties, LenProperties
    <3>4. ASSUME NEW j \in 1..Len(s) PROVE s[j] # Far(k)
      <4>1. PICK i \in 1..m : KeyOrder[i] \in keys /\ s[j] = Far(KeyOrder[i])
        BY <2>1
      <4>2. i \in 1..n /\ i # m + 1
        BY <1>0, <2>0
      <4>3. KeyOrder[i] # k /\ KeyOrder[i] \in Key
        BY <1>0, <1>2, <2>0, <4>2
      <4> HIDE DEF Far, s, k
      <4> QED
        BY <1>3, <2>1, <4>1, <4>3
    <3> HIDE DEF f, s, Far, keys, S
    <3>5. ASSUME NEW j \in 1..Len(f)
          PROVE  \E i \in 1..(m + 1) : KeyOrder[i] \in keys /\ f[j] = Far(KeyOrder[i])
      <4>1. CASE j \in 1..Len(s)
        <5>1. PICK i \in 1..m : KeyOrder[i] \in keys /\ s[j] = Far(KeyOrder[i])
          BY <2>1, <4>1
        <5>2. i \in 1..(m + 1)
          BY <2>0
        <5> QED
          BY <3>3, <4>1, <5>1, <5>2
      <4>2. CASE j \notin 1..Len(s)
        <5>1. j = Len(s) + 1 /\ m + 1 \in 1..(m + 1)
          BY <2>0, <3>3, <4>2
        <5> QED
          BY <2>3, <3>3, <5>1
      <4> QED
        BY <4>1, <4>2
    <3>6. ASSUME NEW i \in 1..(m + 1), KeyOrder[i] \in keys
          PROVE  \E j \in 1..Len(f) : f[j] = Far(KeyOrder[i])
      <4>1. CASE i \in 1..m
        <5>1. PICK j \in 1..Len(s) : s[j] = Far(KeyOrder[i])
          BY <2>1, <3>6, <4>1
        <5>2. j \in 1..Len(f)
          BY <3>3
        <5> QED
          BY <3>3, <5>1, <5>2
      <4>2. CASE i \notin 1..m
        <5>1. i = m + 1 /\ Len(s) + 1 \in 1..Len(f)
          BY <2>0, <3>3, <4>2
        <5> QED
          BY <3>3, <5>1
      <4> QED
        BY <4>1, <4>2
    <3>7. ASSUME NEW i \in 1..Len(f), NEW j \in 1..Len(f), f[i] = f[j] PROVE i = j
      <4>1. CASE i \in 1..Len(s) /\ j \in 1..Len(s)
        BY <2>1, <3>3, <3>7, <4>1
      <4>2. CASE i \in 1..Len(s) /\ j = Len(s) + 1
        BY <3>3, <3>4, <3>7, <4>2
      <4>3. CASE i = Len(s) + 1 /\ j \in 1..Len(s)
        BY <3>3, <3>4, <3>7, <4>3
      <4>4. CASE i = Len(s) + 1 /\ j = Len(s) + 1
        BY <4>4
      <4> QED
        BY <3>3, <4>1, <4>2, <4>3, <4>4
    <3>8. Good(f, m + 1)
      BY <3>3, <3>5, <3>6, <3>7
    <3> QED
      BY <2>0, <3>1, <3>8
  <2> QED
    BY <2>2, <2>3
<1>10. Good(read[n], n)
  <2>1. 0..n \subseteq G
    <3> HIDE DEF G
    <3> QED
      BY <1>0, <1>8, <1>9, UpTo
  <2>2. n \in G
    <3> HIDE DEF G
    <3> QED
      BY <1>0, <2>1
  <2> HIDE DEF Good
  <2> QED
    BY <2>2
<1> DEFINE refs == read[n]
<1>11. IsSeq(refs) /\ DOMAIN refs = 1..Len(refs)
  BY <1>10, SeqIs, LenProperties
<1> HIDE DEF Far, refs
<1>12. ASSUME NEW i \in DOMAIN refs PROVE \E k \in keys : refs[i] = Far(k)
  BY <1>10, <1>11 DEF refs
<1>13. ASSUME NEW k \in keys PROVE Far(k) \in ToSet(refs)
  <2>1. PICK i \in 1..n : KeyOrder[i] = k
    BY <1>1
  <2>2. PICK j \in 1..Len(refs) : refs[j] = Far(k)
    BY <1>10, <2>1 DEF refs
  <2> QED
    BY <1>11, <2>2 DEF ToSet
<1>14. \A i, j \in DOMAIN refs : refs[i] = refs[j] => i = j
  BY <1>10, <1>11 DEF refs
<1>15. Members(path) = refs
  BY <1>6 DEF refs
<1> QED
  BY <1>11, <1>12, <1>13, <1>14, <1>15 DEF Far

-----------------------------------------------------------------------------
\* An object in a document, and the path to one of its members.
LEMMA ObjectIs ==
  ASSUME NEW doc \in Documents, NEW path \in PathsOf(doc), NodeOf(doc, path).kind = "object"
  PROVE  LET m == NodeOf(doc, path).members
         IN  /\ NodeOf(doc, path) = ObjectValue(m) /\ IsMap(m) /\ DOMAIN m \subseteq Key
             /\ \A k \in DOMAIN m :
                  /\ [key |-> k] \in AnyStep /\ [key |-> k] \in Steps(NodeOf(doc, path))
                  /\ Append(path, [key |-> k]) \in Seq(AnyStep)
                  /\ Reaches(doc, Append(path, [key |-> k]))
                  /\ NodeOf(doc, Append(path, [key |-> k])) = m[k]
<1> DEFINE v == NodeOf(doc, path)
           m == v.members
<1>1. path \in Seq(AnyStep) /\ Reaches(doc, path) /\ Shaped(v)
  BY PathsAreOpen
<1>2. DOMAIN m \subseteq Key /\ v = ObjectValue([k \in DOMAIN m |-> m[k]])
  BY <1>1 DEF Shaped
<1>3. m = [k \in DOMAIN m |-> m[k]] /\ v = ObjectValue(m)
  <2> HIDE DEF v
  <2> QED
    BY <1>2 DEF ObjectValue
<1> HIDE DEF m, v
<1>4. ASSUME NEW k \in DOMAIN m
      PROVE  /\ [key |-> k] \in AnyStep /\ [key |-> k] \in Steps(v)
             /\ Append(path, [key |-> k]) \in Seq(AnyStep)
             /\ Reaches(doc, Append(path, [key |-> k]))
             /\ NodeOf(doc, Append(path, [key |-> k])) = m[k]
  <2> DEFINE s == [key |-> k]
  <2>1. s \in AnyStep /\ IsKey(s) /\ s.key = k
    BY <1>2 DEF AnyStep, IsKey
  <2>2. s \in Steps(v)
    <3>1. Steps(v) = [key : DOMAIN m]
      BY <1>3, StepsAre
    <3> QED
      BY <3>1
  <2> HIDE DEF s
  <2>3. Append(path, s) \in Seq(AnyStep) /\ NodeOf(doc, Append(path, s)) = Child(v, s)
    BY <1>1, <2>1, AppendStep DEF v
  <2>4. Child(v, s) = m[k]
    BY <2>1 DEF Child, m
  <2>5. Reaches(doc, Append(path, s))
    BY <1>1, <2>1, <2>2, ReachFurther DEF v
  <2> QED
    BY <2>1, <2>2, <2>3, <2>4, <2>5 DEF s
<1> QED
  BY <1>2, <1>3, <1>4 DEF m, v, IsMap

\* mergeObject, up to the first member that is read.
LEMMA MergeObjectStep ==
  ASSUME IInv, NEW target \in Paths, NEW other \in Paths, NEW overwrite \in BOOLEAN,
         MergeObject(target, other, overwrite)
  PROVE  IInv'
<1> DEFINE c == [op |-> "mergeObject", target |-> target, other |-> other, overwrite |-> overwrite]
           refs == Members(other)
<1>1. Begin(c) /\ c.target = target /\ c.op = "mergeObject" /\ c.other = other /\ c.overwrite = overwrite
  BY DEF MergeObject
<1>2. \/ Throw
      \/ Objects(target, other) /\ ReadEach(refs, "insert")
  BY DEF MergeObject
<1> HIDE DEF c
<1>3. /\ root = before /\ before' = before /\ call' = c /\ before \in Documents
      /\ target \in PathsOf(before) /\ ~relocated /\ relocated \in BOOLEAN
      /\ (pc' \in {"assign", "push", "insert", "returned", "threw"} /\ relocated' \in BOOLEAN => Began')
  BY <1>1, BegunCall DEF IInv, Began
<1>4. CASE Throw
  BY <1>1, <1>4, ThrowStep
<1>5. CASE Objects(target, other) /\ ReadEach(refs, "insert")
  <2>1. pc' = "insert" /\ root' = root /\ relocated' = relocated /\ sources' = refs
    BY <1>5 DEF ReadEach
  <2>2. Began'
    BY <1>3, <2>1
  <2> DEFINE v == NodeOf(before, target)
             u == NodeOf(before, other)
  <2>3. other \in PathsOf(before) /\ v.kind = "object" /\ u.kind = "object"
    BY <1>3, <1>5 DEF Objects, Paths, Node
  <2>4. /\ v = ObjectValue(v.members) /\ IsMap(v.members)
        /\ DOMAIN u.members \subseteq Key
    BY <1>3, <2>3, ObjectIs
  <2>5. Open(before, target) /\ Reaches(before, target) /\ other \in Seq(AnyStep)
    BY <1>3, <2>3, PathsAreOpen
  <2>6. Node(other) = u
    BY <1>3 DEF Node
  <2>7. /\ IsSeq(refs)
        /\ \A i \in DOMAIN refs : \E k \in DOMAIN u.members : refs[i] = Append(other, [key |-> k])
        /\ \A k \in DOMAIN u.members : Append(other, [key |-> k]) \in ToSet(refs)
        /\ \A i, j \in DOMAIN refs : refs[i] = refs[j] => i = j
    BY <2>4, <2>5, <2>6, MembersAre
  <2>8. /\ call'.op = "mergeObject" /\ call'.target = target /\ call'.other = other
        /\ call'.overwrite = overwrite
    BY <1>1, <1>3
  <2>9. /\ Was(call.target)' = v /\ Was(call.other)' = u /\ Node(call.target)' = v
        /\ PathsOf(before)' = PathsOf(before)
        /\ \A k : Ref(k)' = Append(other, [key |-> k])
    BY <1>3, <2>1, <2>8 DEF Was, Node, Ref
  <2> HIDE DEF v, u, refs
  <2>10. KeysRead' = {}
    <3>1. KeysRead' = {k \in DOMAIN u.members : Append(other, [key |-> k]) \notin ToSet(refs)}
      BY <2>1, <2>9 DEF KeysRead
    <3> QED
      BY <2>7, <3>1
  <2>11. root' = Replace(before', call'.target, v)
    <3>1. Replace(before, target, v) = before
      BY <2>5, ReplaceSame DEF v
    <3> QED
      BY <1>3, <2>1, <2>8, <3>1
  <2>12. /\ call'.op = "mergeObject" /\ call'.other \in PathsOf(before)' /\ call'.overwrite \in BOOLEAN
         /\ (Was(call.target).kind)' = "object" /\ (Was(call.other).kind)' = "object"
    BY <2>3, <2>8, <2>9 DEF v, u
  <2>13. /\ IsSeq(sources')
         /\ \A i \in DOMAIN sources' : \E k \in DOMAIN (Was(call.other).members)' : sources'[i] = Ref(k)'
         /\ \A i, j \in DOMAIN sources' : sources'[i] = sources'[j] => i = j
    BY <2>1, <2>7, <2>9
  <2>14. /\ root' = Replace(before', call'.target, Node(call.target)')
         /\ Node(call.target)' = ObjectValue((Node(call.target).members)')
         /\ IsMap((Node(call.target).members)')
         /\ DOMAIN (Node(call.target).members)' = DOMAIN (Was(call.target).members)' \cup KeysRead'
    BY <2>4, <2>9, <2>10, <2>11 DEF v
  <2>15. (Node(call.target).members)' = (Was(call.target).members)'
    BY <2>9
  <2>16. Inserted'
    BY <2>10, <2>12, <2>13, <2>14, <2>15 DEF Inserted
  <2> QED
    BY <2>1, <2>2, <2>16, Elsewhere DEF IInv
<1> QED
  BY <1>2, <1>4, <1>5

-----------------------------------------------------------------------------
\* Where two paths lie with respect to each other.
LEMMA SamePath ==
  ASSUME NEW a \in Seq(AnyStep), NEW b \in Seq(AnyStep), Len(a) = Len(b),
         \A i \in 1..Len(a) : a[i] = b[i]
  PROVE  a = b
<1>1. a = [i \in 1..Len(a) |-> a[i]] /\ b = [i \in 1..Len(b) |-> b[i]]
  BY LenProperties
<1> DEFINE n == Len(a)
<1>2. a = [i \in 1..n |-> a[i]] /\ b = [i \in 1..n |-> b[i]] /\ \A i \in 1..n : a[i] = b[i]
  BY <1>1
<1> HIDE DEF n
<1> QED
  BY <1>2

\* Being inside, step by step, and for paths with one step more.
LEMMA InsideIs ==
  ASSUME NEW a \in Seq(AnyStep), NEW b \in Seq(AnyStep)
  PROVE  Inside(a, b) <=> Len(b) < Len(a) /\ \A i \in 1..Len(b) : a[i] = b[i]
<1>0. Len(a) \in Nat /\ Len(b) \in Nat
  BY LenProperties
<1>1. ASSUME Inside(a, b) PROVE Len(b) < Len(a) /\ \A i \in 1..Len(b) : a[i] = b[i]
  <2>1. Len(b) <= Len(a) /\ \A i \in 1..Len(b) : a[i] = b[i]
    BY <1>1, PrefixIs DEF Inside
  <2>2. Len(b) # Len(a)
    BY <1>1, <2>1, SamePath DEF Inside
  <2> QED
    BY <1>0, <2>1, <2>2
<1>2. ASSUME Len(b) < Len(a), \A i \in 1..Len(b) : a[i] = b[i] PROVE Inside(a, b)
  BY <1>0, <1>2, PrefixIs DEF Inside
<1> QED
  BY <1>1, <1>2

LEMMA InsideBelow ==
  ASSUME NEW a \in Seq(AnyStep), NEW b \in Seq(AnyStep), NEW r \in AnyStep, NEW s \in AnyStep
  PROVE  Inside(Append(a, r), Append(b, s)) <=> Inside(a, b) /\ a[Len(b) + 1] = s
<1> DEFINE p == Append(a, r)
           q == Append(b, s)
<1>1. /\ p \in Seq(AnyStep) /\ Len(p) = Len(a) + 1 /\ Len(a) \in Nat
      /\ (\A i \in 1..Len(a) : p[i] = a[i])
  BY AppendStep, LenProperties
<1>2. /\ q \in Seq(AnyStep) /\ Len(q) = Len(b) + 1 /\ Len(b) \in Nat
      /\ (\A i \in 1..Len(b) : q[i] = b[i]) /\ q[Len(b) + 1] = s
  BY AppendStep, LenProperties
<1> HIDE DEF p, q
<1>3. Inside(p, q) <=> Len(q) < Len(p) /\ \A i \in 1..Len(q) : p[i] = q[i]
  BY <1>1, <1>2, InsideIs
<1>4. Inside(a, b) <=> Len(b) < Len(a) /\ \A i \in 1..Len(b) : a[i] = b[i]
  BY InsideIs
<1>5. ASSUME Inside(p, q) PROVE Inside(a, b) /\ a[Len(b) + 1] = s
  <2>1. Len(b) < Len(a) /\ Len(b) + 1 \in 1..Len(q) /\ Len(b) + 1 \in 1..Len(a)
    BY <1>1, <1>2, <1>3, <1>5
  <2>2. \A i \in 1..Len(b) : i \in 1..Len(q) /\ i \in 1..Len(a)
    BY <1>1, <1>2, <2>1
  <2> QED
    BY <1>1, <1>2, <1>3, <1>4, <1>5, <2>1, <2>2
<1>6. ASSUME Inside(a, b), a[Len(b) + 1] = s PROVE Inside(p, q)
  <2>1. Len(b) < Len(a) /\ \A i \in 1..Len(b) : a[i] = b[i]
    BY <1>4, <1>6
  <2>2. Len(q) < Len(p)
    BY <1>1, <1>2, <2>1
  <2>3. ASSUME NEW i \in 1..Len(q) PROVE p[i] = q[i]
    <3>1. i \in 1..Len(a) /\ (i \in 1..Len(b) \/ i = Len(b) + 1)
      BY <1>1, <1>2, <2>1
    <3> QED
      BY <1>1, <1>2, <1>6, <2>1, <3>1
  <2> QED
    BY <1>3, <2>2, <2>3
<1> QED
  BY <1>5, <1>6 DEF p, q

\* Of two nested paths, the step by which the outer leads to the inner.
LEMMA TowardsIs ==
  ASSUME NEW a \in Seq(AnyStep), NEW b \in Seq(AnyStep), Inside(a, b)
  PROVE  ~Inside(b, a) /\ Towards(a, b) = a[Len(b) + 1] /\ Towards(b, a) = a[Len(b) + 1]
<1>1. ~Inside(b, a)
  BY InsideIs, LenProperties
<1> QED
  BY <1>1 DEF Towards

-----------------------------------------------------------------------------
\* The parts of Inserted, by name, while there is a member left to read: the
\* next one has not been read.
LEMMA InsertingIs ==
  ASSUME IInv, pc = "insert"
  PROVE  LET t == call.target
             o == call.other
             old == Was(t).members
             other == Was(o).members
             new == Node(t).members
         IN  /\ t \in Seq(AnyStep) /\ o \in Seq(AnyStep)
             /\ Open(before, t) /\ Reaches(before, t) /\ Reaches(before, o)
             /\ Was(t) = ObjectValue(old) /\ IsMap(old) /\ Was(o) = ObjectValue(other) /\ IsMap(other)
             /\ Node(t) = ObjectValue(new) /\ IsMap(new)
             /\ \A k \in DOMAIN other :
                  /\ [key |-> k] \in AnyStep /\ [key |-> k] \in Steps(Was(o))
                  /\ Ref(k) \in Seq(AnyStep) /\ Reaches(before, Ref(k)) /\ Was(Ref(k)) = other[k]
             /\ \A k, l \in DOMAIN other : Ref(k) = Ref(l) => k = l
<1>1. pc # "ready"
  OBVIOUS
<1>2. before \in Documents /\ call.target \in PathsOf(before) /\ call.other \in PathsOf(before)
  BY <1>1, TargetIs DEF IInv, Inserted
<1>3. NodeOf(before, call.target).kind = "object" /\ NodeOf(before, call.other).kind = "object"
  BY DEF IInv, Inserted, Was
<1>4. /\ call.target \in Seq(AnyStep) /\ call.other \in Seq(AnyStep)
      /\ Open(before, call.target) /\ Reaches(before, call.target) /\ Reaches(before, call.other)
  BY <1>2, PathsAreOpen
<1>5. /\ Was(call.target) = ObjectValue(Was(call.target).members) /\ IsMap(Was(call.target).members)
  BY <1>2, <1>3, ObjectIs DEF Was
<1> DEFINE other == Was(call.other).members
<1>6. /\ Was(call.other) = ObjectValue(other) /\ IsMap(other)
      /\ \A k \in DOMAIN other :
           /\ [key |-> k] \in AnyStep /\ [key |-> k] \in Steps(Was(call.other))
           /\ Ref(k) \in Seq(AnyStep) /\ Reaches(before, Ref(k)) /\ Was(Ref(k)) = other[k]
  BY <1>2, <1>3, ObjectIs DEF Was, Ref
<1>7. Node(call.target) = ObjectValue(Node(call.target).members) /\ IsMap(Node(call.target).members)
  BY DEF IInv, Inserted
<1>8. ASSUME NEW k \in DOMAIN other, NEW l \in DOMAIN other, Ref(k) = Ref(l) PROVE k = l
  <2>1. [key |-> k] \in AnyStep /\ [key |-> l] \in AnyStep
    BY <1>6
  <2>2. Ref(k)[Len(call.other) + 1] = [key |-> k] /\ Ref(l)[Len(call.other) + 1] = [key |-> l]
    BY <1>4, <2>1, AppendStep DEF Ref
  <2>3. [key |-> k] = [key |-> l]
    BY <1>8, <2>2
  <2> QED
    BY <2>3
<1> QED
  BY <1>4, <1>5, <1>6, <1>7, <1>8

\* The member that is read next.
LEMMA NextIs ==
  ASSUME IInv, pc = "insert", sources # <<>>
  PROVE  \E k \in DOMAIN Was(call.other).members :
           /\ Head(sources) = Ref(k) /\ Last(Head(sources)).key = k
           /\ k \notin KeysRead
           /\ {l \in DOMAIN Was(call.other).members : Ref(l) \notin ToSet(Tail(sources))}
                = KeysRead \cup {k}
           /\ IsSeq(Tail(sources))
           /\ \A i \in DOMAIN Tail(sources) :
                \E l \in DOMAIN Was(call.other).members : Tail(sources)[i] = Ref(l)
           /\ \A i, j \in DOMAIN Tail(sources) : Tail(sources)[i] = Tail(sources)[j] => i = j
<1> DEFINE other == Was(call.other).members
           rest == Tail(sources)
<1>1. /\ IsSeq(sources)
      /\ \A i \in DOMAIN sources : \E l \in DOMAIN other : sources[i] = Ref(l)
      /\ \A i, j \in DOMAIN sources : sources[i] = sources[j] => i = j
  BY DEF IInv, Inserted
<1>2. /\ call.other \in Seq(AnyStep)
      /\ \A k \in DOMAIN other : [key |-> k] \in AnyStep
      /\ \A k, l \in DOMAIN other : Ref(k) = Ref(l) => k = l
  BY InsertingIs
<1> HIDE DEF other
<1>3. /\ Len(sources) \in Nat /\ Len(sources) >= 1 /\ DOMAIN sources = 1..Len(sources)
      /\ Head(sources) = sources[1]
      /\ rest \in Seq(ToSet(sources)) /\ Len(rest) = Len(sources) - 1
      /\ \A i \in 1..Len(rest) : rest[i] = sources[i + 1]
  <2>1. sources \in Seq(ToSet(sources)) /\ sources # <<>>
    BY <1>1 DEF IsSeq
  <2>2. /\ Head(sources) = sources[1]
        /\ rest \in Seq(ToSet(sources)) /\ Len(rest) = Len(sources) - 1
        /\ \A i \in 1..Len(rest) : rest[i] = sources[i + 1]
    BY <2>1, HeadTailProperties
  <2>3. Len(sources) \in Nat /\ DOMAIN sources = 1..Len(sources) /\ Len(sources) # 0
    BY <2>1, LenProperties, EmptySeq
  <2> QED
    BY <2>2, <2>3
<1>4. DOMAIN rest = 1..(Len(sources) - 1) /\ IsSeq(rest)
  BY <1>3, SeqIs, LenProperties
<1> HIDE DEF rest
<1>5. PICK k \in DOMAIN other : sources[1] = Ref(k)
  BY <1>1, <1>3
<1>6. Last(Head(sources)).key = k
  <2>1. Ref(k)[Len(Ref(k))] = [key |-> k]
    <3>1. [key |-> k] \in AnyStep
      BY <1>2
    <3>2. Len(Ref(k)) = Len(call.other) + 1 /\ Ref(k)[Len(call.other) + 1] = [key |-> k]
      BY <1>2, <3>1, AppendStep DEF Ref
    <3> QED
      BY <3>2
  <2> QED
    BY <1>3, <1>5, <2>1 DEF Last
<1>7. k \notin KeysRead
  <2>1. Ref(k) \in ToSet(sources)
    BY <1>3, <1>5 DEF ToSet
  <2> QED
    BY <2>1 DEF KeysRead
<1>8. ASSUME NEW l \in DOMAIN other
      PROVE  Ref(l) \in ToSet(sources) <=> l = k \/ Ref(l) \in ToSet(rest)
  <2>1. ASSUME Ref(l) \in ToSet(sources), l # k PROVE Ref(l) \in ToSet(rest)
    <3>1. PICK i \in 1..Len(sources) : sources[i] = Ref(l)
      BY <1>3, <2>1 DEF ToSet
    <3>2. i # 1
      BY <1>2, <1>5, <2>1, <3>1
    <3>3. i - 1 \in 1..(Len(sources) - 1) /\ (i - 1) + 1 = i
      BY <1>3, <3>2
    <3>4. rest[i - 1] = Ref(l)
      BY <1>3, <3>1, <3>3
    <3> QED
      BY <1>4, <3>3, <3>4 DEF ToSet
  <2>2. ASSUME Ref(l) \in ToSet(rest) PROVE Ref(l) \in ToSet(sources)
    <3>1. PICK i \in 1..(Len(sources) - 1) : rest[i] = Ref(l)
      BY <1>4, <2>2 DEF ToSet
    <3>2. i + 1 \in DOMAIN sources /\ sources[i + 1] = Ref(l)
      BY <1>3, <3>1
    <3> QED
      BY <3>2 DEF ToSet
  <2>3. Ref(k) \in ToSet(sources)
    BY <1>3, <1>5 DEF ToSet
  <2> QED
    BY <2>1, <2>2, <2>3
<1>9. Ref(k) \notin ToSet(rest)
  <2> SUFFICES ASSUME Ref(k) \in ToSet(rest) PROVE FALSE
    OBVIOUS
  <2>1. PICK i \in 1..(Len(sources) - 1) : rest[i] = Ref(k)
    BY <1>4 DEF ToSet
  <2>2. i + 1 \in DOMAIN sources /\ 1 \in DOMAIN sources /\ i + 1 # 1 /\ sources[i + 1] = sources[1]
    BY <1>3, <1>5, <2>1
  <2> QED
    BY <1>1, <2>2
<1>10. {l \in DOMAIN other : Ref(l) \notin ToSet(rest)} = KeysRead \cup {k}
  <2>1. KeysRead = {l \in DOMAIN other : Ref(l) \notin ToSet(sources)}
    BY DEF KeysRead, other
  <2> QED
    BY <1>8, <1>9, <2>1
<1>11. ASSUME NEW i \in DOMAIN rest PROVE \E l \in DOMAIN other : rest[i] = Ref(l)
  BY <1>1, <1>3, <1>4
<1>12. ASSUME NEW i \in DOMAIN rest, NEW j \in DOMAIN rest, rest[i] = rest[j] PROVE i = j
  <2>1. i + 1 \in DOMAIN sources /\ j + 1 \in DOMAIN sources /\ sources[i + 1] = sources[j + 1]
    BY <1>3, <1>4, <1>12
  <2>2. i + 1 = j + 1
    BY <1>1, <2>1
  <2> QED
    BY <1>3, <1>4, <2>2
<1> QED
  BY <1>3, <1>4, <1>5, <1>6, <1>7, <1>10, <1>11, <1>12 DEF other, rest

\* A member that would be replaced while it is read, or while what it holds is
\* iterated over, is one a caller has to avoid.
LEMMA InsertHazard ==
  ASSUME IInv, pc = "insert", NEW k \in DOMAIN Was(call.other).members, k \notin KeysRead,
         k \in DOMAIN Node(call.target).members, call.overwrite,
         Inside(Ref(k), Append(call.target, [key |-> k])) \/ Inside(Append(call.target, [key |-> k]), Ref(k))
  PROVE  Hazardous
<1> DEFINE t == call.target
           o == call.other
           s == [key |-> k]
<1>1. /\ t \in Seq(AnyStep) /\ o \in Seq(AnyStep) /\ s \in AnyStep /\ s \in Steps(Was(o))
      /\ Was(t) = ObjectValue(Was(t).members)
  BY InsertingIs
<1>2. call.op = "mergeObject" /\ DOMAIN Node(t).members = DOMAIN Was(t).members \cup KeysRead
  BY DEF IInv, Inserted
<1>3. s \in Steps(Was(t))
  <2>1. k \in DOMAIN Was(t).members
    BY <1>2
  <2>2. Steps(Was(t)) = [key : DOMAIN Was(t).members]
    BY <1>1, StepsAre
  <2> QED
    BY <2>1, <2>2
<1>4. Towards(t, o) = s /\ Nested(t, o)
  <2>1. CASE Inside(Append(o, s), Append(t, s))
    <3>1. Inside(o, t) /\ o[Len(t) + 1] = s
      BY <1>1, <2>1, InsideBelow
    <3> QED
      BY <1>1, <3>1, TowardsIs DEF Nested
  <2>2. CASE Inside(Append(t, s), Append(o, s))
    <3>1. Inside(t, o) /\ t[Len(o) + 1] = s
      BY <1>1, <2>2, InsideBelow
    <3> QED
      BY <1>1, <3>1, TowardsIs DEF Nested
  <2> QED
    BY <2>1, <2>2 DEF Ref
<1> QED
  BY <1>1, <1>2, <1>3, <1>4 DEF Hazardous

\* What is read next is what it was when the call was made.
LEMMA InsertReads ==
  ASSUME IInv, pc = "insert", NEW k \in DOMAIN Was(call.other).members, k \notin KeysRead, ~ReadsTarget
  PROVE  Node(Ref(k)) = Was(call.other).members[k]
<1> DEFINE t == call.target
           o == call.other
           p == Ref(k)
           s == [key |-> k]
           old == Was(t).members
           new == Node(t).members
<1>1. /\ t \in Seq(AnyStep) /\ o \in Seq(AnyStep) /\ p \in Seq(AnyStep) /\ s \in AnyStep
      /\ Open(before, t) /\ Reaches(before, t) /\ Reaches(before, o) /\ Reaches(before, p)
      /\ Was(t) = ObjectValue(old) /\ Node(t) = ObjectValue(new)
      /\ Was(p) = Was(o).members[k]
  BY InsertingIs
<1>2. /\ call.op = "mergeObject"
      /\ root = Replace(before, t, Node(t))
      /\ \A l \in DOMAIN old : ~(call.overwrite /\ l \in KeysRead) => new[l] = old[l]
      /\ call.overwrite /\ Inside(o, t) => \A l \in KeysRead : Towards(t, o) # [key |-> l]
  BY DEF IInv, Inserted
<1>3. ~Inside(t, o)
  BY <1>2 DEF ReadsTarget
<1>4. CASE t = o
  <2>1. k \in DOMAIN old /\ new[k] = old[k]
    BY <1>2, <1>4
  <2>2. Node(p) = Child(Node(t), s)
    BY <1>1, <1>4, AppendStep DEF Ref, Node
  <2>3. Child(Node(t), s) = new[k]
    BY DEF Child, IsKey
  <2> QED
    BY <1>4, <2>1, <2>2, <2>3
<1>5. CASE t # o
  <2>1. ~IsPrefix(o, t)
    BY <1>3, <1>5 DEF Inside
  <2>2. /\ Len(p) = Len(o) + 1 /\ Len(o) \in Nat /\ Len(t) \in Nat
        /\ \A i \in 1..Len(o) : p[i] = o[i]
    BY <1>1, AppendStep, LenProperties DEF Ref
  <2>3. ~IsPrefix(p, t)
    <3> SUFFICES ASSUME IsPrefix(p, t) PROVE FALSE
      OBVIOUS
    <3>1. Len(p) <= Len(t) /\ \A i \in 1..Len(p) : t[i] = p[i]
      BY <1>1, PrefixIs
    <3>2. Len(o) <= Len(t) /\ \A i \in 1..Len(o) : t[i] = o[i]
      BY <2>2, <3>1
    <3> QED
      BY <1>1, <2>1, <3>2, PrefixIs
  <2>4. ASSUME IsPrefix(t, p)
        PROVE  Child(Node(t), p[Len(t) + 1]) = Child(NodeOf(before, t), p[Len(t) + 1])
    <3>1. Len(t) <= Len(p) /\ \A i \in 1..Len(t) : p[i] = t[i]
      BY <1>1, <2>4, PrefixIs
    <3>2. Len(t) # Len(p)
      BY <1>1, <2>3, <2>4, <3>1, PrefixIs
    <3>3. Len(t) <= Len(o) /\ \A i \in 1..Len(t) : o[i] = t[i]
      BY <2>2, <3>1, <3>2
    <3>4. Len(t) # Len(o)
      BY <1>1, <1>5, <3>3, SamePath
    <3>5. Inside(o, t)
      BY <1>1, <2>2, <3>3, <3>4, InsideIs
    <3> DEFINE x == o[Len(t) + 1]
    <3>6. p[Len(t) + 1] = x /\ Towards(t, o) = x
      <4>1. Len(t) + 1 \in 1..Len(o)
        BY <2>2, <3>3, <3>4
      <4> QED
        BY <1>1, <2>2, <3>5, <4>1, TowardsIs
    <3>7. x \in Steps(Was(t))
      <4>1. Len(t) + 1 \in DOMAIN o /\ (Len(t) + 1) - 1 = Len(t)
        <5>1. DOMAIN o = 1..Len(o)
          BY <1>1, LenProperties
        <5> QED
          BY <2>2, <3>3, <3>4, <5>1
      <4>2. Along(before, o)[Len(t)] = Along(before, t)[Len(t)]
        BY <2>2, <3>3, AlikeUpTo
      <4>3. x \in Steps(Along(before, o)[Len(t)])
        BY <1>1, <4>1 DEF Reaches
      <4> QED
        BY <4>2, <4>3 DEF Was, NodeOf
    <3>8. x \in [key : DOMAIN old]
      <4>1. Steps(Was(t)) = [key : DOMAIN old]
        BY <1>1, StepsAre
      <4> QED
        BY <3>7, <4>1
    <3> HIDE DEF x
    <3>9. PICK l \in DOMAIN old : x = [key |-> l]
      BY <3>8
    <3>10. ~(call.overwrite /\ l \in KeysRead)
      BY <1>2, <3>5, <3>6, <3>9
    <3>11. new[l] = old[l]
      BY <1>2, <3>10
    <3>12. Child(Node(t), x) = new[l] /\ Child(Was(t), x) = old[l]
      BY <3>9 DEF Child, IsKey
    <3> QED
      BY <3>6, <3>11, <3>12 DEF Was
  <2> DEFINE v == Node(t)
  <2>5. root = Replace(before, t, v)
    BY <1>2
  <2> HIDE DEF v, p
  <2>6. NodeOf(Replace(before, t, v), p) = NodeOf(before, p)
    BY <1>1, <2>3, <2>4, NodeStays DEF v
  <2> QED
    BY <1>1, <2>5, <2>6 DEF p, Was, Node
<1> QED
  BY <1>4, <1>5

\* A member more in the target: the document, and the target in it.
LEMMA InsertDoes ==
  ASSUME IInv, pc = "insert", NEW k \in DOMAIN Was(call.other).members, NEW x,
         call' = call, root' = With(Append(call.target, [key |-> k]), x)
  PROVE  LET new == Over(Member(k, x), Node(call.target).members)
         IN  /\ root' = Replace(before, call.target, ObjectValue(new))
             /\ Node(call.target)' = ObjectValue(new) /\ (Node(call.target).members)' = new
<1> DEFINE t == call.target
           s == [key |-> k]
           m == Node(t).members
           new == Over(Member(k, x), m)
           w == ObjectValue(new)
<1>1. /\ t \in Seq(AnyStep) /\ s \in AnyStep /\ Open(before, t) /\ Node(t) = ObjectValue(m)
  BY InsertingIs
<1>2. root = Replace(before, t, Node(t))
  BY DEF IInv, Inserted
<1>3. SetChild(Node(t), s, x) = w
  <2>1. \A y : SetChild(ObjectValue(y), s, x) = ObjectValue(Over(Member(k, x), y))
    BY DEF SetChild, ObjectValue, IsKey
  <2> HIDE DEF m
  <2> QED
    BY <1>1, <2>1
<1>4. root' = Replace(root, t, w)
  <2>1. root' = Replace(root, Append(t, s), x)
    BY DEF With
  <2> HIDE DEF s, w
  <2> QED
    BY <1>1, <1>3, <2>1, ReplaceChild DEF Node
<1>5. root' = Replace(before, t, w)
  <2> DEFINE v == Node(t)
  <2>1. root' = Replace(Replace(before, t, v), t, w)
    BY <1>2, <1>4
  <2> HIDE DEF w, v
  <2> QED
    BY <1>1, <2>1, ReplaceTwice
<1>6. Node(t)' = w
  <2>1. NodeOf(root', t) = w
    <3> HIDE DEF w
    <3> QED
      BY <1>1, <1>5, ReplaceNode
  <2> QED
    BY <2>1 DEF Node
<1>7. (Node(t).members)' = new
  <2>1. w.members = new
    BY DEF ObjectValue
  <2> QED
    BY <1>6, <2>1
<1> QED
  BY <1>5, <1>6, <1>7

\* One member more, by the way the other object is nested with the target.
LEMMA InsertStep ==
  ASSUME IInv, Insert
  PROVE  IInv'
<1> DEFINE t == call.target
           o == call.other
           old == Was(t).members
           other == Was(o).members
           new == Node(t).members
           p == Head(sources)
<1>0. pc = "insert" /\ sources # <<>> /\ UNCHANGED <<growth, call, before>>
  BY DEF Insert
<1>1. PICK k \in DOMAIN other :
        /\ p = Ref(k) /\ Last(p).key = k
        /\ k \notin KeysRead
        /\ {l \in DOMAIN other : Ref(l) \notin ToSet(Tail(sources))} = KeysRead \cup {k}
        /\ IsSeq(Tail(sources))
        /\ \A i \in DOMAIN Tail(sources) : \E l \in DOMAIN other : Tail(sources)[i] = Ref(l)
        /\ \A i, j \in DOMAIN Tail(sources) : Tail(sources)[i] = Tail(sources)[j] => i = j
  BY <1>0, NextIs
<1> DEFINE slot == Append(t, [key |-> k])
           bad == k \in DOMAIN new /\ (Inside(p, slot) \/ SelfAssigns(slot, p))
<1>2. \/ ~Skips(k) /\ bad /\ Settle("undefined", root)
      \/ /\ Skips(k) \/ ~bad
         /\ root' = IF Skips(k) THEN root ELSE With(slot, Node(p))
         /\ sources' = NextMember(Skips(k))
         /\ UNCHANGED <<relocated, pc>>
  BY <1>1 DEF Insert
<1>3. /\ /\ t \in Seq(AnyStep) /\ o \in Seq(AnyStep) /\ Reaches(before, t) /\ Reaches(before, o)
         /\ Was(t) = ObjectValue(old) /\ IsMap(old) /\ Was(o) = ObjectValue(other)
         /\ Node(t) = ObjectValue(new) /\ IsMap(new)
         /\ [key |-> k] \in AnyStep
      /\ /\ call.op = "mergeObject" /\ call.other \in PathsOf(before) /\ call.overwrite \in BOOLEAN
         /\ Was(t).kind = "object" /\ Was(o).kind = "object"
         /\ root = Replace(before, t, Node(t)) /\ DOMAIN new = DOMAIN old \cup KeysRead
         /\ \A l \in DOMAIN old : ~(call.overwrite /\ l \in KeysRead) => new[l] = old[l]
         /\ ~ReadsTarget => \A l \in KeysRead : call.overwrite \/ l \notin DOMAIN old => new[l] = other[l]
         /\ call.overwrite /\ Inside(o, t) => \A l \in KeysRead : Towards(t, o) # [key |-> l]
  <2>1. /\ t \in Seq(AnyStep) /\ o \in Seq(AnyStep) /\ Reaches(before, t) /\ Reaches(before, o)
        /\ Was(t) = ObjectValue(old) /\ IsMap(old) /\ Was(o) = ObjectValue(other)
        /\ Node(t) = ObjectValue(new) /\ IsMap(new)
        /\ [key |-> k] \in AnyStep
    BY <1>0, InsertingIs
  <2>2. /\ call.op = "mergeObject" /\ call.other \in PathsOf(before) /\ call.overwrite \in BOOLEAN
        /\ Was(t).kind = "object" /\ Was(o).kind = "object"
        /\ root = Replace(before, t, Node(t)) /\ DOMAIN new = DOMAIN old \cup KeysRead
        /\ \A l \in DOMAIN old : ~(call.overwrite /\ l \in KeysRead) => new[l] = old[l]
        /\ ~ReadsTarget => \A l \in KeysRead : call.overwrite \/ l \notin DOMAIN old => new[l] = other[l]
        /\ call.overwrite /\ Inside(o, t) => \A l \in KeysRead : Towards(t, o) # [key |-> l]
    BY <1>0 DEF IInv, Inserted
  <2> QED
    BY <2>1, <2>2
<1>4. Skips(k) <=> ~call.overwrite /\ k \in DOMAIN new
  BY DEF Skips
<1>5. CASE ~Skips(k) /\ bad /\ Settle("undefined", root)
  <2>1. call.overwrite /\ k \in DOMAIN new
    BY <1>4, <1>5
  <2>2. Inside(Ref(k), slot) \/ Inside(slot, Ref(k))
    BY <1>1, <1>5 DEF SelfAssigns, Nested
  <2>3. Hazardous
    BY <1>0, <1>1, <2>1, <2>2, InsertHazard
  <2> QED
    BY <1>0, <1>5, <2>3, UndefinedStep
<1>6. CASE /\ Skips(k) \/ ~bad
           /\ root' = IF Skips(k) THEN root ELSE With(slot, Node(p))
           /\ sources' = NextMember(Skips(k))
           /\ UNCHANGED <<relocated, pc>>
  <2>1. pc' = "insert" /\ relocated' = relocated /\ sources' = Tail(sources)
        /\ call' = call /\ before' = before /\ growth' = growth
    BY <1>0, <1>6 DEF NextMember
  <2>2. Began'
    <3>1. relocated' \in BOOLEAN
      BY <2>1 DEF IInv, Began
    <3> QED
      BY <1>0, <2>1, <3>1, BegunStill
  <2>3. /\ (\A q : Was(q)' = Was(q)) /\ ReadsTarget' = ReadsTarget
        /\ PathsOf(before)' = PathsOf(before) /\ (\A l : Ref(l)' = Ref(l))
        /\ (Was(call.target))' = Was(t) /\ (Was(call.other))' = Was(o)
    BY <2>1 DEF Was, ReadsTarget, Ref
  <2>4. KeysRead' = KeysRead \cup {k}
    <3>1. KeysRead' = {l \in DOMAIN other : Ref(l) \notin ToSet(Tail(sources))}
      BY <2>1, <2>3 DEF KeysRead
    <3> QED
      BY <1>1, <3>1
  <2> DEFINE made == (Node(call.target).members)'
  <2>5. /\ root' = Replace(before, t, ObjectValue(made)) /\ Node(call.target)' = ObjectValue(made)
        /\ IsMap(made) /\ DOMAIN made = DOMAIN new \cup {k}
        /\ \A l \in DOMAIN new : l # k => made[l] = new[l]
        /\ IF Skips(k) THEN made[k] = new[k] ELSE made[k] = Node(p)
    <3>1. CASE Skips(k)
      <4>1. root' = root
        BY <1>6, <3>1
      <4>2. Node(call.target)' = Node(t)
        BY <2>1, <4>1 DEF Node
      <4>3. made = new /\ k \in DOMAIN new
        BY <1>4, <3>1, <4>2
      <4> HIDE DEF made, new
      <4> QED
        BY <1>3, <3>1, <4>1, <4>2, <4>3
    <3>2. CASE ~Skips(k)
      <4> DEFINE x == Node(p)
                 over == Over(Member(k, x), new)
      <4>1. root' = With(slot, x)
        BY <1>6, <3>2
      <4>2. root' = Replace(before, t, ObjectValue(over)) /\ Node(call.target)' = ObjectValue(over) /\ made = over
        <5> HIDE DEF x
        <5> QED
          BY <1>0, <2>1, <4>1, InsertDoes
      <4>3. /\ IsMap(over) /\ DOMAIN over = DOMAIN new \cup {k}
            /\ (\A l \in DOMAIN new : l # k => over[l] = new[l]) /\ over[k] = x
        <5> HIDE DEF x, new
        <5> QED
          BY DEF Over, Member, IsMap
      <4> HIDE DEF made, over, new, x
      <4> QED
        BY <3>2, <4>2, <4>3 DEF x
    <3> QED
      BY <3>1, <3>2
  <2> HIDE DEF made, new, old, other, t, o, p
  <2>6. DOMAIN made = DOMAIN old \cup KeysRead'
    BY <1>3, <2>4, <2>5
  <2>7. ASSUME NEW l \in DOMAIN old, ~(call.overwrite /\ l \in KeysRead')
        PROVE  made[l] = old[l]
    <3>1. l \in DOMAIN new /\ ~(call.overwrite /\ l \in KeysRead)
      BY <1>3, <2>4, <2>7
    <3>2. new[l] = old[l]
      BY <1>3, <3>1
    <3>3. CASE l = k
      <4>1. Skips(k)
        BY <1>4, <2>4, <2>7, <3>1, <3>3
      <4> QED
        BY <2>5, <3>2, <3>3, <4>1
    <3>4. CASE l # k
      BY <2>5, <3>1, <3>2, <3>4
    <3> QED
      BY <3>3, <3>4
  <2>8. ASSUME ~ReadsTarget, NEW l \in KeysRead', call.overwrite \/ l \notin DOMAIN old
        PROVE  made[l] = other[l]
    <3>1. CASE l = k
      <4>1. ~Skips(k)
        <5> SUFFICES ASSUME Skips(k) PROVE FALSE
          OBVIOUS
        <5>1. ~call.overwrite /\ k \in DOMAIN new
          BY <1>4
        <5>2. k \in DOMAIN old
          BY <1>1, <1>3, <5>1
        <5> QED
          BY <2>8, <3>1, <5>1, <5>2
      <4>2. made[k] = Node(p)
        BY <2>5, <4>1
      <4>3. Node(Ref(k)) = other[k]
        BY <1>0, <1>1, <2>8, InsertReads DEF other, o
      <4> QED
        BY <1>1, <3>1, <4>2, <4>3
    <3>2. CASE l # k
      <4>1. l \in KeysRead /\ l \in DOMAIN new
        BY <1>3, <2>4, <3>2
      <4>2. new[l] = other[l]
        BY <1>3, <2>8, <4>1
      <4> QED
        BY <2>5, <3>2, <4>1, <4>2
    <3> QED
      BY <3>1, <3>2
  <2>9. ASSUME call.overwrite, Inside(o, t), NEW l \in KeysRead'
        PROVE  Towards(t, o) # [key |-> l]
    <3>1. CASE l \in KeysRead
      BY <1>3, <2>9, <3>1
    <3>2. CASE l = k
      <4> SUFFICES ASSUME Towards(t, o) = [key |-> k] PROVE FALSE
        BY <3>2
      <4>1. o[Len(t) + 1] = [key |-> k]
        BY <1>3, <2>9, TowardsIs
      <4>2. Inside(p, slot)
        <5>1. Inside(Append(o, [key |-> k]), Append(t, [key |-> k]))
          BY <1>3, <2>9, <4>1, InsideBelow
        <5> QED
          BY <1>1, <5>1 DEF Ref, o, t
      <4>3. k \in DOMAIN new
        <5>1. Len(t) \in Nat /\ Len(o) \in Nat /\ Len(t) < Len(o) /\ \A i \in 1..Len(t) : o[i] = t[i]
          BY <1>3, <2>9, InsideIs, LenProperties
        <5>2. Len(t) + 1 \in DOMAIN o /\ (Len(t) + 1) - 1 = Len(t)
          <6>1. DOMAIN o = 1..Len(o)
            BY <1>3, LenProperties
          <6> QED
            BY <5>1, <6>1
        <5>3. Along(before, o)[Len(t)] = Along(before, t)[Len(t)]
          BY <5>1, AlikeUpTo
        <5>4. [key |-> k] \in Steps(Was(t))
          <6>1. o[Len(t) + 1] \in Steps(Along(before, o)[Len(t)])
            BY <1>3, <5>2 DEF Reaches
          <6> QED
            BY <4>1, <5>3, <6>1 DEF Was, NodeOf
        <5>5. [key |-> k] \in [key : DOMAIN old]
          <6>1. Steps(Was(t)) = [key : DOMAIN old]
            BY <1>3, StepsAre
          <6> QED
            BY <5>4, <6>1
        <5>6. k \in DOMAIN old
          BY <5>5
        <5> QED
          BY <1>3, <5>6
      <4> QED
        BY <1>4, <1>6, <2>9, <4>2, <4>3
    <3> QED
      BY <2>4, <3>1, <3>2
  <2>10. /\ call'.op = "mergeObject" /\ call'.other \in PathsOf(before)' /\ call'.overwrite \in BOOLEAN
         /\ (Was(call.target).kind)' = "object" /\ (Was(call.other).kind)' = "object"
    BY <1>3, <2>1, <2>3 DEF t, o
  <2>11. /\ IsSeq(sources')
         /\ \A i \in DOMAIN sources' : \E l \in DOMAIN (Was(call.other).members)' : sources'[i] = Ref(l)'
         /\ \A i, j \in DOMAIN sources' : sources'[i] = sources'[j] => i = j
    BY <1>1, <2>1, <2>3 DEF other, o
  <2>12. (Was(call.target).members)' = old /\ (Was(call.other).members)' = other
    BY <2>3 DEF old, other, t, o
  <2>13. /\ root' = Replace(before', call'.target, Node(call.target)')
         /\ Node(call.target)' = ObjectValue((Node(call.target).members)')
         /\ IsMap((Node(call.target).members)')
         /\ DOMAIN (Node(call.target).members)' = DOMAIN (Was(call.target).members)' \cup KeysRead'
    BY <2>1, <2>5, <2>6, <2>12 DEF made, t
  <2>14. \A l \in DOMAIN (Was(call.target).members)' :
           ~(call'.overwrite /\ l \in KeysRead')
             => (Node(call.target).members)'[l] = (Was(call.target).members)'[l]
    BY <2>1, <2>7, <2>12 DEF made
  <2>15. ~ReadsTarget' =>
           \A l \in KeysRead' :
             call'.overwrite \/ l \notin DOMAIN (Was(call.target).members)'
               => (Node(call.target).members)'[l] = (Was(call.other).members)'[l]
    BY <2>1, <2>3, <2>8, <2>12 DEF made
  <2>16. call'.overwrite /\ Inside(call'.other, call'.target) =>
           \A l \in KeysRead' : Towards(call'.target, call'.other) # [key |-> l]
    BY <2>1, <2>9 DEF t, o
  <2>17. Inserted'
    BY <2>10, <2>11, <2>13, <2>14, <2>15, <2>16 DEF Inserted
  <2> QED
    BY <2>1, <2>2, <2>17, Elsewhere DEF IInv
<1> QED
  BY <1>2, <1>5, <1>6

\* When all members have been read, the target is what it would be made of copies.
LEMMA InsertedIsMerged ==
  ASSUME IInv, pc = "insert", sources = <<>>, ~ReadsTarget
  PROVE  root = Replace(before, call.target, Merged)
<1> DEFINE t == call.target
           o == call.other
           old == Was(t).members
           other == Was(o).members
           new == Node(t).members
           all == IF call.overwrite THEN Over(other, old) ELSE Over(old, other)
<1>1. /\ Was(t) = ObjectValue(old) /\ IsMap(old)
      /\ Node(t) = ObjectValue(new) /\ IsMap(new)
  BY InsertingIs
<1>2. /\ call.op = "mergeObject" /\ call.overwrite \in BOOLEAN
      /\ root = Replace(before, t, Node(t)) /\ DOMAIN new = DOMAIN old \cup KeysRead
      /\ \A l \in DOMAIN old : ~(call.overwrite /\ l \in KeysRead) => new[l] = old[l]
      /\ \A l \in KeysRead : call.overwrite \/ l \notin DOMAIN old => new[l] = other[l]
  BY DEF IInv, Inserted
<1>3. KeysRead = DOMAIN other
  <2>1. ToSet(sources) = {}
    <3>1. DOMAIN sources = {}
      <4>1. <<>> \in Seq({}) /\ Len(<<>>) = 0
        BY EmptySeq
      <4>2. DOMAIN <<>> = 1..0
        BY <4>1, LenProperties
      <4> QED
        BY <4>2
    <3> QED
      BY <3>1 DEF ToSet
  <2> QED
    BY <2>1 DEF KeysRead
<1>4. all = new
  <2> HIDE DEF old, other, new
  <2>1. new = [k \in DOMAIN new |-> new[k]]
    BY <1>1 DEF IsMap
  <2>2. CASE call.overwrite
    <3>1. Over(other, old) = [k \in DOMAIN new |-> IF k \in DOMAIN other THEN other[k] ELSE old[k]]
      BY <1>2, <1>3 DEF Over
    <3>2. \A k \in DOMAIN new : new[k] = IF k \in DOMAIN other THEN other[k] ELSE old[k]
      BY <1>2, <1>3, <2>2
    <3> QED
      BY <2>1, <2>2, <3>1, <3>2
  <2>3. CASE ~call.overwrite
    <3>1. Over(old, other) = [k \in DOMAIN new |-> IF k \in DOMAIN old THEN old[k] ELSE other[k]]
      BY <1>2, <1>3 DEF Over
    <3>2. \A k \in DOMAIN new : new[k] = IF k \in DOMAIN old THEN old[k] ELSE other[k]
      BY <1>2, <1>3, <2>3
    <3> QED
      BY <2>1, <2>3, <3>1, <3>2
  <2> QED
    BY <2>2, <2>3
<1>5. Merged = ObjectValue(all)
  <2>1. \A x, z : [ObjectValue(x) EXCEPT !.members = z] = ObjectValue(z)
    BY DEF ObjectValue
  <2>2. Merged = [Was(t) EXCEPT !.members = all]
    BY <1>2 DEF Merged
  <2> HIDE DEF all, old
  <2> QED
    BY <1>1, <2>1, <2>2
<1> QED
  BY <1>1, <1>2, <1>4, <1>5

\* A call that has read all its arguments returns.
LEMMA ReturnReadStep ==
  ASSUME IInv, ReturnRead
  PROVE  IInv'
<1>0. pc \in {"push", "insert"} /\ sources = <<>> /\ UNCHANGED <<growth, call, before>>
  BY DEF ReturnRead
<1>1. pc' = "returned" /\ root' = root /\ relocated' = relocated
  BY DEF ReturnRead, Settle
<1>2. Began'
  <2>1. relocated' \in BOOLEAN
    BY <1>1 DEF IInv, Began
  <2> QED
    BY <1>0, <1>1, <2>1, BegunStill
<1>3. ReadsTarget' = ReadsTarget /\ Merged' = Merged
  <2>1. call' = call /\ before' = before
    BY <1>0
  <2> QED
    BY <2>1 DEF ReadsTarget, Merged, Was
<1>4. MergesCopies'
  <2> SUFFICES ASSUME ~ReadsTarget PROVE root' = Replace(before', call'.target, Merged')
    BY <1>3 DEF MergesCopies
  <2>1. root = Replace(before, call.target, Merged)
    BY <1>0, PushedIsMerged, InsertedIsMerged
  <2> QED
    BY <1>0, <1>1, <1>3, <2>1
<1>5. Left'
  BY <1>1, <1>4 DEF Left, DefinedUnlessHazardous, ThrowKeepsDocument
<1> QED
  BY <1>1, <1>2, <1>5, Elsewhere DEF IInv

\* A step that changes nothing.
LEMMA StutterStep ==
  ASSUME IInv, UNCHANGED vars
  PROVE  IInv'
<1>0. /\ root' = root /\ growth' = growth /\ call' = call /\ before' = before
      /\ sources' = sources /\ relocated' = relocated /\ pc' = pc
  BY DEF vars
<1>1. Began'
  BY <1>0 DEF IInv, Began, PathsOf
<1>2. Subscripted'
  BY <1>0 DEF IInv, Subscripted, PathsOf, Was
<1>3. Pushed'
  BY <1>0 DEF IInv, Pushed, PathsOf, Was, Node, Refs, ItemsRead, ReadsTarget
<1>4. Inserted'
  BY <1>0 DEF IInv, Inserted, PathsOf, Was, Node, Ref, KeysRead, ReadsTarget
<1>5. MergesCopies' /\ DefinedUnlessHazardous' /\ ThrowKeepsDocument'
  BY <1>0 DEF IInv, Left, MergesCopies, DefinedUnlessHazardous, ThrowKeepsDocument,
              Was, ReadsTarget, Merged, Hazardous
<1> QED
  BY <1>1, <1>2, <1>3, <1>4, <1>5 DEF IInv, Left

\* Every step keeps the invariant.
LEMMA NextInv ==
  ASSUME IInv, [Next]_vars
  PROVE  IInv'
<1>1. CASE pc = "ready" /\ Call
  <2> PICK target \in Paths :
        \/ \E step \in Step, held \in {<<>>} \cup {<<p>> : p \in Paths} : Subscript(target, step, held)
        \/ \E step \in Step : At(target, step)
        \/ \E index \in Index : RemoveIndex(target, index)
        \/ \E key \in Key : RemoveKey(target, key)
        \/ Clear(target)
        \/ \E refs \in BoundedSeq(Paths, MaxSources) \ {<<>>} : PushBack(target, refs)
        \/ \E other \in Paths : MergeArray(target, other)
        \/ \E other \in Paths, overwrite \in BOOLEAN : MergeObject(target, other, overwrite)
    BY <1>1 DEF Call
  <2> QED
    BY SubscriptStep, AtStep, RemoveIndexStep, RemoveKeyStep, ClearStep, PushBackStep,
       MergeArrayStep, MergeObjectStep
<1>2. CASE Run
  BY <1>2, AssignStep, PushStep, InsertStep, ReturnReadStep DEF Run
<1>3. CASE Ended \/ UNCHANGED vars
  BY <1>3, StutterStep DEF Ended
<1> QED
  BY <1>1, <1>2, <1>3 DEF Next

-----------------------------------------------------------------------------
\* The invariant holds: Documents and Height may be any that keep the
\* assumptions, the calls any of those a caller can make.
THEOREM StoreInvariant == Spec => []IInv
<1>1. IInv /\ [Next]_vars => IInv'
  BY NextInv
<1> QED
  BY <1>1, InitInv, PTL DEF Spec

\* While a call runs, its target is a container of the kind it works on, and
\* the member or element it assigns to is there (JsonHandler.cpp:272).
THEOREM TargetsStayContainers == Spec => []TypeOK
<1>1. IInv => TypeOK
  BY TypesHold
<1> QED
  BY <1>1, StoreInvariant, PTL

\* A merge or a push_back that returns has the effect it would have on copies
\* of its arguments, unless an argument contains the target
\* (JsonAlgorithms.cpp:19 and :41, JsonHandler.hpp:177).
THEOREM MergesAsOnCopies == Spec => []MergesCopies
<1>1. IInv => MergesCopies
  BY DEF IInv, Left
<1> QED
  BY <1>1, StoreInvariant, PTL

\* Only the calls a caller is told to avoid can have no defined outcome
\* (JsonAlgorithms.cpp:19 and :41, JsonHandler.hpp:177, JsonHandler.cpp:296).
THEOREM OnlyHazardsAreUndefined == Spec => []DefinedUnlessHazardous
<1>1. IInv => DefinedUnlessHazardous
  BY DEF IInv, Left
<1> QED
  BY <1>1, StoreInvariant, PTL

\* A call that throws leaves the document as it was, but for the null that
\* operator[] has made an empty array (JsonHandler.cpp:294).
THEOREM ThrowsKeepDocuments == Spec => []ThrowKeepsDocument
<1>1. IInv => ThrowKeepsDocument
  BY DEF IInv, Left
<1> QED
  BY <1>1, StoreInvariant, PTL

=============================================================================
