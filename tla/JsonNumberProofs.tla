-------------------------- MODULE JsonNumberProofs --------------------------
(***************************************************************************)
(* What MCNumber checks for integers of a few bits, for every width, every *)
(* set of doubles and every outcome of a cast that does not fit.           *)
(***************************************************************************)
EXTENDS JsonNumber, TLAPS

-----------------------------------------------------------------------------
(***************************************************************************)
(* Multiples of Unit.                                                      *)
(***************************************************************************)
\* Products of integers are integers.
LEMMA UnitsInt == \A i \in Int : i * Unit \in Int
  BY NumberAssumption

LEMMA UnitsNext == \A i \in Int : (i + 1) * Unit = i * Unit + Unit
  BY NumberAssumption

\* Counting in units keeps the order.
LEMMA UnitsMonotonic ==
  ASSUME NEW i \in Int, NEW j \in Int, i < j
  PROVE  i * Unit < j * Unit /\ (i + 1) * Unit <= j * Unit
<1>1. PICK k \in Nat : j = i + 1 + k
  <2>1. j - i - 1 \in Nat /\ j = i + 1 + (j - i - 1)
    OBVIOUS
  <2> QED
    BY <2>1
<1>2. j * Unit = (i + 1) * Unit + k * Unit /\ (i + 1) * Unit = i * Unit + Unit
  BY <1>1, NumberAssumption
<1>3. k * Unit \in Nat
  BY <1>1, NumberAssumption
<1> QED
  BY <1>2, <1>3, NumberAssumption

LEMMA UnitsOrdered ==
  ASSUME NEW i \in Int, NEW j \in Int, i <= j
  PROVE  i * Unit <= j * Unit
<1>1. i < j => i * Unit < j * Unit
  BY UnitsMonotonic
<1> QED
  BY <1>1, UnitsInt

\* The bounds that are tested before a cast, in units.
LEMMA Bounds ==
  /\ Half \in Int /\ Half > 0
  /\ Half * Unit \in Int /\ Half * Unit > 0
  /\ (-Half) * Unit = -(Half * Unit)
  /\ 2 * Half * Unit = (2 * Half) * Unit /\ 2 * Half * Unit = Half * Unit + Half * Unit
  BY NumberAssumption

\* Division rounds down to a multiple of Unit.
LEMMA DivUnit ==
  ASSUME NEW n \in Nat
  PROVE  /\ n \div Unit \in Nat
         /\ (n \div Unit) * Unit <= n
         /\ n < (n \div Unit) * Unit + Unit
  BY NumberAssumption

\* Truncation is toward zero, by less than a unit.
LEMMA TruncUnit ==
  ASSUME NEW n \in Int
  PROVE  /\ trunc(n) \in Int
         /\ n >= 0 => trunc(n) >= 0 /\ trunc(n) * Unit <= n /\ n < trunc(n) * Unit + Unit
         /\ n <= 0 => trunc(n) <= 0 /\ n <= trunc(n) * Unit /\ trunc(n) * Unit - Unit < n
<1>1. CASE n >= 0
  <2>1. n \in Nat /\ trunc(n) = n \div Unit
    BY <1>1 DEF trunc
  <2>2. n = 0 => trunc(n) = 0
    <3>1. trunc(n) # 0 => Unit <= trunc(n) * Unit
      BY <2>1, DivUnit, UnitsMonotonic, NumberAssumption
    <3> QED
      BY <2>1, <3>1, DivUnit, NumberAssumption
  <2> QED
    BY <1>1, <2>1, <2>2, DivUnit, UnitsInt, NumberAssumption
<1>2. CASE n < 0
  <2>1. -n \in Nat /\ trunc(n) = -((-n) \div Unit)
    BY <1>2 DEF trunc
  <2>2. trunc(n) * Unit = -(((-n) \div Unit) * Unit)
    BY <2>1, DivUnit, NumberAssumption
  <2> QED
    BY <1>2, <2>1, <2>2, DivUnit, UnitsInt, NumberAssumption
<1> QED
  BY <1>1, <1>2

\* compare() is the sign of a difference, so it turns with its arguments.
LEMMA CompareTurns ==
  ASSUME NEW a \in Int, NEW b \in Int
  PROVE  compare(a, b) = -compare(b, a)
  BY DEF compare

\* Integers compare as their values in units do.
LEMMA CompareUnits ==
  ASSUME NEW i \in Int, NEW j \in Int
  PROVE  compare(i, j) = compare(i * Unit, j * Unit)
<1>1. i < j => i * Unit < j * Unit
  BY UnitsMonotonic
<1>2. j < i => j * Unit < i * Unit
  BY UnitsMonotonic
<1> QED
  BY <1>1, <1>2, UnitsInt DEF compare

-----------------------------------------------------------------------------
(***************************************************************************)
(* An integer and a double.  Within the bounds that are tested first the   *)
(* cast fits; then the integer is below, at or above the truncated double, *)
(* and only in the second case does what was cut off decide.               *)
(***************************************************************************)
\* The cast of a double between the bounds of int64_t never overflows.
LEMMA SignedCast ==
  ASSUME NEW n \in Int, n >= -Half * Unit, n < Half * Unit
  PROVE  Cast(n, Int64) = trunc(n)
<1>1. trunc(n) \in Int /\ trunc(n) * Unit \in Int /\ (trunc(n) + 1) * Unit = trunc(n) * Unit + Unit
  BY TruncUnit, UnitsInt, UnitsNext
<1>2. trunc(n) < Half
  <2>1. SUFFICES ASSUME Half <= trunc(n) PROVE FALSE
    BY <1>1, Bounds
  <2>2. Half * Unit <= trunc(n) * Unit
    BY <1>1, <2>1, Bounds, UnitsOrdered
  <2>3. n >= 0
    BY <1>1, <2>1, Bounds, TruncUnit
  <2>4. trunc(n) * Unit <= n
    BY <2>3, TruncUnit
  <2> QED
    BY <1>1, <2>2, <2>4, Bounds
<1>3. -Half <= trunc(n)
  <2>1. SUFFICES ASSUME trunc(n) + 1 <= -Half PROVE FALSE
    BY <1>1, Bounds
  <2>2. (trunc(n) + 1) * Unit <= (-Half) * Unit
    BY <1>1, <2>1, Bounds, UnitsOrdered
  <2>3. n < 0
    BY <1>1, <2>1, Bounds, TruncUnit
  <2>4. trunc(n) * Unit - Unit < n
    BY <2>3, TruncUnit
  <2>5. n <= trunc(n) * Unit
    BY <2>3, TruncUnit
  <2> QED
    BY <1>1, <2>2, <2>5, Bounds, NumberAssumption
<1> QED
  BY <1>1, <1>2, <1>3, Bounds DEF Cast, Int64

\* Nor does that of a double between the bounds of uint64_t.
LEMMA UnsignedCast ==
  ASSUME NEW n \in Int, n >= 0, n < 2 * Half * Unit
  PROVE  Cast(n, UInt64) = trunc(n)
<1>1. trunc(n) \in Int /\ trunc(n) * Unit \in Int /\ trunc(n) >= 0 /\ trunc(n) * Unit <= n
  BY TruncUnit, UnitsInt
<1>2. trunc(n) < 2 * Half
  <2>1. SUFFICES ASSUME 2 * Half <= trunc(n) PROVE FALSE
    BY <1>1, Bounds
  <2>2. (2 * Half) * Unit <= trunc(n) * Unit
    BY <1>1, <2>1, Bounds, UnitsOrdered
  <2> QED
    BY <1>1, <2>2, Bounds
<1> QED
  BY <1>1, <1>2, Bounds DEF Cast, UInt64

\* int64_t with double.
LEMMA SignedExactly ==
  ASSUME NEW i \in Int64, NEW n \in Int
  PROVE  CompareSigned(i, n) = compare(i * Unit, n)
<1> DEFINE t == trunc(n)
<1>1. i \in Int /\ i >= -Half /\ i < Half
  BY NumberAssumption DEF Int64
<1>2. i * Unit \in Int /\ -Half * Unit <= i * Unit /\ i * Unit < Half * Unit
  <2>1. i = -Half \/ -Half < i
    BY <1>1, NumberAssumption
  <2>2. -Half < i => -Half * Unit < i * Unit
    BY <1>1, UnitsMonotonic, NumberAssumption
  <2>3. i * Unit < Half * Unit
    BY <1>1, UnitsMonotonic, NumberAssumption
  <2> QED
    BY <1>1, <2>1, <2>2, <2>3, UnitsInt, NumberAssumption
<1>3. CASE n < -Half * Unit
  BY <1>2, <1>3, UnitsInt, NumberAssumption DEF CompareSigned, compare
<1>4. CASE n >= Half * Unit
  BY <1>2, <1>4, UnitsInt, NumberAssumption DEF CompareSigned, compare
<1>5. CASE n >= -Half * Unit /\ n < Half * Unit
  <2>1. Cast(n, Int64) = t
    BY <1>5, SignedCast
  <2>2. t \in Int /\ t * Unit \in Int
    BY TruncUnit, UnitsInt
  <2>3. (i + 1) * Unit = i * Unit + Unit /\ (t + 1) * Unit = t * Unit + Unit
    BY <1>1, <2>2, NumberAssumption
  <2>4. CASE i < t
    <3>1. i * Unit + Unit <= t * Unit
      BY <1>1, <2>2, <2>3, <2>4, UnitsMonotonic
    <3>2. t * Unit - Unit < n
      BY <2>2, TruncUnit, NumberAssumption
    <3>3. i * Unit < n
      BY <1>2, <2>2, <3>1, <3>2, NumberAssumption
    <3> QED
      BY <1>1, <1>2, <1>5, <2>1, <2>2, <2>4, <3>3, UnitsInt, NumberAssumption
      DEF CompareSigned, compare
  <2>5. CASE t < i
    <3>1. t * Unit + Unit <= i * Unit
      BY <1>1, <2>2, <2>3, <2>5, UnitsMonotonic
    <3>2. n < t * Unit + Unit
      BY <2>2, TruncUnit, NumberAssumption
    <3>3. n < i * Unit
      BY <1>2, <2>2, <3>1, <3>2, NumberAssumption
    <3> QED
      BY <1>1, <1>2, <1>5, <2>1, <2>2, <2>5, <3>3, UnitsInt, NumberAssumption
      DEF CompareSigned, compare
  <2>6. CASE i = t
    <3>1. CompareSigned(i, n) = IF n = i * Unit THEN 0 ELSE IF n > 0 THEN -1 ELSE 1
      BY <1>1, <1>5, <2>1, <2>6, UnitsInt, NumberAssumption DEF CompareSigned, compare
    <3>2. (n > 0 => i * Unit <= n) /\ (~(n > 0) => n <= i * Unit)
      BY <2>6, TruncUnit
    <3> QED
      BY <1>2, <3>1, <3>2 DEF compare
  <2> QED
    BY <1>1, <2>2, <2>4, <2>5, <2>6
<1> QED
  BY <1>3, <1>4, <1>5, UnitsInt, NumberAssumption

\* uint64_t with double.
LEMMA UnsignedExactly ==
  ASSUME NEW i \in UInt64, NEW n \in Int
  PROVE  CompareUnsigned(i, n) = compare(i * Unit, n)
<1> DEFINE t == trunc(n)
<1>1. i \in Int /\ i >= 0 /\ i < 2 * Half
  BY NumberAssumption DEF UInt64
<1>2. i * Unit \in Int /\ 0 <= i * Unit /\ i * Unit < 2 * Half * Unit
  <2>1. i * Unit >= 0
    BY <1>1, NumberAssumption
  <2>2. i * Unit < (2 * Half) * Unit
    BY <1>1, UnitsMonotonic, NumberAssumption
  <2> QED
    BY <1>1, <2>1, <2>2, UnitsInt, NumberAssumption
<1>3. CASE n < 0
  BY <1>2, <1>3 DEF CompareUnsigned, compare
<1>4. CASE n >= 2 * Half * Unit
  BY <1>2, <1>4, NumberAssumption DEF CompareUnsigned, compare
<1>5. CASE n >= 0 /\ n < 2 * Half * Unit
  <2>1. Cast(n, UInt64) = t
    BY <1>5, UnsignedCast
  <2>2. t \in Int /\ t * Unit \in Int
    BY TruncUnit, UnitsInt
  <2>3. (i + 1) * Unit = i * Unit + Unit /\ (t + 1) * Unit = t * Unit + Unit
    BY <1>1, <2>2, NumberAssumption
  <2>4. CASE i < t
    <3>1. i * Unit + Unit <= t * Unit
      BY <1>1, <2>2, <2>3, <2>4, UnitsMonotonic
    <3>2. i * Unit < n
      BY <1>2, <1>5, <2>2, <3>1, TruncUnit, NumberAssumption
    <3> QED
      BY <1>1, <1>2, <1>5, <2>1, <2>2, <2>4, <3>2, NumberAssumption
      DEF CompareUnsigned, compare
  <2>5. CASE t < i
    <3>1. t * Unit + Unit <= i * Unit
      BY <1>1, <2>2, <2>3, <2>5, UnitsMonotonic
    <3>2. n < i * Unit
      BY <1>2, <1>5, <2>2, <3>1, TruncUnit, NumberAssumption
    <3> QED
      BY <1>1, <1>2, <1>5, <2>1, <2>2, <2>5, <3>2, NumberAssumption
      DEF CompareUnsigned, compare
  <2>6. CASE i = t
    <3>1. CompareUnsigned(i, n) = IF n = i * Unit THEN 0 ELSE -1
      BY <1>1, <1>5, <2>1, <2>6, NumberAssumption DEF CompareUnsigned, compare
    <3>2. i * Unit <= n
      BY <1>2, <1>5, <2>6, TruncUnit, NumberAssumption
    <3> QED
      BY <1>2, <3>1, <3>2 DEF compare
  <2> QED
    BY <1>1, <2>2, <2>4, <2>5, <2>6
<1> QED
  BY <1>3, <1>4, <1>5, NumberAssumption

-----------------------------------------------------------------------------
(***************************************************************************)
(* All pairs of numbers.                                                   *)
(***************************************************************************)
\* What a number is.
LEMMA OrderedCases ==
  ASSUME NEW a \in Ordered
  PROVE  /\ a # NaN
         /\ a.n \in Int /\ Exact(a) \in Int
         /\ \/ a.storage = "int64" /\ a.n \in Int64 /\ Exact(a) = a.n * Unit
            \/ a.storage = "uint64" /\ a.n \in UInt64 /\ Exact(a) = a.n * Unit
            \/ a.storage = "double" /\ Exact(a) = a.n
<1>1. CASE a \in {Signed(i) : i \in Int64}
  <2>1. PICK i \in Int64 : a = [storage |-> "int64", n |-> i]
    BY <1>1 DEF Signed
  <2>2. i \in Int
    BY NumberAssumption DEF Int64
  <2> QED
    BY <2>1, <2>2, UnitsInt DEF NaN, Exact, isInteger
<1>2. CASE a \in {Unsigned(i) : i \in UInt64}
  <2>1. PICK i \in UInt64 : a = [storage |-> "uint64", n |-> i]
    BY <1>2 DEF Unsigned
  <2>2. i \in Int
    BY NumberAssumption DEF UInt64
  <2> QED
    BY <2>1, <2>2, UnitsInt DEF NaN, Exact, isInteger
<1>3. CASE a \in {Double(n, n < 0) : n \in Doubles \cup {-Infinity, Infinity}}
  <2>1. PICK n \in Doubles \cup {-Infinity, Infinity} :
               a = [storage |-> "double", n |-> n, minus |-> n < 0]
    BY <1>3 DEF Double
  <2>2. n \in Int
    BY NumberAssumption
  <2> QED
    BY <2>1, <2>2 DEF NaN, Exact, isInteger
<1>4. CASE a = Double(0, TRUE)
  BY <1>4 DEF Double, NaN, Exact, isInteger
<1> QED
  BY <1>1, <1>2, <1>3, <1>4 DEF Ordered

\* compareNumbers() is the order of the exact values, for any two numbers that
\* are not NaN, any width of the integers and any set of doubles.
THEOREM ExactComparison ==
  ASSUME NEW a \in Ordered, NEW b \in Ordered
  PROVE  compareNumbers(a, b) = compare(Exact(a), Exact(b))
<1>1. a # NaN /\ b # NaN
  BY OrderedCases
<1>2. CASE a.storage = "int64"
  <2>1. a.n \in Int64 /\ a.n \in Int /\ Exact(a) = a.n * Unit /\ isInteger(a)
    BY <1>2, OrderedCases DEF isInteger
  <2>2. CASE b.storage = "int64"
    <3>1. b.n \in Int /\ Exact(b) = b.n * Unit
      BY <2>2, OrderedCases
    <3>2. compareNumbers(a, b) = compare(a.n, b.n)
      BY <1>1, <1>2, <2>2 DEF compareNumbers
    <3> QED
      BY <2>1, <3>1, <3>2, CompareUnits
  <2>3. CASE b.storage = "uint64"
    <3>1. b.n \in UInt64 /\ b.n \in Int /\ Exact(b) = b.n * Unit
      BY <2>3, OrderedCases
    <3>2. compareNumbers(a, b) = CompareSignedUnsigned(a, b)
      BY <1>1, <1>2, <2>3 DEF compareNumbers
    <3>3. CompareSignedUnsigned(a, b) = compare(a.n, b.n)
      BY <2>1, <3>1 DEF CompareSignedUnsigned, compare, UInt64
    <3> QED
      BY <2>1, <3>1, <3>2, <3>3, CompareUnits
  <2>4. CASE b.storage = "double"
    <3>1. b.n \in Int /\ Exact(b) = b.n
      BY <2>4, OrderedCases
    <3>2. compareNumbers(a, b) = CompareSigned(a.n, b.n)
      BY <1>1, <1>2, <2>1, <2>4 DEF compareNumbers, CompareIntegerDouble
    <3> QED
      BY <2>1, <3>1, <3>2, SignedExactly
  <2> QED
    BY <2>2, <2>3, <2>4, OrderedCases
<1>3. CASE a.storage = "uint64"
  <2>1. a.n \in UInt64 /\ a.n \in Int /\ Exact(a) = a.n * Unit /\ isInteger(a)
    BY <1>3, OrderedCases DEF isInteger
  <2>2. CASE b.storage = "int64"
    <3>1. b.n \in Int64 /\ b.n \in Int /\ Exact(b) = b.n * Unit
      BY <2>2, OrderedCases
    <3>2. compareNumbers(a, b) = -CompareSignedUnsigned(b, a)
      BY <1>1, <1>3, <2>2 DEF compareNumbers
    <3>3. CompareSignedUnsigned(b, a) = compare(b.n, a.n)
      BY <2>1, <3>1 DEF CompareSignedUnsigned, compare, UInt64
    <3>4. -compare(b.n, a.n) = compare(a.n, b.n)
      BY <2>1, <3>1 DEF compare
    <3> QED
      BY <2>1, <3>1, <3>2, <3>3, <3>4, CompareUnits
  <2>3. CASE b.storage = "uint64"
    <3>1. b.n \in Int /\ Exact(b) = b.n * Unit
      BY <2>3, OrderedCases
    <3>2. compareNumbers(a, b) = compare(a.n, b.n)
      BY <1>1, <1>3, <2>3 DEF compareNumbers
    <3> QED
      BY <2>1, <3>1, <3>2, CompareUnits
  <2>4. CASE b.storage = "double"
    <3>1. b.n \in Int /\ Exact(b) = b.n
      BY <2>4, OrderedCases
    <3>2. compareNumbers(a, b) = CompareUnsigned(a.n, b.n)
      BY <1>1, <1>3, <2>1, <2>4 DEF compareNumbers, CompareIntegerDouble
    <3> QED
      BY <2>1, <3>1, <3>2, UnsignedExactly
  <2> QED
    BY <2>2, <2>3, <2>4, OrderedCases
<1>4. CASE a.storage = "double"
  <2>1. a.n \in Int /\ Exact(a) = a.n
    BY <1>4, OrderedCases
  <2>2. CASE b.storage = "int64"
    <3>1. b.n \in Int64 /\ Exact(b) = b.n * Unit /\ Exact(b) \in Int /\ isInteger(b)
      BY <2>2, OrderedCases DEF isInteger
    <3>2. compareNumbers(a, b) = -CompareSigned(b.n, a.n)
      BY <1>1, <1>4, <2>2, <3>1 DEF compareNumbers, CompareIntegerDouble
    <3>3. compareNumbers(a, b) = -compare(Exact(b), Exact(a))
      BY <2>1, <3>1, <3>2, SignedExactly
    <3> QED
      BY <2>1, <3>1, <3>3 DEF compare
  <2>3. CASE b.storage = "uint64"
    <3>1. b.n \in UInt64 /\ Exact(b) = b.n * Unit /\ Exact(b) \in Int /\ isInteger(b)
      BY <2>3, OrderedCases DEF isInteger
    <3>2. compareNumbers(a, b) = -CompareUnsigned(b.n, a.n)
      BY <1>1, <1>4, <2>3, <3>1 DEF compareNumbers, CompareIntegerDouble
    <3>3. compareNumbers(a, b) = -compare(Exact(b), Exact(a))
      BY <2>1, <3>1, <3>2, UnsignedExactly
    <3> QED
      BY <2>1, <3>1, <3>3 DEF compare
  <2>4. CASE b.storage = "double"
    <3>1. Exact(b) = b.n
      BY <2>4, OrderedCases
    <3>2. a.storage = b.storage
      BY <1>4, <2>4
    <3>3. compareNumbers(a, b) = compare(a.n, b.n)
      BY <1>1, <1>4, <2>4, <3>2 DEF compareNumbers, isInteger
    <3> QED
      BY <2>1, <3>1, <3>3
  <2> QED
    BY <2>2, <2>3, <2>4, OrderedCases
<1> QED
  BY <1>2, <1>3, <1>4, OrderedCases

\* What sortByPath asks of compareNumbers() for std::sort: "less" is a strict
\* weak order on all numbers but NaN, mixed storages included.
THEOREM StrictWeakOrder ==
  ASSUME NEW a \in Ordered, NEW b \in Ordered, NEW c \in Ordered
  PROVE  /\ compareNumbers(a, a) = 0
         /\ compareNumbers(a, b) = -compareNumbers(b, a)
         /\ compareNumbers(a, b) < 0 /\ compareNumbers(b, c) < 0 => compareNumbers(a, c) < 0
         /\ compareNumbers(a, b) = 0 /\ compareNumbers(b, c) = 0 => compareNumbers(a, c) = 0
<1>1. Exact(a) \in Int /\ Exact(b) \in Int /\ Exact(c) \in Int
  BY OrderedCases
<1>2. /\ compareNumbers(a, a) = compare(Exact(a), Exact(a))
      /\ compareNumbers(a, b) = compare(Exact(a), Exact(b))
      /\ compareNumbers(b, a) = compare(Exact(b), Exact(a))
      /\ compareNumbers(b, c) = compare(Exact(b), Exact(c))
      /\ compareNumbers(a, c) = compare(Exact(a), Exact(c))
  BY ExactComparison
<1> QED
  BY <1>1, <1>2 DEF compare

-----------------------------------------------------------------------------
(***************************************************************************)
(* Serializing and parsing.                                                *)
(***************************************************************************)
\* Counting in units and dividing by the unit again.
LEMMA DivExact ==
  ASSUME NEW i \in Nat
  PROVE  i * Unit \in Nat /\ (i * Unit) \div Unit = i
<1>1. i * Unit \in Nat
  BY NumberAssumption
<1> DEFINE q == (i * Unit) \div Unit
<1>2. q \in Nat /\ q * Unit <= i * Unit /\ i * Unit < q * Unit + Unit
  BY <1>1, DivUnit
<1>3. ~(i < q)
  BY <1>1, <1>2, UnitsMonotonic, UnitsInt
<1>4. ~(q < i)
  BY <1>1, <1>2, UnitsMonotonic, UnitsNext, UnitsInt, NumberAssumption
<1> QED
  BY <1>1, <1>2, <1>3, <1>4

\* The text of an integer is read as that integer, and stored as int64_t if it
\* fits.
LEMMA ReloadInteger ==
  ASSUME NEW a \in Ordered, isInteger(a), NEW s \in ToChars(a)
  PROVE  parseNumber(WithPoint(a, s)) = IF a.n < Half THEN Signed(a.n) ELSE Unsigned(a.n)
<1>1. a.n \in Int /\ -Half <= a.n /\ a.n < 2 * Half /\ Half \in Int /\ Half > 0
  BY OrderedCases, NumberAssumption DEF Int64, UInt64, isInteger
<1>2. WithPoint(a, s) = Spelling(a.n < 0, Abs(a.n) * Unit, TRUE)
  BY DEF ToChars, WithPoint
<1> DEFINE p == WithPoint(a, s)
<1>3. p.minus = (a.n < 0) /\ p.magnitude = Abs(a.n) * Unit /\ p.integer = TRUE
  BY <1>2 DEF Spelling
<1> HIDE DEF p
<1>4. Abs(a.n) \in Nat
  BY <1>1 DEF Abs
<1>5. (Abs(a.n) * Unit) \div Unit = Abs(a.n)
  BY <1>4, DivExact
<1>6. CASE a.n < 0
  <2>1. Abs(a.n) = -a.n /\ Abs(a.n) # 0 /\ Abs(a.n) <= Half /\ -(-a.n) = a.n
    BY <1>1, <1>6 DEF Abs
  <2>2. p.minus /\ p.integer /\ p.magnitude \div Unit # 0
    BY <1>3, <1>5, <1>6, <2>1
  <2>3. parseNumber(p) = ParseNegative(p.magnitude \div Unit)
    BY <2>2 DEF parseNumber
  <2>4. parseNumber(p) = ParseNegative(Abs(a.n))
    BY <1>3, <1>5, <2>3
  <2> QED
    BY <1>1, <1>6, <2>1, <2>4 DEF ParseNegative, p
<1>7. CASE ~(a.n < 0)
  <2>1. Abs(a.n) = a.n
    BY <1>7 DEF Abs
  <2>2. ~p.minus /\ p.integer
    BY <1>3, <1>7
  <2>3. parseNumber(p) = ParseNonnegative(p.magnitude \div Unit)
    BY <2>2 DEF parseNumber
  <2>4. parseNumber(p) = ParseNonnegative(a.n)
    BY <1>3, <1>5, <2>1, <2>3
  <2> QED
    BY <1>1, <2>4 DEF ParseNonnegative, p
<1> QED
  BY <1>6, <1>7

\* The text of a double is read as that double, its sign bit included.
LEMMA ReloadDouble ==
  ASSUME NEW a \in Ordered, ~isInteger(a), NEW s \in ToChars(a)
  PROVE  parseNumber(WithPoint(a, s)) = a
<1>1. PICK n \in Int, minus \in BOOLEAN :
        /\ a = [storage |-> "double", n |-> n, minus |-> minus]
        /\ n < 0 => minus
        /\ n > 0 => ~minus
  <2>1. CASE a \in {Double(n, n < 0) : n \in Doubles \cup {-Infinity, Infinity}}
    <3>1. PICK n \in Doubles \cup {-Infinity, Infinity} : a = Double(n, n < 0)
      BY <2>1
    <3>2. n \in Int /\ (n < 0) \in BOOLEAN /\ (n > 0 => ~(n < 0))
      BY NumberAssumption
    <3> QED
      BY <3>1, <3>2 DEF Double
  <2>2. CASE a = Double(0, TRUE)
    <3>1. a = [storage |-> "double", n |-> 0, minus |-> TRUE]
      BY <2>2 DEF Double
    <3>2. 0 \in Int /\ TRUE \in BOOLEAN /\ ~(0 > 0)
      OBVIOUS
    <3> QED
      BY <3>1, <3>2
  <2>3. a \notin {Signed(i) : i \in Int64} /\ a \notin {Unsigned(i) : i \in UInt64}
    BY DEF Signed, Unsigned, isInteger
  <2> QED
    BY <2>1, <2>2, <2>3 DEF Ordered
<1>2. PICK integer \in BOOLEAN : s = Spelling(minus, Abs(n), integer)
  BY <1>1 DEF ToChars
<1>3. WithPoint(a, s) = Spelling(minus, Abs(n), FALSE)
  BY <1>2 DEF WithPoint, Spelling
<1>4. parseNumber(WithPoint(a, s)) = Double(IF minus THEN -Abs(n) ELSE Abs(n), minus)
  BY <1>3 DEF parseNumber, Spelling
<1>5. (IF minus THEN -Abs(n) ELSE Abs(n)) = n
  BY <1>1 DEF Abs
<1> QED
  BY <1>1, <1>4, <1>5 DEF Double

\* What is read back is a number, and the same one.
LEMMA ReloadNumber ==
  ASSUME NEW a \in Ordered, NEW s \in ToChars(a)
  PROVE  /\ parseNumber(WithPoint(a, s)) \in Ordered
         /\ SameNumber(a, parseNumber(WithPoint(a, s)))
<1>1. CASE isInteger(a)
  <2>1. a.n \in Int /\ -Half <= a.n /\ a.n < 2 * Half /\ Half \in Int /\ Half > 0
    BY <1>1, OrderedCases, NumberAssumption DEF Int64, UInt64, isInteger
  <2>2. CASE a.n < Half
    <3>1. parseNumber(WithPoint(a, s)) = Signed(a.n)
      BY <1>1, <2>2, ReloadInteger
    <3>2. a.n \in Int64
      BY <2>1, <2>2 DEF Int64
    <3>3. Signed(a.n) \in Ordered
      BY <3>2 DEF Ordered
    <3>4. Exact(Signed(a.n)) = Exact(a) /\ isInteger(Signed(a.n))
      BY <1>1 DEF Exact, isInteger, Signed
    <3>5. a.storage = "int64" => Signed(a.n) = a
      <4> HAVE a.storage = "int64"
      <4>1. PICK i \in Int64 : a = [storage |-> "int64", n |-> i]
        BY DEF Ordered, Signed, Unsigned, Double
      <4> QED
        BY <4>1 DEF Signed
    <3> QED
      BY <1>1, <2>1, <2>2, <3>1, <3>3, <3>4, <3>5 DEF SameNumber
  <2>3. CASE ~(a.n < Half)
    <3>1. parseNumber(WithPoint(a, s)) = Unsigned(a.n)
      BY <1>1, <2>3, ReloadInteger
    <3>2. a.storage = "uint64" /\ a.n \in UInt64
      BY <1>1, <2>1, <2>3, OrderedCases DEF Int64, isInteger
    <3>3. PICK i \in UInt64 : a = [storage |-> "uint64", n |-> i]
      BY <3>2 DEF Ordered, Signed, Unsigned, Double
    <3>4. Unsigned(a.n) = a
      BY <3>3 DEF Unsigned
    <3> QED
      BY <3>1, <3>4 DEF SameNumber
  <2> QED
    BY <2>2, <2>3
<1>2. CASE ~isInteger(a)
  <2>1. parseNumber(WithPoint(a, s)) = a
    BY <1>2, ReloadDouble
  <2> QED
    BY <2>1 DEF SameNumber
<1> QED
  BY <1>1, <1>2

-----------------------------------------------------------------------------
(***************************************************************************)
(* The specification.                                                      *)
(***************************************************************************)
\* A step leaves a number in place, the same one.
LEMMA StepSame ==
  ASSUME TypeOK, [Next]_vars
  PROVE  TypeOK' /\ (number # NaN => SameNumber(number, number'))
<1>1. \A a \in Ordered : SameNumber(a, a)
  BY DEF SameNumber
<1>2. number # NaN => number \in Ordered
  BY DEF TypeOK, AnyNumber
<1>3. CASE Reload
  <2>1. number \in Ordered /\ other' = other
    BY <1>2, <1>3 DEF Reload
  <2>2. PICK s \in ToChars(number) : number' = parseNumber(WithPoint(number, s))
    BY <1>3 DEF Reload
  <2>3. number' \in Ordered /\ SameNumber(number, number')
    BY <2>1, <2>2, ReloadNumber
  <2> QED
    BY <2>1, <2>3 DEF TypeOK, AnyNumber
<1>4. CASE UNCHANGED vars
  BY <1>1, <1>2, <1>4 DEF TypeOK, vars
<1> QED
  BY <1>3, <1>4 DEF Next, Refuse

\* Whatever is stored, serializing it and parsing the text again gives a number
\* and never an exception for an integer at the end of its range.
THEOREM NumberTypeCorrect == Spec => []TypeOK
<1>1. Init => TypeOK
  BY DEF Init, TypeOK
<1>2. TypeOK /\ [Next]_vars => TypeOK'
  BY StepSame
<1> QED
  BY <1>1, <1>2, PTL DEF Spec

\* Comparing is exact at all times, before and after a reload.
THEOREM ComparisonCorrect == Spec => []ComparesExactly
<1>1. TypeOK => ComparesExactly
  BY ExactComparison DEF TypeOK, AnyNumber, ComparesExactly
<1> QED
  BY <1>1, NumberTypeCorrect, PTL

\* Reloading keeps the value, the sign bit and the kind of every number.
THEOREM ReloadCorrect == Spec => ReloadKeepsNumber
<1>1. TypeOK /\ [Next]_vars => [number # NaN => SameNumber(number, number')]_vars
  BY StepSame
<1> QED
  BY <1>1, NumberTypeCorrect, PTL DEF Spec, ReloadKeepsNumber
=============================================================================
