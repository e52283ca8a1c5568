----------------------------- MODULE JsonNumber -----------------------------
(***************************************************************************)
(* Numbers: the three storages of a Json number, their exact comparison,   *)
(* the storage parseValue chooses for a literal, and what a number is      *)
(* after it has been serialized and parsed again.                          *)
(*                                                                         *)
(* Integers have the width the constant Half gives them.  A double is held *)
(* as a multiple of 1 / Unit: n stands for n / Unit, so that comparing and *)
(* truncating are exact.  Doubles may be any set of them, as sparse above  *)
(* some magnitude as a mantissa of 53 bits makes it.                       *)
(***************************************************************************)
EXTENDS Integers

CONSTANTS
  Half,      \* 2^63: int64_t is -Half..Half-1, uint64_t is 0..2*Half-1
  Unit,      \* doubles are multiples of 1 / Unit
  Doubles,   \* the finite ones but -0.0, in units
  Infinity,  \* stands for the infinite double, beyond all others
  Garbage    \* what a cast gives whose result does not fit: undefined in C++

ASSUME NumberAssumption ==
  /\ Half \in Nat \ {0}
  /\ Unit \in Nat \ {0}
  /\ Infinity \in Nat /\ Infinity >= 2 * Half * Unit
  /\ Doubles \subseteq (1 - Infinity)..(Infinity - 1) /\ 0 \in Doubles
  /\ Garbage \in Int

VARIABLES
  number,   \* a number stored in a Json
  other     \* another one it is compared with

vars == <<number, other>>

Int64 == (-Half)..(Half - 1)
UInt64 == 0..(2 * Half - 1)

\* minus is the sign bit, which tells -0.0 from 0.0 and nothing else.
Signed(i) == [storage |-> "int64", n |-> i]
Unsigned(i) == [storage |-> "uint64", n |-> i]
Double(n, minus) == [storage |-> "double", n |-> n, minus |-> minus]
NaN == [storage |-> "nan"]

Ordered ==
  {Signed(i) : i \in Int64} \cup {Unsigned(i) : i \in UInt64}
  \cup {Double(n, n < 0) : n \in Doubles \cup {-Infinity, Infinity}} \cup {Double(0, TRUE)}
AnyNumber == Ordered \cup {NaN}

isInteger(a) == a.storage \in {"int64", "uint64"}
isFinite(a) == isInteger(a) \/ (a.storage = "double" /\ a.n \notin {-Infinity, Infinity})
-----------------------------------------------------------------------------
(***************************************************************************)
(* compareNumbers().                                                       *)
(***************************************************************************)
compare(a, b) == IF a > b THEN 1 ELSE IF a < b THEN -1 ELSE 0

\* std::trunc, and the cast to an integer type, defined where the result fits.
trunc(n) == IF n >= 0 THEN n \div Unit ELSE -((-n) \div Unit)
Cast(n, type) == IF trunc(n) \in type THEN trunc(n) ELSE Garbage

\* A mutant of the next: what is behind the point always counts as more.
CompareSignedUp(i, n) ==
  IF n < -Half * Unit THEN 1
  ELSE IF n >= Half * Unit THEN -1
  ELSE LET order == compare(i, Cast(n, Int64))
       IN  IF order # 0 \/ n = trunc(n) * Unit THEN order ELSE -1

CompareSigned(i, n) ==
  IF n < -Half * Unit THEN 1
  ELSE IF n >= Half * Unit THEN -1
  ELSE LET order == compare(i, Cast(n, Int64))
       IN  IF order # 0 \/ n = trunc(n) * Unit THEN order
           ELSE IF n > 0 THEN -1 ELSE 1

CompareUnsigned(i, n) ==
  IF n < 0 THEN 1
  ELSE IF n >= 2 * Half * Unit THEN -1
  ELSE LET order == compare(i, Cast(n, UInt64))
       IN  IF order # 0 \/ n = trunc(n) * Unit THEN order ELSE -1

\* An integer with a double, and a signed with an unsigned integer.
CompareIntegerDouble(a, b) ==
  IF a.storage = "int64" THEN CompareSigned(a.n, b.n) ELSE CompareUnsigned(a.n, b.n)
CompareSignedUnsigned(a, b) == IF a.n < 0 THEN -1 ELSE compare(a.n, b.n)

Unordered == "NaN cannot be ordered"

compareNumbers(a, b) ==
  CASE a = NaN \/ b = NaN                               -> Unordered
    [] a.storage = b.storage /\ a # NaN                 -> compare(a.n, b.n)
    [] isInteger(a) /\ b.storage = "double"             -> CompareIntegerDouble(a, b)
    [] a.storage = "double" /\ isInteger(b)             -> -CompareIntegerDouble(b, a)
    [] a.storage = "int64" /\ b.storage = "uint64"      -> CompareSignedUnsigned(a, b)
    [] a.storage = "uint64" /\ b.storage = "int64"      -> -CompareSignedUnsigned(b, a)

(***************************************************************************)
(* Spellings.  magnitude is in units; integer says that the spelling has   *)
(* neither a point nor an exponent.                                        *)
(***************************************************************************)
Spelling(minus, magnitude, integer) ==
  [minus |-> minus, magnitude |-> magnitude, integer |-> integer]

OutOfRange == [storage |-> "none"]

\* A mutant of the next: the range of int64_t as if it were symmetric.
ParseNegativeShort(i) == IF i < Half THEN Signed(-i) ELSE OutOfRange

\* An integer literal with a minus, and one without.
ParseNegative(i) == IF i <= Half THEN Signed(-i) ELSE OutOfRange
ParseNonnegative(i) ==
  IF i < Half THEN Signed(i) ELSE IF i < 2 * Half THEN Unsigned(i) ELSE OutOfRange

\* parseValue, for a Number token.  "-0" becomes the double -0.0.
parseNumber(s) ==
  LET i == s.magnitude \div Unit
  IN  IF ~s.integer THEN Double(IF s.minus THEN -s.magnitude ELSE s.magnitude, s.minus)
      ELSE IF s.minus /\ i = 0 THEN Double(0, TRUE)
      ELSE IF s.minus THEN ParseNegative(i)
      ELSE ParseNonnegative(i)

Abs(n) == IF n < 0 THEN -n ELSE n

\* What to_chars may write: a double that is whole with an exponent or without
\* one, whichever is shorter; in general form it never writes a bare point.
ToChars(a) ==
  IF isInteger(a) THEN {Spelling(a.n < 0, Abs(a.n) * Unit, TRUE)}
  ELSE {Spelling(a.minus, Abs(a.n), integer)
        : integer \in IF trunc(a.n) * Unit = a.n THEN BOOLEAN ELSE {FALSE}}

\* A mutant of the next: what to_chars wrote, as it is.
WithoutPoint(a, s) == s

\* ".0" is appended to a double that shows neither point nor exponent.
WithPoint(a, s) == IF isInteger(a) THEN s ELSE [s EXCEPT !.integer = FALSE]
-----------------------------------------------------------------------------
Init == number \in AnyNumber /\ other \in AnyNumber

\* The number is serialized and parsed again; what is not finite is refused.
Reload ==
  /\ number # NaN /\ isFinite(number)
  /\ \E s \in ToChars(number) : number' = parseNumber(WithPoint(number, s))
  /\ UNCHANGED other

Refuse ==
  /\ number = NaN \/ ~isFinite(number)
  /\ UNCHANGED vars

Next == Reload \/ Refuse
Spec == Init /\ [][Next]_vars
-----------------------------------------------------------------------------
\* The types of the variables.  Whatever integer or double was stored, its text
\* is read back as a number: the extreme ones are not refused as out of range.
TypeOK == number \in AnyNumber /\ other \in AnyNumber

\* The value of a number, in units.
Exact(a) == IF isInteger(a) THEN a.n * Unit ELSE a.n

\* Two numbers compare as their exact values do, whatever their storages, at
\* the bounds of 64 bits and between adjacent integers no double tells apart.
ComparesExactly ==
  number # NaN /\ other # NaN =>
    compareNumbers(number, other) = compare(Exact(number), Exact(other))

\* Reloading changes neither the value of a number nor its sign, nor whether it
\* is an integer, and from the second time on nothing at all.
SameNumber(a, b) ==
  /\ isInteger(b) <=> isInteger(a)
  /\ ~isInteger(a) => b = a
  /\ a.storage = "int64" => b = a
  /\ a.storage = "uint64" /\ a.n >= Half => b = a
  /\ Exact(b) = Exact(a)

ReloadKeepsNumber == [][number # NaN => SameNumber(number, number')]_vars
=============================================================================
