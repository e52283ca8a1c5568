SPECIFICATION Spec
CONSTANTS
  Point = "."
  Numbers <- MCNumbers
  ExactValue <- MCExact
  CompareNumbers <- MCCompareNumbers
  Incomparable = 2
  Targets <- MCTargets
  KeyPaths <- MCKeyPaths
  Sorts = {"inPlace", "takenOut"}
  ArrayLength = 3
  NumbersLength = 4
INVARIANT RefusesAsDocumented
