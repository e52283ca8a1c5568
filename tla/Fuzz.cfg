SPECIFICATION FuzzSpec
CONSTANTS
  Invalid = Invalid
  Refused = Refused
  MaxDepth = 3
  MaxLevel = 3
  Strings = {"a", "u0061", "b"}
  Commas = {}
  Numerals = {"one", "onePointZero", "oneE0", "minusZero", "minusZeroPointZero"}
  Text <- MCText
  Number <- MCNumber
  Escape <- MCEscape
  Written <- MCWritten
  KeyOrder <- MCKeyOrder
  Inputs <- MCInputs
  DocumentLength = 9
INVARIANTS RoundTripHolds LimitIsDepth
