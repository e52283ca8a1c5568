SPECIFICATION Spec
CONSTANTS
  Invalid = Invalid
  MaxDepth = 2
  Strings = {"a", "u0061", "surrogate"}
  Commas = {"u0061"}
  Numerals = {"one", "huge"}
  Text <- MCText
  Number <- MCNumber
  Inputs <- MCInputs
  StreamLength = 4
  DocumentLength = 9
INVARIANTS TypeOK ErrorAtFirstBadToken DepthIsNesting EveryArrayHinted
PROPERTIES HintsExact ImplementsTextPass
