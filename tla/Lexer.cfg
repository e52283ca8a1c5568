SPECIFICATION Spec
CONSTANTS
  HexDigits = 2
  TextLength = 5
  CodeLength = 4
  Sources <- MCSources
INVARIANTS TypeOK PlacesTrue ErrorInFirstBadLexeme CaretTrue
PROPERTY ImplementsTextPass
