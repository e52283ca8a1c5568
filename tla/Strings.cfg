SPECIFICATION Spec
CONSTANTS
  Raws <- MCRaws
  Cuts <- MCCuts
  Texts <- MCTexts
  HexDigits = 4
  PieceCount = 3
INVARIANTS TypeOK TextValid EscapeReadsBack
PROPERTY ImplementsTextPass
