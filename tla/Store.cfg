SPECIFICATION Spec
CONSTANTS
  Documents <- MCDocuments
  KeyOrder <- MCKeyOrder
  Height = 3
  IndexBound = 3
  TooLarge = 9
  MaxSources = 2
  Growth = {"moves", "copies"}
INVARIANTS TypeOK MergesCopies DefinedUnlessHazardous ThrowKeepsDocument
PROPERTY EveryCallEnds
