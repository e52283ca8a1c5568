SPECIFICATION Spec
CONSTANTS
  Documents <- MCDocuments
  KeyOrder <- MCKeyOrder
  Height = 3
  IndexBound = 3
  TooLarge = 9
  MaxSources = 1
  Growth = {"moves"}
INVARIANT RemovesOrThrows
