SPECIFICATION Spec
CONSTANTS
  MaxInputSize = 5
  TokenSizes = {1, 3}
  RepeatLength = 2
  KeepEvery = 2
  KeptMutations = 2
  MaxMutations = 8
  UnknownOptions = {"-x"}
  Numeral <- MCNumeral
  CommandLines <- MCCommandLines
  Found <- MCFound
  Place <- MCPlace
  FileSize <- MCFileSize
INVARIANTS
  TypeOK
  StatusTells
PROPERTY PoolKeepsCorpus
CHECK_DEADLOCK FALSE
