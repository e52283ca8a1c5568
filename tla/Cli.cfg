SPECIFICATION Spec
CONSTANTS
  Paths = {"file", "-", "-o", "--compact", "--", "-x"}
  Missing = Missing
  Disks <- MCDisks
  Texts <- MCTexts
  Documents <- MCDocuments
  Pretty <- MCPretty
  Compact <- MCCompact
  CommandLines <- MCCommandLines
  LineLength = 4
INVARIANTS
  FilesSafe
  StatusTells
  OptionsByUsage
CHECK_DEADLOCK FALSE
