SPECIFICATION Spec
CONSTANTS
  Paths = {"file", "-", "-o", "--compact", "--", "-x"}
  Missing = Missing
  Disks <- MCDisks
  Texts <- MCTexts
  Documents <- MCDocuments
  Pretty <- MCPretty
  Compact <- MCCompact
  CommandLines <- MCCommandLines
  LineLength = 1
INVARIANT FaultsReported
CHECK_DEADLOCK FALSE
