SPECIFICATION Spec
CONSTANTS
  Half = 8
  Unit = 4
  Infinity = 80
  Garbage = 0
  Doubles <- DenseDoubles
INVARIANTS TypeOK ComparesExactly
PROPERTY ReloadKeepsNumber
