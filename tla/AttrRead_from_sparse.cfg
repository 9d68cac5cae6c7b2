SPECIFICATION Spec
CONSTANTS
  BlockSize = 3
  LastBlock = 9
  Cases <- SparseCases
  MaxLen = 12
INVARIANTS ReadReturnsContent
CHECK_DEADLOCK FALSE
