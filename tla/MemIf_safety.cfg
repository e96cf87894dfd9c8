CONSTANTS
  Align = 4
  MaxChunk = 8
  Size = 16
  MaxLen = 16
  MaxReqs = 1
  MaxStores = 1
SPECIFICATION Spec
INVARIANTS CallsLegal NothingElseChanged WriteComplete ReadComplete
CHECK_DEADLOCK FALSE
