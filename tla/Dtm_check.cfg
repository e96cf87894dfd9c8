CONSTANTS
  NHarts = 2
  HartselMax = 3
  XLEN = 64
  MemWords = 2
  RamWords = 6
  Entry = 3
  MaxOps = 1
  MaxWords = 2
  Data = {0, 1}
  Csrs = {"mscratch"}
SPECIFICATION LiveSpec
INVARIANTS BorrowedRestored DoneRight CommandsLegal
PROPERTY OperationsEnd
