CONSTANTS
  WordBits = 8
  ByteBits = 2
  NRegs = 4
  DataBase = 64
  MemSize = 8
  N = 6
  Data <- MCData
  Programs <- MCPrograms
  Inputs <- MCInputs
SPECIFICATION Spec
INVARIANT NoOverrun
CHECK_DEADLOCK FALSE
