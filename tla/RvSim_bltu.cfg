CONSTANTS
  WordBits = 8
  ByteBits = 2
  NRegs = 4
  DataBase = 64
  MemSize = 8
  N = 6
  Data <- MCData
  Programs <- MCUnsigned
  Inputs <- MCInputs
SPECIFICATION Spec
PROPERTY UnsignedBranchesRight
CHECK_DEADLOCK FALSE
