CONSTANTS
  MaxFd = 5
  HostFds = {3, 4, 5, 6}
  MaxOpens = 2
  RegBits = 10
  PayloadBits = 8
  IntBits = 6
  StatusBits = 4
  ByteRange = 16
  MemSize = 16
  DualEndian = FALSE
  SpikeOptions <- MCSpikeOptions
  Top = 24
  PGSIZE = 4
  Reserve = 1
  KernelOffset64 = 2
  KernelOffset32 = 4
  MB = 4
  DRAM_BASE = 4
  DefaultMB = 3
  PortBits = 4
  Chars <- MCChars
  Isa64 <- MCIsa64
  FileSizes <- MCFileSizes
  Extensions <- MCExtensions
  Plugins <- MCPlugins
SPECIFICATION ServicesSpec
INVARIANTS NoAlias NoLeak RightFile StatusKept LoadedRight ResultsDelivered PathsRight OptionsRight RegionsRight DecodingRight
CHECK_DEADLOCK FALSE
