CONSTANTS
  Base = 2
  MaxLen = 2
  MaxWrites = 1
  HasTohost = FALSE
SPECIFICATION LiveSpec
PROPERTIES CoreStarts
CHECK_DEADLOCK FALSE
