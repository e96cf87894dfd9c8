CONSTANTS
  Base = 2
  MaxLen = 2
  MaxWrites = 2
  HasTohost = TRUE
SPECIFICATION LiveSpec
PROPERTIES ImplementsPort ReadReturns CoreStarts
