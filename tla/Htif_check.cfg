CONSTANTS
  Zero = Zero
  Garbage = Garbage
  Kinds = {"exit", "sysexit", "call", "sysread", "identify", "getc", "putc", "null"}
  MaxCmds = 3
  MaxChars = 2
  HasTohost = TRUE
  WithSignature = TRUE
SPECIFICATION LiveSpec
INVARIANTS BootOrder CallDataKept CharsOnce
PROPERTIES ImplementsService EveryCallAnswered RunEnds
CHECK_DEADLOCK FALSE
