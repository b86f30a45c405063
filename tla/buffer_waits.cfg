\* Sessions without failures, but for processes that are killed: the consumer started first
\* over what a killed session left.  The processes may stop waiting for each other.
SPECIFICATION SessionsSpec
CONSTANTS
  NUM_BUFFERS = 2
  STRING_SIZE = 1
  BUFSIZ = 2
  NUL = 0
  USE_S = TRUE
  MAX_SESSIONS = 2
  MAX_INTERRUPTS = 0
  FAULTS = {}
  Byte <- MCByte
  Files <- MCFiles
  OldOutputs <- MCOldOutputs
INVARIANTS
  NoStaleBlock
CHECK_DEADLOCK FALSE
