\* Part B's program, without semaphore S, under the failures the code handles, with waits
\* interrupted and processes killed and started again.  The processes may stop waiting for
\* each other, as the code does when one exits early.
SPECIFICATION SessionsSpec
CONSTANTS
  NUM_BUFFERS = 2
  STRING_SIZE = 1
  BUFSIZ = 2
  NUL = 0
  USE_S = FALSE
  MAX_SESSIONS = 2
  MAX_INTERRUPTS = 1
  FAULTS = {"stat", "open", "read", "write", "short", "shrink"}
  Byte <- MCByte
  Files <- MCFiles
  OldOutputs <- MCOldOutputs
INVARIANTS
  ExclusionRestored
  OrderRestored
  OwnBlocksOnly
  CountsRestored
  MisledOnlyByLeftovers
CHECK_DEADLOCK FALSE
