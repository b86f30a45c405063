\* The fault-free session, with semaphore S as in the source.
SPECIFICATION Spec
CONSTANTS
  NUM_BUFFERS = 3
  STRING_SIZE = 2
  BUFSIZ = 4
  NUL = 0
  USE_S = TRUE
  FAULTS = {}
  Byte <- MCByte
  Files <- MCFiles
  OldOutputs <- MCOldOutputs
INVARIANTS
  TypeOK
  CopyFaithful
  TeardownSafe
  DoneIsComplete
PROPERTIES
  ChannelSpec
  CopyCompletes
