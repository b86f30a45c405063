\* No assumption on how long main's usleep lasts compared with a thread's start.
SPECIFICATION SafeSpec
CONSTANTS
  NUM_CPU = 2
  num_processes = 2
  MAX_QUEUE_SIZE = 2
  SERVICE_GRAIN = 1
  RT_PRIORITIES = {50}
  EXEC_TIMES = {300}
  LATENESS = {0}
  TIMELY = FALSE
INVARIANTS
  OwnQueue
