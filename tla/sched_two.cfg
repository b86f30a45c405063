\* Two CPUs: the threads and the locks.
SPECIFICATION Spec
CONSTANTS
  NUM_CPU = 2
  num_processes = 4
  MAX_QUEUE_SIZE = 2
  SERVICE_GRAIN = 1
  RT_PRIORITIES = {50}
  EXEC_TIMES = {300}
  LATENESS = {0}
  TIMELY = TRUE
INVARIANTS
  PointerStaysGood
  FinishedFlagSound
PROPERTIES
  AllTasksFinish
  TaskPoolSpec
