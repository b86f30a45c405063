\* One CPU, tasks of every type and length: what priorities and queues go through.
SPECIFICATION SafeSpec
CONSTANTS
  NUM_CPU = 1
  num_processes = 4
  MAX_QUEUE_SIZE = 2
  SERVICE_GRAIN = 2
  RT_PRIORITIES = {10, 50}
  EXEC_TIMES = {100, 600}
  LATENESS = {0}
  TIMELY = TRUE
INVARIANTS
  TypeOK
  PlacedByPriority
  TasksConserved
  FinishedFlagSound
  ServiceAccounted
