\* The source's own constants, and the least argument that overfills a queue.
SPECIFICATION SafeSpec
CONSTANTS
  NUM_CPU = 4
  num_processes = 68
  MAX_QUEUE_SIZE = 10
  SERVICE_GRAIN = 1
  RT_PRIORITIES = {50}
  EXEC_TIMES = {300}
  LATENESS = {0}
  TIMELY = TRUE
INVARIANTS
  QueueFits
