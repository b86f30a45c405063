\* CTRL+C twice, at any time, two failures, and a queue that fills up.  The processes
\* may wait for room in the queue, or in open, forever, and stop for good when all have
\* ended.
SPECIFICATION SafeSpec
CONSTANTS
  s1 = s1
  s2 = s2
  a1 = a1
  Sensors <- MCOneSensor
  Actuators <- MCOneActuator
  QUEUE_LIMIT = 3
  MAX_READINGS = 2
  MAX_INTERRUPTS = 2
  MAX_FAILURES = 2
  MAX_SENSOR_NUM = 5
  MAX_ACTUATOR_NUM = 5
INVARIANTS
  TypeOK
  ParentNeverWaits
  CrossingsInOrder
  StopForEach
  CloudLeftOnlyByLoss
CHECK_DEADLOCK FALSE
