\* No CTRL+C, and room in the queue for all that is sent.
SPECIFICATION Spec
CONSTANTS
  s1 = s1
  s2 = s2
  a1 = a1
  Sensors <- MCTwoSensors
  Actuators <- MCOneActuator
  QUEUE_LIMIT = 8
  MAX_READINGS = 1
  MAX_INTERRUPTS = 0
  MAX_FAILURES = 0
  MAX_SENSOR_NUM = 5
  MAX_ACTUATOR_NUM = 5
INVARIANTS
  SendersListed
  ReplyMatches
PROPERTIES
  DevicesServed
