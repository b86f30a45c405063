\* A queue that readings can fill while the child waits for an actuator.
SPECIFICATION Spec
CONSTANTS
  s1 = s1
  s2 = s2
  a1 = a1
  Sensors <- MCOneSensor
  Actuators <- MCOneActuator
  QUEUE_LIMIT = 2
  MAX_READINGS = 3
  MAX_INTERRUPTS = 0
  MAX_FAILURES = 0
  MAX_SENSOR_NUM = 5
  MAX_ACTUATOR_NUM = 5
PROPERTIES
  ChildTellsParent
CHECK_DEADLOCK FALSE
