\* Two readings, no CTRL+C.
SPECIFICATION Spec
CONSTANTS
  s1 = s1
  s2 = s2
  a1 = a1
  Sensors <- MCOneSensor
  Actuators <- MCNoActuator
  QUEUE_LIMIT = 8
  MAX_READINGS = 2
  MAX_INTERRUPTS = 0
  MAX_FAILURES = 0
  MAX_SENSOR_NUM = 5
  MAX_ACTUATOR_NUM = 5
PROPERTIES
  CrossingsReachCloud
CHECK_DEADLOCK FALSE
