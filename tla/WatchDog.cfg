SPECIFICATION Spec
CONSTANTS
  MaxFaults = 1
  MaxSem = 2
  StopFaults = 0
INVARIANTS NoFalseAlarm HeartbeatOnTime
PROPERTIES CrashedSideComesBack StopReturns
CHECK_DEADLOCK FALSE
