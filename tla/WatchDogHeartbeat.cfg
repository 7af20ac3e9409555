SPECIFICATION Spec
CONSTANTS
  MaxFaults = 0
  MaxSem = 2
  StopFaults = 0
INVARIANT HeartbeatEverySecond
CHECK_DEADLOCK FALSE
