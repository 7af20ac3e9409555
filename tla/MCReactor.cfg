SPECIFICATION Spec
CONSTANTS
  MaxFd = 2
  Always <- MCAlways
  MaxCalls = 5
INVARIANTS
  MapMatchesSets
  BatchHasHandlers
PROPERTIES
  StopEndsRun
  ReadyReadIsCalled
CHECK_DEADLOCK FALSE
