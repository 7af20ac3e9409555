SPECIFICATION Spec
CONSTANTS
  t1 = t1
  t2 = t2
  Tasks = {t1}
  Priority <- MCPriority
  InitThreads = 2
  MaxThreads = 3
  MaxCalls = 3
INVARIANTS
  ResizeBalance
  StoppedMeansDone
  OneTaskAfterPause
PROPERTIES
  StopReturns
CHECK_DEADLOCK FALSE
