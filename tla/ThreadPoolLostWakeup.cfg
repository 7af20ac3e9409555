SPECIFICATION Spec
CONSTANTS
  t1 = t1
  t2 = t2
  Tasks = {t1, t2}
  Priority <- MCPriority
  InitThreads = 1
  MaxThreads = 1
  MaxCalls = 2
PROPERTIES
  RunningPoolWorks
CHECK_DEADLOCK FALSE
