SPECIFICATION MSpec
CONSTANTS
  MaxFd = 1
  Always = {}
  MaxCalls = 4
  MaxRequests = 3
PROPERTIES
  DestructorReturns
CHECK_DEADLOCK FALSE
