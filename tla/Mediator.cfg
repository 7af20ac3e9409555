SPECIFICATION MSpec
CONSTANTS
  MaxFd = 2
  Always = {}
  MaxCalls = 4
  MaxRequests = 3
INVARIANTS
  MapsAgree
  RequestsConserved
PROPERTIES
  NoMissingHandler
  RequestServed
CHECK_DEADLOCK FALSE
