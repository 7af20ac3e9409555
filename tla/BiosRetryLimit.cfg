SPECIFICATION BiosSpec
CONSTANTS
  BiosPlans <- MCPlans
  BiosTarget = "fcp"
  BiosFirst = "A"
  BiosLosses = 2
INVARIANT RetryLimitSurvives
CHECK_DEADLOCK FALSE
