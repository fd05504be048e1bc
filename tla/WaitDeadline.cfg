SPECIFICATION Spec
CONSTANTS
  Interval = 2
  Timeout = 5
  Horizon = 7
  SettledStates <- MCDefaultStates
INVARIANTS
  DeadlineReportedAsTimeout
CHECK_DEADLOCK FALSE
