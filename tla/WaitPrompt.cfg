SPECIFICATION PromptSpec
CONSTANTS
  Interval = 3
  Timeout = 12
  Horizon = 13
  SettledStates <- MCDefaultStates
INVARIANTS
  NoSettledOperationMissed
CHECK_DEADLOCK FALSE
