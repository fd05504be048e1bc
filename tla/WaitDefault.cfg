SPECIFICATION Spec
CONSTANTS
  Interval = 2
  Timeout = 5
  Horizon = 7
  SettledStates <- MCDefaultStates
INVARIANTS
  TypeOK
  ResultIsFinal
  ContextBlamedOnlyWhenDone
  PollsArePaced
PROPERTIES
  NeverPollsPastSettled
  AlwaysReturns
  ImplementsPromise
CHECK_DEADLOCK FALSE
