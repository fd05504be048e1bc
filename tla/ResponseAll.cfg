SPECIFICATION ExchangeSpec
CONSTANTS
  StatusCodes <- MCStatusCodes
  MaxPerformed = 2
INVARIANTS
  ExchangeTypeOK
  SentinelsAreTruthful
  NoSilentFailure
  PanicsAreForeignBodies
  RejectedTokenIsUnauthorized
  SuccessMeansPerformed
  EffectsHappenOnce
  DoneIsReportedDone
PROPERTIES
  ImplementsHandling
  CancelledCallReturns
CHECK_DEADLOCK FALSE
