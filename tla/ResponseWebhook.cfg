SPECIFICATION Spec
CONSTANTS
  StatusCodes <- MCStatusCodes
INVARIANTS
  WebhookProcessedIsReported
CHECK_DEADLOCK FALSE
