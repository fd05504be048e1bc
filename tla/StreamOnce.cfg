SPECIFICATION Spec
CONSTANTS
  Handlers = {"onPaid", "onPlan", "onAny1", "onAny2"}
  HandlerType <- MCHandlerType
  EventTypes <- MCEventTypes
  MaxConnections = 1
  MaxEvents = 3
  MaxToken = 2
INVARIANTS
  TypeOK
  ExactDelivery
CHECK_DEADLOCK FALSE
