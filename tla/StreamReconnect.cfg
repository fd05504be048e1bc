SPECIFICATION Spec
CONSTANTS
  Handlers = {"onAny1"}
  HandlerType <- MCHandlerType
  EventTypes <- MCOneType
  MaxConnections = 2
  MaxEvents = 2
  MaxToken = 1
INVARIANTS
  ExactDelivery
  NoDuplicateDelivery
  NoOrphanConnection
PROPERTIES
  DispatchersEnd
CHECK_DEADLOCK FALSE
