SPECIFICATION Spec
CONSTANTS
  Handlers = {"onAny1"}
  HandlerType <- MCHandlerType
  EventTypes <- MCOneType
  MaxConnections = 2
  MaxEvents = 0
  MaxToken = 2
PROPERTIES
  ConnectCarriesCurrentToken
CHECK_DEADLOCK FALSE
