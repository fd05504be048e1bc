SPECIFICATION Spec
CONSTANTS
  Callers = {c1}
  MaxToken = 1
  MaxHops = 2
INVARIANTS
  APIKeyIsPresented
