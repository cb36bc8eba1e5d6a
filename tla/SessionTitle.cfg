SPECIFICATION Spec
CONSTANTS
  Callers = {p1, p2}
  Ops <- SaveOps
  MaxMessages = 1
  MaxCalls = 2
PROPERTY ManualTitleStays
CHECK_DEADLOCK FALSE
