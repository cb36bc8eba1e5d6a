SPECIFICATION Spec
CONSTANTS
  Ids = {i1}
  MaxStarts = 1
  MaxCalls = 1
  MaxChecks = 0
PROPERTY CallsEnd
CHECK_DEADLOCK FALSE
