SPECIFICATION Spec
CONSTANTS
  Requesters = {r1}
  Starters = {s1}
  Orgs = {1}
  SeedOrg = 1
  MaxModels = 2
  MaxCalls = 1
  MaxStarts = 2
PROPERTIES StartSucceeds
CHECK_DEADLOCK FALSE
