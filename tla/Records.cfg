SPECIFICATION Spec
CONSTANTS
  Callers = {c1, c2}
  Workers = {w1, w2}
  tea = tea
  rain = rain
  bad = bad
  Pieces = {tea, rain, bad}
  Blocked = {bad}
  Needles <- SomeNeedles
  Contents <- SomeContents
  Limit <- SmallFiles
  Externals = {"x", "y"}
  Flows = {"f", "g"}
  Orgs = {"org", "other"}
  Codes = {"k"}
  MaxSessionMessages = 3
  MaxSessionCalls = 4
  MaxConns = 2
  MaxWorkerMessages = 1
  MaxListings = 0
  MaxCommands = 1
  QueueSize = 1
  MaxStarts = 3
  MaxStops = 2
  MaxChecks = 1
  MaxChanges = 3
  MaxRestarts = 1
  MaxResolves = 1
  MaxAssistants = 3
  MaxRequests = 4
  MaxBrokerFaults = 1
  Skills = {"a", "b"}
  Builtin = {"a"}
  BuiltinDir <- OneBuiltin
  Documents <- SomeDocuments
  Fragments = {"x", "y"}
  Patches <- SomePatches
  SkillsDirMade = TRUE
  Installed <- OneInstalled
  MaxSkillCalls = 2
  MaxCrashes = 1
  MaxWithCLI = 2
  OldSubjects <- OlderSubjects
SYMMETRY Symmetry
INVARIANTS TypeOK CountMatches SeenSortsBefore CatalogHolds WorkersStayReachable SoleIsManaged
PROPERTIES OnlyStaleCallsUndo TextLeavesKnowingly NoLostUpdate AuthorizationsHold StreamsStand
CHECK_DEADLOCK FALSE
