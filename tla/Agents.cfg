SPECIFICATION Spec
CONSTANTS
  Actors = {a1, a2}
  Others = {o1, o2}
  Lanes = {l1}
  Viewers = {v1}
  Names = {"n"}
  Registered = {"memory", "skill_use"}
  Defaults = {"memory", "skill_use"}
  Requested <- SomeRequests
  Providers = {"claude", "codex"}
  Falls = {"claude"}
  Orgs = {1}
  SeedOrg = 1
  Provided = {"p"}
  Tools = {"t"}
  MaxModels = 2
  MaxModelCalls = 2
  MaxStarts = 2
  MaxModelActs = 3
  MaxContainers = 3
  MaxDockerCalls = 4
  MaxFaults = 2
  QueueSize = 1
  MaxMessages = 1
  MaxSends = 1
  MaxEventRuns = 2
  MaxEvents = 4
  MaxLeaves = 1
  MaxRepeats = 1
  Room = 1
  MayLose = TRUE
  MaxStep = 2
  LearnSteps = 1
  MaxRetries = 1
  ManyCalls = 2
  ManySkillCalls = 1
  MaxAgentCalls = 2
  MaxLines = 3
  MaxRuns = 3
  MaxLosses = 1
  MaxSaves = 1
  MaxSaid = 4
INVARIANTS TypeOK UnlistedIsExplained PanicNeedsOverflow CompletedClosesRun
INVARIANTS DeliveriesAreExplained EndIsFinal HistoryIsWhole CompletedIsSuccess ResumesLastSession
PROPERTIES DefaultsAreExplained
SYMMETRY Symmetry
CHECK_DEADLOCK FALSE
