SPECIFICATION Spec
CONSTANTS
  m1 = m1
  m2 = m2
  m3 = m3
  s1 = s1
  s2 = s2
  Messages = {m1, m2, m3}
  Sessions = {s1, s2}
  SessionOf <- MCSessionOf
  Faults = {"ack", "panic"}
  MaxFaults = 1
  MaxCalls = 3
  QueueLimit = 4
  HistoryLimit = 20
  MaxOvertakes = 0
  NoValue = NoValue
INVARIANTS NothingForgotten
PROPERTIES WorksInBatches EventuallyAnswered
CHECK_DEADLOCK FALSE
