SPECIFICATION Spec
CONSTANTS
  m1 = m1
  m2 = m2
  m3 = m3
  s1 = s1
  s2 = s2
  Messages = {m1, m2}
  Sessions = {s1}
  SessionOf <- MCSessionOf
  Faults = {"crash"}
  MaxFaults = 1
  MaxCalls = 3
  QueueLimit = 4
  HistoryLimit = 20
  MaxOvertakes = 0
  NoValue = NoValue
PROPERTY EventuallyAnswered
CHECK_DEADLOCK FALSE
