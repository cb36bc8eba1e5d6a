SPECIFICATION SafeSpec
CONSTANTS
  m1 = m1
  m2 = m2
  m3 = m3
  s1 = s1
  s2 = s2
  Messages = {m1, m2}
  Sessions = {s1}
  SessionOf <- MCSessionOf
  Faults = {"crash", "ack", "publish", "db", "panic"}
  MaxFaults = 2
  MaxCalls = 4
  QueueLimit = 1
  HistoryLimit = 1
  MaxOvertakes = 1
  NoValue = NoValue
INVARIANTS TypeOK ClaimedOnce AnswersInput AnswersAreFaults HistoryIsEarlierInput
CHECK_DEADLOCK FALSE
