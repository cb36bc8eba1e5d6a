SPECIFICATION Spec
CONSTANTS
  Workers = {w1, w2}
  Servers = {s1, s2}
  MaxMessages = 1
  MaxFaults = 2
PROPERTY WorkersListen
CHECK_DEADLOCK FALSE
