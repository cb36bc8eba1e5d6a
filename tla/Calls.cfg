SPECIFICATION Spec
CONSTANTS
  Workers = {w1, w2}
  Connecting = {w1}
  Callers = {c1, c2}
  Clients = {k1}
  Lanes = {l1}
  Viewers = {v1}
  tea = tea
  rain = rain
  bad = bad
  Pieces = {tea, rain, bad}
PROPERTIES NothingHaltsUnlessLocked NothingWaitsUnlessCycle CallsReturn
PROPERTIES ConnectionsEnd EndIsShown RunsEnd EndedRunsAreHandled
CHECK_DEADLOCK FALSE
