\* services/builds.py: "One worker thread runs builds one at a time".
SPECIFICATION Spec
CONSTANTS
  b1 = b1  b2 = b2  b3 = b3  p1 = p1  p2 = p2
  c1 = c1  c2 = c2  w1 = w1  w2 = w2
  None = None
  Builds = {b1, b2}
  Projects = {p1, p2}
  Clients = {c1, c2}
  Workers = {w1, w2}
  MaxVersion = 1
  MaxFaults = 0
  MaxCrashes = 0
CHECK_DEADLOCK FALSE
INVARIANT OneAtATime
