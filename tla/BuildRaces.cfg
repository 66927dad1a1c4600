\* Two API threads at once, one refused log write, one stop of the process.
\* Liveness is checked, so there is no symmetry.
SPECIFICATION LiveSpec
CONSTANTS
  b1 = b1  b2 = b2  b3 = b3  p1 = p1  p2 = p2
  c1 = c1  c2 = c2  w1 = w1  w2 = w2
  None = None
  Builds = {b1, b2}
  Projects = {p1}
  Clients = {c1, c2}
  Workers = {w1, w2}
  MaxVersion = 2
  MaxFaults = 1
  MaxCrashes = 1
CHECK_DEADLOCK FALSE
INVARIANTS
  NoBuildIsLost
  NoBuildRunsTwice
  StatusFollowsWorker
  VersionsAndNumbersUnique
PROPERTIES
  ImplementsLifecycle
  
