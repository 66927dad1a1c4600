\* One request at a time and no refused log write: what a race of requests or a
\* full log volume takes away holds here.  Three builds wait for one worker.
SPECIFICATION Spec
CONSTANTS
  b1 = b1  b2 = b2  b3 = b3  p1 = p1  p2 = p2
  c1 = c1  c2 = c2  w1 = w1  w2 = w2
  None = None
  Builds = {b1, b2, b3}
  Projects = {p1, p2}
  Clients = {c1}
  Workers = {w1, w2}
  MaxVersion = 3
  MaxFaults = 0
  MaxCrashes = 1
SYMMETRY Symmetry
CHECK_DEADLOCK FALSE
INVARIANTS
  OneAtATime
  OneActivePerProject
  SuggestionIsFree
PROPERTIES
  FinishedIsFinal
