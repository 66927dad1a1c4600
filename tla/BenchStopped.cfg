\* Only the benchmark of Offline.cfg: is a run that was stopped told so?
SPECIFICATION BenchSpec
CONSTANTS
  b1 = b1  b2 = b2  q1 = q1  q2 = q2  m1 = m1  w1 = w1  w2 = w2
  None = None
  Builds = {b1, b2}
  Exported = {b1}
  Length <- ThreeChunks
  PartSize = 2
  Requests = {q1, q2}
  MaxFaults = 1
  Folders <- ModelFolders
  PartSizes = {3, 4, 20}
  Block = 2
  ReadChunk = 2
  Models = {m1}
  Hosts <- GpuHosts
  Options <- SetupOptions
  MaxKitFaults = 2
  Workers = {w1, w2}
  Items <- TestItems
  Warm = 1
  Measured = 2
  MaxJobs = 2
  d1 = d1
  Dirs = {d1, d2, d3}
  Savers = {s1, s2}
  Remembered = 2
  FetchLength = 2
  MaxMoves = 2
  Other = Other
CHECK_DEADLOCK FALSE
INVARIANTS
  StoppedIsTold
