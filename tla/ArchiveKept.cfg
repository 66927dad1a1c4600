\* "A file or image another remaining build still points at is kept": one API
\* request at a time, no scans, two references with one archive name.
SPECIFICATION Spec
CONSTANTS
  b1 = b1  b2 = b2  b3 = b3  r1 = r1  r2 = r2  f1 = f1
  s1 = s1  s2 = s2  q1 = q1
  None = None  Torn = Torn
  Builds = {b1, b2}
  Refs = {r1, r2}
  Files = {f1}
  FileOf <- OneArchive
  Scans = {}
  Requests = {q1}
  BuildWorkers = 1
  ScanWorkers = 1
  AutoScan = FALSE
  HasDigest = TRUE
  MaxRestarts = 0
CHECK_DEADLOCK FALSE
INVARIANT ArchivesKept
