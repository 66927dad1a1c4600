\* One API request at a time, beside the build worker and the scan worker: two
\* builds of one archive name, two scans, a stop of the process.
SPECIFICATION LiveSpec
CONSTANTS
  b1 = b1  b2 = b2  b3 = b3  r1 = r1  r2 = r2  f1 = f1
  s1 = s1  s2 = s2  q1 = q1
  None = None  Torn = Torn
  Builds = {b1, b2}
  Refs = {r1}
  Files = {f1}
  FileOf <- OneArchive
  Scans = {s1, s2}
  Requests = {q1}
  BuildWorkers = 1
  ScanWorkers = 1
  AutoScan = TRUE
  HasDigest = TRUE
  MaxRestarts = 1
CHECK_DEADLOCK FALSE
INVARIANTS
  ImagesKept
  ScansHaveTheirBuild
  ScansDescribeTheirImage
PROPERTY EveryScanFinishes
