\* Two API threads beside the worker, two models that want one folder name,
\* one failed or wrong transfer, two retries, one stop of the process.
SPECIFICATION LiveSpec
CONSTANTS
  m1 = m1  m2 = m2  n1 = n1  n2 = n2  q1 = q1  q2 = q2
  None = None
  Models = {m1, m2}
  Names = {n1}
  Requests = {q1, q2}
  MaxFaults = 1
  MaxRetries = 2
  MaxRestarts = 1
CHECK_DEADLOCK FALSE
INVARIANTS
  ReadyIsVerified
PROPERTIES
  ReadyIsKept
  EveryDownloadSettles
