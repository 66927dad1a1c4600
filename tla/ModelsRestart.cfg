\* "A restart picks unfinished ones up again": one model, one stop of the
\* process, and nothing else goes wrong.
SPECIFICATION LiveSpec
CONSTANTS
  m1 = m1  m2 = m2  n1 = n1  n2 = n2  q1 = q1  q2 = q2
  None = None
  Models = {m1}
  Names = {n1}
  Requests = {q1}
  MaxFaults = 0
  MaxRetries = 0
  MaxRestarts = 1
CHECK_DEADLOCK FALSE
PROPERTY RestartResumes
