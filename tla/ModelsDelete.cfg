\* "Remove a model and its folder, cancelling a running download": one API
\* thread, no stop of the process, and nothing else goes wrong.
SPECIFICATION Spec
CONSTANTS
  m1 = m1  m2 = m2  n1 = n1  n2 = n2  q1 = q1  q2 = q2
  None = None
  Models = {m1}
  Names = {n1}
  Requests = {q1}
  MaxFaults = 0
  MaxRetries = 0
  MaxRestarts = 0
CHECK_DEADLOCK FALSE
INVARIANT DeletionLeavesNothing
