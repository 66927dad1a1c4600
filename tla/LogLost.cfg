\* One browser, and nothing full or deleted in between.
SPECIFICATION Spec
CONSTANTS
  Readers = {r1}
  Followers = {}
  MaxLines = 2
  FileLines = 2
  ReplayLines = 2
  Capacity = 3
  Slice = 2
CHECK_DEADLOCK FALSE
INVARIANT QueuedIsNotLost
