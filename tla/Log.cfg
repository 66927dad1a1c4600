\* A browser that comes and goes and a polling client; four lines, of which
\* the file keeps three, a replay shows two, and a channel or a poll holds two.
\* The six commands with a log of seven bytes, four lost answers and two
\* attempts; a panel with two builds, one lost answer and two reads at once.
SPECIFICATION MCSpec
CONSTANTS
  r1 = r1  r2 = r2  f1 = f1  b1 = b1  b2 = b2
  None = None
  Readers = {r1}
  Followers = {f1}
  MaxLines = 4
  FileLines = 3
  ReplayLines = 2
  Capacity = 2
  Slice = 2
  Kinds = {"build", "wait", "follow", "reconnect", "show", "logs"}
  Size = 7
  Newlines = {2, 6}
  Limit = 3
  TailBytes = 4
  Attempts = 2
  MaxLost = 4
  PanelSize = 2
  PanelNewlines = {1, 2}
  PanelLimit = 1
  PanelLost = 1
  Views = {1, 2}
  Threads = {1, 2}
CHECK_DEADLOCK FALSE
INVARIANTS
  NothingMissing
  DoneComesLast
  TwiceAtWorst
  CompleteHasTheResult
  ToldIsTrue
  
PROPERTY EveryoneReadsToTheEnd
