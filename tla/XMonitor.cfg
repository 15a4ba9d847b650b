\* An account with three posts on pages of two, each of which may be edited once and
\* deleted.
SPECIFICATION MonitorSpec
CONSTANTS
  t1 = t1
  None = None
  Source = "x"
  Targets = {t1}
  PageSize = 2
  ReplayLimit = 1
  MaxPosts = 3
  MaxEdits = 1
INVARIANTS CheckpointIsHonest
