\* A channel with three posts on pages of two, deleted but never edited.
SPECIFICATION FairSpec
CONSTANTS
  t1 = t1
  None = None
  Source = "telegram"
  Targets = {t1}
  PageSize = 2
  ReplayLimit = 1
  MaxPosts = 3
  MaxEdits = 0
INVARIANTS CheckpointIsHonest
PROPERTIES EveryPostQueued
