\* Two channels with a message each, read from the page and from the session.
SPECIFICATION CollectionSpec
SYMMETRY Symmetry
CONSTANTS
  t1 = t1
  t2 = t2
  None = None
  Source = "telegram"
  Targets = {t1, t2}
  PageSize = 1
  ReplayLimit = 1
  MaxPosts = 1
  MaxEdits = 0
  Spaced = {1}
INVARIANTS PassedIsQueued LiveMissesNothing
