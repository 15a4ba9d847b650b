\* One channel with a message whose text has two spaces in a row.
SPECIFICATION CollectionSpec
CONSTANTS
  t1 = t1
  t2 = t2
  None = None
  Source = "telegram"
  Targets = {t1}
  PageSize = 1
  ReplayLimit = 1
  MaxPosts = 1
  MaxEdits = 0
  Spaced = {1}
INVARIANT ObservedIdempotently
