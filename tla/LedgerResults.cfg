\* One BUY, an hour of two units, two forks above the entry block; the wall clock
\* may be set back once.
SPECIFICATION Spec
CONSTANTS
  b1 = b1
  e = e
  f1 = f1
  g1 = g1
  g2 = g2
  None = None
  MaxTime = 4
  MaxBack = 1
  MaxCommits = 4
  Buys = {b1}
  Blocks = {e, f1, g1, g2}
  Number <- MCNumber
  Parent <- MCParent
  Mined <- MCMined
  EntryOf <- MCEntryOf
  Hour = 2
  MaxGap = 1
  Lateness = 0
INVARIANTS NoForkStitching HourIsCovered ResultStands
CHECK_DEADLOCK FALSE
