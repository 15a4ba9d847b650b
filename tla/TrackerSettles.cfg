\* A BUY whose hour of one unit is over before time ends; the wall clock is steady.
SPECIFICATION TrackerSpec
CONSTANTS
  b1 = b1
  e = e
  f1 = f1
  None = None
  MaxTime = 4
  MaxBack = 0
  MaxCommits = 6
  Buys = {b1}
  Blocks = {e, f1}
  Number <- MCNumber
  Parent <- MCParent
  Mined <- MCMined
  EntryOf <- MCEntryOf
  Hour = 1
  MaxGap = 1
  Lateness = 0
PROPERTIES EveryBuyIsSettled
CHECK_DEADLOCK FALSE
