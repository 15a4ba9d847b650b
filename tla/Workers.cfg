\* Two processes that may stop, crash and start for ever, and one job.
SPECIFICATION FairSpec
CONSTANTS
  j1 = j1
  j2 = j2
  s1 = s1
  s2 = s2
  name = name
  None = None
  Name = name
  Owners = {name}
  Documents <- OneReading
  Services = {s1, s2}
  Jobs = {j1}
  Lease = 2
  RetryDelay = 1
  Priorities = {1}
  Limits = {1, 2}
INVARIANTS DoneIsStored StoredPerAttempt
PROPERTIES EveryJobEnds
