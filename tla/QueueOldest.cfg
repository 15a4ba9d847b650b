\* Two jobs of one priority created at different times.
SPECIFICATION Spec
CONSTANTS
  j1 = j1
  j2 = j2
  c1 = c1
  w1 = w1
  w2 = w2
  name = name
  None = None
  Jobs = {j1, j2}
  Documents <- OneReading
  Owners = {name}
  Collectors = {c1}
  Workers = {w1}
  NameOf <- SameName
  Lease = 2
  RetryDelay = 1
  Priorities = {1}
  Limits = {2}
  MaxTime = 2
SYMMETRY Symmetry
PROPERTIES ClaimsOldestReady
