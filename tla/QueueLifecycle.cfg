\* Two jobs of two priorities, observed again with fresher details; one worker.
SPECIFICATION Spec
CONSTANTS
  j1 = j1
  j2 = j2
  c1 = c1
  w1 = w1
  w2 = w2
  name = name
  None = None
  Jobs = {j1, j2}
  Documents <- TwoReadings
  Owners = {name}
  Collectors = {c1}
  Workers = {w1}
  NameOf <- SameName
  Lease = 1
  RetryDelay = 1
  Priorities = {1, 2}
  Limits = {2}
  MaxTime = 3
SYMMETRY Symmetry
INVARIANTS RowsPassChecks NeverStranded
PROPERTIES ImplementsLifecycle
