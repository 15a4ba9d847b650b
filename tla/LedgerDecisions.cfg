\* One candidate with two signals, one piece of evidence, one decision, two BUYs.
SPECIFICATION Spec
CONSTANTS
  b1 = b1
  b2 = b2
  c1 = c1
  s1 = s1
  s2 = s2
  k1 = k1
  d1 = d1
  None = None
  MaxTime = 3
  MaxBack = 0
  MaxCommits = 4
  Candidates = {c1}
  Signals = {s1, s2}
  Evidences = {k1}
  Decisions = {d1}
  Buys = {b1, b2}
INVARIANTS DecisionStands EvidenceFirst CommitOrder BuyIsWhole
PROPERTIES ViewFixed
SYMMETRY Symmetry
CHECK_DEADLOCK FALSE
