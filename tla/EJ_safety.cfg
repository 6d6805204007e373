SPECIFICATION Spec
CONSTANTS
  d1 = d1
  d2 = d2
  d3 = d3
  i1 = i1
  i2 = i2
  None = None
  Decisions = {d1, d2, d3}
  Eliminate = {d1, d2}
  Indexes = {i1, i2}
  IndexOf <- MCIndexOf
  Executors = {e1, e2}
  Reconcilers = {r1, r2}
  BatchSize = 1
  MayStall = TRUE
  ProbeMayFail = TRUE
SYMMETRY Symmetry
INVARIANTS TypeOK OneOwner VerdictHasEvidence
CHECK_DEADLOCK FALSE
