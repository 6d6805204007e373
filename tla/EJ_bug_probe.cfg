SPECIFICATION Spec
CONSTANTS
  d1 = d1
  d2 = d2
  d3 = d3
  i1 = i1
  i2 = i2
  None = None
  Decisions = {d1, d3}
  Eliminate = {d1}
  Indexes = {i1, i2}
  IndexOf <- MCIndexOfSmall
  Executors = {e1}
  Reconcilers = {r1}
  BatchSize = 1
  MayStall = FALSE
  ProbeMayFail = TRUE
INVARIANT ExecutedOnlyIfGone
CHECK_DEADLOCK FALSE
