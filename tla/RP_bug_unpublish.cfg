SPECIFICATION Spec
CONSTANTS
  None = None
  Runs = {1, 2}
  Hashes = {k1}
  Requests = {h1}
  Workers = {w1}
  Batches = 1
  DbErrors = TRUE
  MayStall = FALSE
INVARIANT FailedRunIsNotActive
