SPECIFICATION FairSpec
CONSTANTS
  None = None
  Runs = {1}
  Hashes = {k1}
  Requests = {h1}
  Workers = {w1}
  Batches = 2
  DbErrors = FALSE
  MayStall = FALSE
PROPERTY InterruptedJobResumes
