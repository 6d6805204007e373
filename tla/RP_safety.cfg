SPECIFICATION Spec
CONSTANTS
  None = None
  Runs = {1, 2}
  Hashes = {k1}
  Requests = {h1, h2}
  Workers = {w1}
  Batches = 2
  DbErrors = TRUE
  MayStall = TRUE
SYMMETRY Symmetry
INVARIANTS TypeOK HashIsExclusive NoZombieRun OnePublishedRun
PROPERTY PublishedStays
