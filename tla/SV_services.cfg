SPECIFICATION ServicesSpec
CONSTANTS
  Envelopes = {e1, e2}
  Traces = {trace}
  TraceOf <- MCTraceOf
  GovConsumers = {consumer1}
  MaxStalled = 1
  ReJobs = {job1, job2, job3}
  Enqueuers = {enqueuer1, enqueuer2}
  Schedulers = {scheduler1}
  ReTiers = {"EMERGENCY", "BACKGROUND"}
  BudgetMax = 2
  TierLimit <- MCTierLimit
  LastDay = 40
  Indexes = {index1, index2}
  Gaps = {5, 31}
  Volumes = {0, 3, 600}
  Original = 50
  Grants = {grant1, grant2}
  Revokers = {revoker1, revoker2}
  MaxUses = 1
  LlmBatches = 1
  Callers = {caller1, caller2}
  MaxWindow = 6
  Tabs = {tab}
  Fetches = {fetch1, fetch2, fetch3}
  TabOf <- MCTabOf
  LastToken = 3
  action = action
  decision = decision
  divergence = divergence
  StreamRows = {action, decision, divergence}
  SourceOf <- MCSourceOf
  PollLimit = 1
  ResumeWindow = 2
  LastMoment = 4
  BulkRequests = {request1}
  DecisionRows = {"row1", "row2", "row3"}
  IndexOf <- MCIndexOf
  MaxNames = 2
  Worker = worker
INVARIANTS
  ServicesTypeOK
  SuccessHasEffect 
  HonestBudget  
  LargerDriftWeighsMore  
  RevocationBacked AuditedIsRevoked
  NoFalseAlarm 
  SessionSurvives 
PROPERTIES
   EveryEnvelopeSettles
  
  RefreshEndsOnPage
  
  RetryIsNewer
  SentInOrder
  SuccessIsWhole
CHECK_DEADLOCK FALSE
