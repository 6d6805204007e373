SPECIFICATION StreamSpec
CONSTANTS
  action = action
  decision = decision
  divergence = divergence
  StreamRows = {action, decision, divergence}
  SourceOf <- MCSourceOf
  PollLimit = 1
  ResumeWindow = 4
  LastMoment = 8
INVARIANT NoEventMissed
CHECK_DEADLOCK FALSE
