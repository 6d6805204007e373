SPECIFICATION FairSpec
CONSTANTS
  Requests = {r1}
  Approvers = {ana, ben}
  Quorums = {2}
  Capacity = 1
  MaxInFlight = 2
PROPERTIES OverdueExpires
