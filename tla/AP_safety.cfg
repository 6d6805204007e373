SPECIFICATION Spec
CONSTANTS
  Requests = {r1, r2, r3}
  Approvers = {ana, ben}
  Quorums = {1, 2}
  Capacity = 2
  MaxInFlight = 2
SYMMETRY Symmetry
INVARIANTS TypeOK  TableFollowsBuffer OverdueStaysOpen
