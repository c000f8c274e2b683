\* Two requests, two managers who may both ask and decide, two workers.
CONSTANTS
  OperationId = {1, 2, 3, 4, r1, r2}
  NoOperation = NoOperation
  NoBucket = NoBucket
  Material = {1, 2}
  Location = {1, 2}
  Condition = {1}
  Quantity = {1, 2}
  Workload <- Others
  Claim <- Claims
  Request = {r1, r2}
  User = {u1, u2}
  NoUser = NoUser
  Worker = {w1, w2}
  Idle = Idle
SPECIFICATION Spec
SYMMETRY Symmetry
INVARIANTS
  DecisionsMatchLedger
  ApprovalsAreTrue
  BalanceIsLedger
  ReturnsWithinIssue
  CorrectionFloor
CHECK_DEADLOCK FALSE
