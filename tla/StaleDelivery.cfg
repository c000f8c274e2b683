\* A line is linked to another material while a delivery for it is under way.
CONSTANTS
  OperationId = {1, 2, 3}
  NoOperation = NoOperation
  NoBucket = NoBucket
  Material = {1, 2}
  Location = {1}
  Condition = {1}
  Quantity = {1, 2}
  Workload <- Others
  Worker = {w1, w2}
  Idle = Idle
  Line = {1, 2}
  Unit = {"kg", "m"}
  NoMaterial = NoMaterial
  NoOrder = NoOrder
  Draft <- Drafts
  Errand <- Relinked
SPECIFICATION Spec
SYMMETRY Symmetry
INVARIANTS
  PostedAsConfirmed
CHECK_DEADLOCK FALSE
