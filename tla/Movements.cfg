\* Receipts, issues, returns, transfers and retries by two workers.
CONSTANTS
  OperationId = {1, 2, 3, 4, 5, 6}
  NoOperation = NoOperation
  NoBucket = NoBucket
  Material = {1, 2}
  Location = {1, 2}
  Condition = {1}
  Quantity = {1}
  Worker = {w1, w2}
  Workload <- Movements
SPECIFICATION Spec
SYMMETRY Symmetry
INVARIANTS
  StockOnlyAtUsableLocations
  ReadsCurrent
  AckedIsPosted
  NoWaitCycle
PROPERTIES
  ImplementsLedger
  TriggersAccept
CHECK_DEADLOCK FALSE
