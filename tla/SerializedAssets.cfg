\* Movements of two assets by two workers, with retries and crashes.
CONSTANTS
  OperationId = {1, 2, 3, 4, 5, 6, 7}
  NoOperation = NoOperation
  Asset = {1, 2}
  Material = {1, 2}
  Location = {1, 2}
  Condition = {1, 2}
  None = None
  Worker = {w1, w2}
  Workload <- Movements
SPECIFICATION Spec
SYMMETRY Symmetry
INVARIANTS
  HistoryReplays
  AssetsAtUsableLocations
  NoWaitCycle
PROPERTIES
  ImplementsCustody
  AssetTriggersAccept
CHECK_DEADLOCK FALSE
