\* Corrections and count reconciliations by two workers, under fairness.
CONSTANTS
  OperationId = {1, 2, 3, 4}
  NoOperation = NoOperation
  NoBucket = NoBucket
  Material = {1, 2}
  Location = {1}
  Condition = {1}
  Quantity = {1, 2}
  Worker = {w1, w2}
  Workload <- Adjustments
SPECIFICATION FairSpec
PROPERTIES
  TriggersAccept
  EveryRequestEnds
CHECK_DEADLOCK FALSE
