\* Two users count one bucket and one serialized asset, decide, and establish.
CONSTANTS
  User = {u1, u2}
  Manager = {u1, u2}
  Establisher = {u1, u2}
  Session = {s1}
  Baseline = {b1}
  OperationId = {o1, o2}
  Material = {1}
  Location = {l1}
  Condition = {1}
  Asset = {a1}
  MaxQuantity = 1
  MaxTime = 1
  Nothing = Nothing
SPECIFICATION CutoverSpec
SYMMETRY Symmetry
INVARIANTS
  EffectsMatchApprovals
  CountedBeforeCompleted
  ReconciliationSettled
  EstablishedOnEvidence
  BlockersBlock
PROPERTIES
  NoLostCount
CHECK_DEADLOCK FALSE
