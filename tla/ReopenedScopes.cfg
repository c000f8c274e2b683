\* Two sessions over one location.
CONSTANTS
  User = {u1, u2}
  Manager = {u2}
  Session = {s1, s2}
  OperationId = {o1}
  Material = {1}
  Location = {l1}
  Condition = {1}
  Asset = {}
  MaxQuantity = 1
  MaxTime = 0
  Nothing = Nothing
SPECIFICATION Spec
INVARIANTS
  OpenScopesDisjoint
CHECK_DEADLOCK FALSE
