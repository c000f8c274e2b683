\* Two users and one line.
CONSTANTS
  User = {u1, u2}
  Manager = {u2}
  Session = {s1}
  OperationId = {o1}
  Material = {1}
  Location = {l1}
  Condition = {1}
  Asset = {}
  MaxQuantity = 1
  MaxTime = 1
  Nothing = Nothing
SPECIFICATION Spec
PROPERTIES
  NoErasedCount
CHECK_DEADLOCK FALSE
