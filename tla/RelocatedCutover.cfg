\* One count, one baseline and two locations that move meanwhile.
CONSTANTS
  User = {u1, u2}
  Manager = {}
  Establisher = {u1, u2}
  Session = {s1}
  Baseline = {b1}
  OperationId = {o1}
  Material = {1}
  Location = {l1, l2}
  Condition = {1}
  Asset = {}
  MaxQuantity = 1
  MaxTime = 0
  Nothing = Nothing
SPECIFICATION CutoverSpec
SYMMETRY Symmetry
PROPERTIES
  EstablishedIsCounted
  OpeningsComeFirst
CHECK_DEADLOCK FALSE
