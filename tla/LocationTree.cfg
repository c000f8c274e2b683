\* Two workers on two locations and one yet to be created.
CONSTANTS
  Worker = {w1, w2}
  Location = {1, 2, 3}
  Present = {1, 2}
  Root = Root
  Absent = Absent
SPECIFICATION FairSpec
INVARIANTS
  TreeStaysATree
  ScopeStandsStill
PROPERTIES
  EveryRequestEnds
CHECK_DEADLOCK FALSE
