\* Five components, each on an instance of its own.
CONSTANTS
  \* purchase requests: two workers on two lines
  OperationId = {1, 2, 3}
  NoOperation = NoOperation
  NoBucket = NoBucket
  Material = {1, 2}
  Location = {1}
  Condition = {1}
  Quantity = {1, 2}
  Workload <- Others
  Worker = {a1, a2}
  Idle = Idle
  Line = {1, 2}
  Unit = {"kg", "m"}
  NoMaterial = NoMaterial
  NoOrder = NoOrder
  Draft <- Drafts
  Errand <- Errands
  \* catalog: two editors, three materials, numbers up to the third
  Editor = {a1, a2}
  CategoryRow = {1, 2}
  UnitRow = {1}
  MaterialRow = {m1, m2, m3}
  MaterialForm <- Cards
  MaxNumber = 3
  MaxAttempts = 2
  Nil = Nil
  \* access: a superuser, a delegate and a worker
  User = {"root", "delegate", "worker"}
  Superuser = {"root"}
  Staff = {"delegate"}
  Direct <- NothingDirect
  Role = {"managers", "clerks"}
  Safe = {"view", "change"}
  Manage = "manage"
  Unsupported = {"decide"}
  WriteView <- ViewsOfWrites
  Reserved = {"managers"}
  Template <- ManagersTemplate
  Joined <- DelegatesJoined
  Selection <- Selections
  MaxCalls = 2
  Nobody = Nobody
  \* pages
  Page = {p1, p2}
  Content = {c1, c2}
  PageUnit = {"kg", "m"}
  Client = {a1, a2}
  Together <- OnePageOrTwo
  Nothing = Nothing
  \* employees: two of them, one login, one issue
  EmployeeRow = {e1, e2}
  PersonNumber = {1, 2}
  Login = {"ayse"}
  Handover = {1}
  Clerk = {a1, a2}
  MaxEvents = 3
  NoRow = NoRow
SPECIFICATION OfficeSpec
SYMMETRY OfficeSymmetry
INVARIANTS
  OfficeTypeOK
  LinksMatchLedger
  DeliveriesCounted
  NoMutualParents
  RefusedOnlyIfGiven
  AcknowledgedAsSent
  TrailReplays
PROPERTIES
  SuperusersMakeManagers
  DelegatesGiveWhatTheyHold
  RetriesAreAcknowledged
  ReceiversAreTrue
CHECK_DEADLOCK FALSE
