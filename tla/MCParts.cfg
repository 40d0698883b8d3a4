CONSTANTS
  State = {s1, s2, s3, s4}
  StackSize = 3
  NoRequest = NoRequest
  MaxLog = 2
  Patience = 1
  MaxErrors = 3
  MaxInputs = 1
  HistoryId = {h1}
  Branch = {b1}
  NoBranch = NoBranch
  PageSize = {10, 20}
  Page = {0, 1}
  MaxCalls = 2
  MaxVersion = 2
  MaxFailures = 2
  ComponentName = {n1, n2, n3}
  NoComponent = NoComponent
  MaxComponents = 3
  Cluster = {c1, c2}
  Asker = {a1, a2}
SPECIFICATION Spec
INVARIANTS
  LogInOrder
  ListAnswersQuery
  DeletedIsGone
  DetailIsFinal
  NamesDistinct
PROPERTIES
  CancelBringsBack
  HistorySpec
  LogFollowsRun
  RunIsListed
  DetailShowsEnd
  ExpiredIsEvicted
  UpdateKeepsTriggers
  EnabledIsStored
  UpdateKeepsSource
  BranchGiven
CHECK_DEADLOCK FALSE
