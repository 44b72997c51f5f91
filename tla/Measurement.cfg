SPECIFICATION Spec
CONSTANTS
  None = None
  Request = {q1, q2}
  Operation = {getUser, updateUserName}
  Cached = {getUser}
  Invalidating = {updateUserName}
  Redis = TRUE
  MaxLifespans = 3
SYMMETRY Symmetry
CHECK_DEADLOCK FALSE
INVARIANTS
  StatsOfServingApp
  NothingServedBetween
  OpenExplained
  DeltaExact
  ReportSound
