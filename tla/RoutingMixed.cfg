SPECIFICATION Spec
CONSTANTS
  None = None
  getUser = getUser
  getTeam = getTeam
  moveUserToTeam = moveUserToTeam
  User = User
  Team = Team
  users = users
  teams = teams
  hot = hot
  list = list
  teamTag = teamTag
  Operation <- MCOperation
  Type <- MCType
  Rule <- MCRule
  Profile <- MCProfile
  Tag <- MCTag
  First <- MCFirst
  Deployments <- TwoBackends
CHECK_DEADLOCK FALSE
INVARIANT
  DeclaredEntriesRemoved
