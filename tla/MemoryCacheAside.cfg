SPECIFICATION PathSpec
CONSTANTS
  None = None
  list1 = list1
  list2 = list2
  team1 = team1
  user1 = user1
  users = users
  getTeam = getTeam
  listUsersByTeam = listUsersByTeam
  getUser = getUser
  teamTag1 = teamTag1
  teamTag2 = teamTag2
  team = team
  list = list
  members1 = members1
  members2 = members2
  name1 = name1
  moveUserToTeam = moveUserToTeam
  moveMistyped = moveMistyped
  renameTeam = renameTeam
  Key <- MCKey
  Value <- MCValue
  Rule = {getTeam, listUsersByTeam, getUser}
  Tag = {teamTag1, teamTag2}
  RuleOf <- MCRuleOf
  TagsOf <- MCTagsOf
  MaxCalls = 20
  Profile = {team, list}
  ProfileOf <- MCProfileOf
  FirstProfile = list
  MaxEntries <- MCMaxEntries
  TtlSeconds <- MCTtlSeconds
  Reader = {r1, r2, r3}
  Writer = {w1}
  Datum = {members1, members2, name1}
  ReadsOf <- MCReadsOf
  Mutation <- MCMutation
  Rows <- MCRows
  Writes <- MCWrites
  Targets <- MCTargets
  MayViolate = {user1}
  Unrenderable = {user1}
  PoolMax = 1
  DbMayFail = TRUE
  MaxRestarts = 1
SYMMETRY Symmetry
INVARIANT
  MemoryStaleExplained
PROPERTY
  ImplementsPath
