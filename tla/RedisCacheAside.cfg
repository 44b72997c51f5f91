SPECIFICATION RedisSpec
CONSTANTS
  None = None
  getUser1 = getUser1
  getUser01 = getUser01
  team2List = team2List
  getUser = getUser
  listUsersByTeam = listUsersByTeam
  userTag = userTag
  user01Tag = user01Tag
  team2Tag = team2Tag
  user1 = user1
  team2 = team2
  moveUserToTeam = moveUserToTeam
  moveMistyped = moveMistyped
  Reader = {r1, r2}
  Writer = {w1}
  Key <- MCKey
  Rule = {getUser, listUsersByTeam}
  Tag = {userTag, user01Tag, team2Tag}
  RuleOf <- MCRuleOf
  TagsOf <- MCTagsOf
  TagSeq <- MCTagSeq
  Datum = {user1, team2}
  ReadsOf <- MCReadsOf
  Mutation <- MCMutation
  Rows <- MCRows
  Writes <- MCWrites
  Targets <- MCTargets
  Expiring = {team2List}
  MayViolate = {}
  Unrenderable = {}
  PoolMax = 2
  BackendMayFail = TRUE
  DbMayFail = FALSE
  Persistent = TRUE
  MaxRestarts = 1
  MaxUnpack = 2
  MaxServerRestarts = 1
  MaxLosses = 1
SYMMETRY Symmetry
INVARIANTS
  RedisStaleExplained
  NothingHeldAcrossCacheCalls
  StatsTally
