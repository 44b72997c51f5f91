SPECIFICATION FairSpec
CONSTANTS
  None = None
  getUser1 = getUser1
  team1List = team1List
  getUser = getUser
  listUsersByTeam = listUsersByTeam
  userTag = userTag
  team1Tag = team1Tag
  user1 = user1
  team1 = team1
  updateUserName = updateUserName
  Key <- MCKey
  Rule = {getUser, listUsersByTeam}
  Tag = {userTag, team1Tag}
  Datum = {user1, team1}
  RuleOf <- MCRuleOf
  TagsOf <- MCTagsOf
  ReadsOf <- MCReadsOf
  Mutation <- MCMutation
  Rows <- MCRows
  Writes <- MCWrites
  Reader = {r1, r2}
  Writer = {w1, w2}
  Targets <- MCTargets
  Expiring = {getUser1}
  MayViolate = {getUser1}
  Unrenderable = {}
  PoolMax = 2
  BackendMayFail = TRUE
  DbMayFail = TRUE
  Persistent = TRUE
  MaxRestarts = 1
INVARIANTS
  TypeOK
  StaleExplained
  InFlightExplained
  NothingHeldAcrossCacheCalls
  StatsTally
PROPERTIES
  EveryCallReturns
  StalenessPasses
