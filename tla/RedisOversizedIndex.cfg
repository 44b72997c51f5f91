SPECIFICATION Spec
CONSTANTS
  None = None
  team1 = team1
  team2 = team2
  list1 = list1
  getTeam = getTeam
  listUsersByTeam = listUsersByTeam
  teamTag1 = teamTag1
  allTeams = allTeams
  Rule <- MCRule
  Tag <- MCTag
  Caller = {c1}
  Key <- MCKey
  RuleOf <- MCRuleOf
  TagSeq <- MCTagSeq
  Value = {v1}
  Expiring = {}
  MaxUnpack = 1
  MaxCalls = 4
  MaxLosses = 0
  MaxRestarts = 0
CHECK_DEADLOCK FALSE
PROPERTY
  DeletionClearsIndex
