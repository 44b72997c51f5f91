SPECIFICATION Spec
CONSTANTS
  None = None
  team1 = team1
  team2 = team2
  list1 = list1
  getTeam = getTeam
  listUsersByTeam = listUsersByTeam
  teamTag1 = teamTag1
  allTeams = allTeams
  Rule <- MCRule
  Tag <- MCTag
  Caller = {c1, c2}
  Key <- MCKey
  RuleOf <- AdhocRuleOf
  TagSeq <- AdhocTagSeq
  Value = {v1}
  Expiring = {list1}
  MaxUnpack = 1
  MaxCalls = 4
  MaxLosses = 1
  MaxRestarts = 1
CHECK_DEADLOCK FALSE
INVARIANTS
  TypeOK
  IndexedUnlessTorn
  DigestGoodUntilRestart
PROPERTY
  StepsAsPromised
