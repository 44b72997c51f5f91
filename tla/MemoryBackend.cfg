SPECIFICATION Spec
CONSTANTS
  None = None
  team1 = team1
  team2 = team2
  list1 = list1
  adhoc = adhoc
  getTeam = getTeam
  listUsersByTeam = listUsersByTeam
  teamTag1 = teamTag1
  teamTag2 = teamTag2
  allTeams = allTeams
  team = team
  list = list
  Key <- MCKey
  Value = {v1, v2}
  Rule <- MCRule
  Tag <- MCTag
  RuleOf <- MCRuleOf
  TagsOf <- MCTagsOf
  MaxCalls = 6
  Profile <- MCProfile
  ProfileOf <- MCProfileOf
  FirstProfile = list
  MaxEntries <- MCMaxEntries
  TtlSeconds <- MCTtlSeconds
INVARIANTS
  TypeOK
  Placed
  Indexed
  WithinCapacity
PROPERTY
  ImplementsProtocol
