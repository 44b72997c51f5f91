-------------------------- MODULE MCMemoryCacheAside --------------------------
(***************************************************************************)
(* graphql-api-tag-memory.yaml: the list of each of two teams, and one of  *)
(* the teams, which shares the tag of its list.  The list profile holds    *)
(* one entry, so that the lists evict each other; the team profile has no  *)
(* TTL.  getUser has a typing error in its tag template, and no rule       *)
(* covers the count of users.  A mutation moves a user between the teams   *)
(* and deletes by the tag of each, the second mistyped in moveMistyped, or *)
(* renames the team and deletes by rule.                                   *)
(***************************************************************************)
EXTENDS MemoryCacheAside, TLC

CONSTANTS list1, list2, team1, user1, users, \* keys
          getTeam, listUsersByTeam, getUser, \* rules
          teamTag1, teamTag2,            \* tags
          team, list,                    \* profiles
          members1, members2, name1,     \* data
          moveUserToTeam, moveMistyped, renameTeam \* mutations

MCKey == {list1, list2, team1, user1, users}
MCMutation == {moveUserToTeam, moveMistyped, renameTeam}
MCRuleOf == [k \in MCKey |-> CASE k \in {list1, list2} -> listUsersByTeam
                               [] k = team1 -> getTeam
                               [] k = user1 -> getUser
                               [] k = users -> None]
MCTagsOf == [k \in MCKey |-> CASE k \in {list1, team1} -> {teamTag1}
                               [] k = list2 -> {teamTag2}
                               [] k \in {user1, users} -> {}]
MCProfileOf == [k \in MCKey |-> IF k = team1 THEN team ELSE list]
MCMaxEntries == [p \in {team, list} |-> 1]
MCTtlSeconds == [p \in {team, list} |-> IF p = team THEN 0 ELSE 30]
MCReadsOf == [k \in MCKey |-> CASE k = list1 -> {members1}
                                [] k = list2 -> {members2}
                                [] k = team1 -> {name1}
                                [] k = user1 -> {members1}
                                [] k = users -> {}]
MCWrites == [m \in MCMutation |->
               IF m = renameTeam THEN {name1} ELSE {members1, members2}]
MCRows == [m \in MCMutation |-> IF m = renameTeam THEN {name1} ELSE {members1}]

ByTag(t) == [by |-> "tag", of |-> t]
MCTargets == [m \in MCMutation |->
  CASE m = renameTeam -> <<[by |-> "rule", of |-> getTeam]>>
    [] m = moveUserToTeam -> <<ByTag(teamTag1), ByTag(teamTag2)>>
    [] m = moveMistyped -> <<ByTag(teamTag1), [by |-> "unrenderable", of |-> None]>>]
MCValue == [{members1, members2, name1} -> Nat]

(* Invocations of queries are interchangeable. *)
Symmetry == Permutations(Reader)
=============================================================================
