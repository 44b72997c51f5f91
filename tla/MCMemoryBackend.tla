-------------------------- MODULE MCMemoryBackend --------------------------
(***************************************************************************)
(* A small MemoryBackend in the shape of graphql-api-tag-memory.yaml: two  *)
(* getTeam keys and one listUsersByTeam key that shares a tag with one of  *)
(* them, in two profiles, next to a key only the plain set writes.  The    *)
(* team profile holds a single entry, so its keys evict each other.        *)
(***************************************************************************)
EXTENDS MemoryBackend

CONSTANTS team1, team2, list1, adhoc,      \* keys
          getTeam, listUsersByTeam,        \* rules
          teamTag1, teamTag2, allTeams,    \* tags
          team, list                       \* profiles

MCKey == {team1, team2, list1, adhoc}
MCRule == {getTeam, listUsersByTeam}
MCTag == {teamTag1, teamTag2, allTeams}
MCProfile == {team, list}

MCRuleOf == [k \in MCKey |-> CASE k \in {team1, team2} -> getTeam
                               [] k = list1 -> listUsersByTeam
                               [] k = adhoc -> None]
MCTagsOf == [k \in MCKey |-> CASE k = team1 -> {teamTag1, allTeams}
                               [] k = team2 -> {teamTag2, allTeams}
                               [] k = list1 -> {teamTag1}
                               [] k = adhoc -> {}]
MCProfileOf == [k \in MCKey |-> IF k \in {team1, team2} THEN team ELSE list]
MCMaxEntries == [p \in MCProfile |-> IF p = team THEN 1 ELSE 2]
MCTtlSeconds == [p \in MCProfile |-> IF p = team THEN 0 ELSE 30]
=============================================================================
