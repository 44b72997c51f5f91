--------------------------- MODULE MCRedisBackend ---------------------------
(***************************************************************************)
(* The keys of MCMemoryBackend on Redis: two getTeam keys and one          *)
(* listUsersByTeam key that shares its tag with the first of them.         *)
(***************************************************************************)
EXTENDS RedisBackend

CONSTANTS team1, team2, list1, getTeam, listUsersByTeam, teamTag1, allTeams

MCKey == {team1, team2, list1}
TwoKeys == {team1, list1}
MCRule == {getTeam, listUsersByTeam}
MCTag == {teamTag1, allTeams}
MCRuleOf == [k \in MCKey |-> IF k = list1 THEN listUsersByTeam ELSE getTeam]
MCTagSeq == [k \in MCKey |-> CASE k = team1 -> <<teamTag1, allTeams>>
                               [] k = team2 -> <<allTeams>>
                               [] k = list1 -> <<teamTag1>>]
TwoRuleOf == [k \in TwoKeys |-> MCRuleOf[k]]
TwoTagSeq == [k \in TwoKeys |-> MCTagSeq[k]]

(* team2 as an ad-hoc key of the plain set. *)
AdhocRuleOf == [MCRuleOf EXCEPT ![team2] = None]
AdhocTagSeq == [MCTagSeq EXCEPT ![team2] = <<>>]
=============================================================================
