-------------------------- MODULE MCRedisCacheAside --------------------------
(***************************************************************************)
(* getUser(id: 1), the same user asked for as getUser(id: "01"), which     *)
(* _coerce_args makes the same row but make_key and render_template give a *)
(* key and a tag of its own, and the list of team 2.                       *)
(***************************************************************************)
EXTENDS RedisCacheAside, TLC

CONSTANTS getUser1, getUser01, team2List, getUser, listUsersByTeam,
          userTag, user01Tag, team2Tag, user1, team2, moveUserToTeam, moveMistyped

MCKey == {getUser1, getUser01, team2List}
MCRuleOf == [k \in MCKey |-> IF k = team2List THEN listUsersByTeam ELSE getUser]
MCTagSeq == [k \in MCKey |-> CASE k = getUser1 -> <<userTag>>
                               [] k = getUser01 -> <<user01Tag>>
                               [] k = team2List -> <<team2Tag>>]
MCTagsOf == [k \in MCKey |-> {MCTagSeq[k][1]}]
MCReadsOf == [k \in MCKey |-> IF k = team2List THEN {team2} ELSE {user1}]
MCMutation == {moveUserToTeam, moveMistyped}
MCRows == [m \in MCMutation |-> {user1}]
MCWrites == [m \in MCMutation |-> {user1, team2}]

(* The second has a typing error in its second tag template. *)
MCTargets == [m \in MCMutation |->
  <<[by |-> "tag", of |-> userTag],
    IF m = moveUserToTeam THEN [by |-> "tag", of |-> team2Tag]
                          ELSE [by |-> "unrenderable", of |-> None]>>]
Symmetry == Permutations(Reader)
=============================================================================
