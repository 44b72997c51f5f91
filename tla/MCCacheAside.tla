---------------------------- MODULE MCCacheAside ----------------------------
(***************************************************************************)
(* A cell of examples/: getUser(1), listUsersByTeam of the user's team,    *)
(* and the mutation updateUserName(1), which by the tag examples deletes   *)
(* the user and leaves the list, whose profile here has no TTL.  A team's  *)
(* list shows the names of its members: a datum of its own.                *)
(***************************************************************************)
EXTENDS CacheAside

CONSTANTS getUser1, team1List,               \* keys
          getUser, listUsersByTeam,          \* rules
          userTag, team1Tag,                 \* tags
          user1, team1,                      \* data
          updateUserName                     \* mutation

MCKey == {getUser1, team1List}
MCRuleOf == [k \in MCKey |-> IF k = getUser1 THEN getUser ELSE listUsersByTeam]
MCTagsOf == [k \in MCKey |-> IF k = getUser1 THEN {userTag} ELSE {team1Tag}]
MCReadsOf == [k \in MCKey |-> IF k = getUser1 THEN {user1} ELSE {team1}]

MCMutation == {updateUserName}
MCRows == [m \in MCMutation |-> {user1}]
MCWrites == [m \in MCMutation |-> {user1, team1}]
MCTargets == [m \in MCMutation |-> <<[by |-> "tag", of |-> userTag]>>]
=============================================================================
