-------------------------- MODULE MCBackendRouting --------------------------
(***************************************************************************)
(* Documents around examples/: getUser and getTeam, two rules, two         *)
(* profiles and moveUserToTeam, varied in the sections that refer to each  *)
(* other; and documents without a cache, varied in what the SDL decides.   *)
(***************************************************************************)
EXTENDS BackendRouting

CONSTANTS getUser, getTeam, moveUserToTeam, User, Team, users, teams, hot, list, teamTag

MCOperation == {getUser, getTeam, moveUserToTeam}
MCType == {User, Team}
MCRule == {users, teams}
MCProfile == {hot, list}
MCTag == {teamTag}
MCFirst == [names \in (SUBSET MCProfile) \ {{}} |-> IF hot \in names THEN hot ELSE list]

Named(S, f) == [x \in S |-> f]
Only(x, specs) == {Named({x}, f) : f \in specs} \cup {<<>>}

(* One more section to the ones a document has. *)
Both(fs, gs) == {[x \in DOMAIN f \cup DOMAIN g |-> IF x \in DOMAIN f THEN f[x] ELSE g[x]] :
                   f \in fs, g \in gs}

Fields == Named(MCType, {})
TheSchema == [objects |-> Fields, query |-> {getUser, getTeam}, mutation |-> {moveUserToTeam}]

Good(t) == [type |-> t, where |-> "good"]
Moves(inv) == [type |-> User, kind |-> "update", set |-> "good", where |-> "good", invalidates |-> inv]

Invalidations ==
  [strategy : {"ttl", "operation", "tag"},
   rules : {None, <<>>, <<users>>, <<users, teams>>},
   tags : {None, <<>>, <<teamTag>>}] \cup {None}

Rules ==
  LET Of(ops) == [operations : ops, profile : MCProfile, tags : {{}, {teamTag}}] IN
  Both(Only(users, Of({<<getUser>>, <<getUser, getTeam>>, <<getTeam, getTeam>>})),
       Only(teams, Of({<<getTeam>>, <<moveUserToTeam>>})))

OneKind(profiles) == \A p, q \in DOMAIN profiles : profiles[p].backend = profiles[q].backend

CacheDocuments(profiles) ==
  [tables : {MCType},
   queries : {(getUser :> Good(User)) @@ (getTeam :> Good(Team))},
   mutations : {moveUserToTeam :> Moves(inv) : inv \in Invalidations},
   cacheProfiles : profiles,
   cacheRules : Rules]

PlainDocuments ==
  [tables : SUBSET MCType,
   queries : Only(getUser, QuerySpec),
   mutations : Only(moveUserToTeam,
                 [type : MCType, kind : {"insert", "delete"}, set : Template \cup {None},
                  where : Template, invalidates : {None}]),
   cacheProfiles : {<<>>},
   cacheRules : {<<>>}]

Schemas ==
  [objects : {Fields, Named({User}, {}), (User :> {Team}) @@ (Team :> {})},
   query : {{getUser, getTeam}, {getTeam}, None},
   mutation : {{moveUserToTeam}, {}, None}]

OneBackend ==
  (CacheDocuments({p \in Both(Only(hot, CacheProfile), Only(list, CacheProfile)) : OneKind(p)}) \X {TheSchema})
     \cup (PlainDocuments \X Schemas)

TwoBackends ==
  CacheDocuments({p \in [MCProfile -> CacheProfile] : ~ OneKind(p)}) \X {TheSchema}
=============================================================================
