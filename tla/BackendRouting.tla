--------------------------- MODULE BackendRouting ---------------------------
(***************************************************************************)
(* From a document to cache traffic: load() accepts it or not, _lifespan   *)
(* makes a backend for each of its profiles, build_graphql_app gives every *)
(* covered query the backend of its rule and every mutation with an        *)
(* invalidates block one backend to clear, and requests use them.  All     *)
(* in_memory profiles share one MemoryBackend, all redis profiles one      *)
(* keyspace, so there are at most two stores.                              *)
(***************************************************************************)
EXTENDS DslLoader

CONSTANTS
  Deployments, \* the pairs of a document and a schema considered
  First        \* set of profile names -> its alphabetically first

ASSUME RoutingAssumption ==
  /\ \A d \in Deployments : IsDocument(d[1]) /\ IsSchema(d[2])
  /\ First \in [(SUBSET Profile) \ {{}} -> Profile]
  /\ \A names \in (SUBSET Profile) \ {{}} : First[names] \in names

Backend == {"redis", "in_memory"}

VARIABLES
  doc, sdl,
  phase,     \* what has become of the document
  ruleOf,    \* op_to_cache_ctx: query -> the rule whose context it got
  entries,   \* backend -> <<query, rule it is indexed under>>
  \* history, read by properties only
  returned   \* mutations that have returned, and since whose return no query
             \* they declare has stored an entry

vars == <<doc, sdl, phase, ruleOf, entries, returned>>

TypeOK ==
  /\ IsDocument(doc) /\ IsSchema(sdl)
  /\ phase \in {"read", "accepted", "rejected", "crashed", "backends", "serving"}
  /\ IsDict(ruleOf, Operation, Rule)
  /\ entries \in [Backend -> SUBSET (Operation \X Rule)]
  /\ returned \subseteq Operation

Init ==
  /\ \E d \in Deployments : doc = d[1] /\ sdl = d[2]
  /\ phase = "read"
  /\ ruleOf = <<>>
  /\ entries = [b \in Backend |-> {}]
  /\ returned = {}

-----------------------------------------------------------------------------
Load ==
  /\ phase = "read"
  /\ phase' = IF Accepted(doc, sdl) THEN "accepted" ELSE "rejected"
  /\ UNCHANGED <<doc, sdl, ruleOf, entries, returned>>

Profiles == DOMAIN doc.cacheProfiles

BackendOf(p) == doc.cacheProfiles[p].backend

(* MemoryBackend refuses a profile without max_entries. *)
Bounded == \A p \in Profiles : BackendOf(p) = "in_memory" => doc.cacheProfiles[p].max_entries # None

MakeBackends ==
  /\ phase = "accepted"
  /\ phase' = IF Bounded THEN "backends" ELSE "crashed"
  /\ UNCHANGED <<doc, sdl, ruleOf, entries, returned>>

(* backends_by_profile is None without profiles, and then nothing is       *)
(* cached or invalidated.                                                  *)
Caching == Profiles # {}

Wrapped(m) == Caching /\ doc.mutations[m].invalidates # None

(* registry.cache_profiles[rule.profile], registry.cache_rules[rules[0]]   *)
Lookups ==
  /\ Caching => \A r \in DOMAIN doc.cacheRules : doc.cacheRules[r].profile \in Profiles
  /\ \A m \in DOMAIN doc.mutations :
       LET spec == doc.mutations[m].invalidates IN
         (Wrapped(m) /\ spec.strategy = "operation" /\ Given(spec.rules)) =>
            Head(spec.rules) \in DOMAIN doc.cacheRules

(* ariadne binds Query and Mutation, and each of their resolvers. *)
Binds ==
  /\ sdl.query # None /\ DOMAIN doc.queries \subseteq sdl.query
  /\ sdl.mutation # None /\ DOMAIN doc.mutations \subseteq sdl.mutation

(* The loop over rules, in whatever order: the last rule that lists a      *)
(* query wins.                                                             *)
Contexts ==
  [{q \in Operation : \E r \in DOMAIN doc.cacheRules : Covers(doc.cacheRules[r], q)} ->
      DOMAIN doc.cacheRules]

BuildApp ==
  /\ phase = "backends"
  /\ phase' = IF Lookups /\ Binds THEN "serving" ELSE "crashed"
  /\ ruleOf' \in IF Caching
                 THEN {f \in Contexts : \A q \in DOMAIN f : Covers(doc.cacheRules[f[q]], q)}
                 ELSE {<<>>}
  /\ UNCHANGED <<doc, sdl, entries, returned>>

-----------------------------------------------------------------------------
Names(list) == IF list = None THEN {} ELSE ToSet(list)

Inv(m) == doc.mutations[m].invalidates

(* The queries a mutation declares, read off the document: those listed by *)
(* a rule it names, or by a rule with a tag it names.                      *)
Declared(m) ==
  {q \in Operation : \E r \in DOMAIN doc.cacheRules :
     /\ Covers(doc.cacheRules[r], q)
     /\ \/ r \in Names(Inv(m).rules)
        \/ doc.cacheRules[r].tags \cap Names(Inv(m).tags) # {}}

(* The interceptor of a covered query fills its rule's backend, with the   *)
(* indexes of its rule.                                                    *)
CacheQuery(q) ==
  /\ phase = "serving"
  /\ q \in DOMAIN doc.queries \cap DOMAIN ruleOf
  /\ entries' = [entries EXCEPT ![BackendOf(doc.cacheRules[ruleOf[q]].profile)] =
                   @ \cup {<<q, ruleOf[q]>>}]
  /\ returned' = {m \in returned : q \notin Declared(m)}
  /\ UNCHANGED <<doc, sdl, phase, ruleOf>>

(* _pick_invalidator_backend *)
Picked(inv) ==
  IF inv.strategy = "operation" /\ Given(inv.rules)
  THEN BackendOf(doc.cacheRules[Head(inv.rules)].profile)
  ELSE BackendOf(First[Profiles])

(* del_by_rule of the rules, or del_by_tag of the tags, that it names. *)
Reached(inv) ==
  {e \in Operation \X DOMAIN doc.cacheRules :
     \/ inv.strategy = "operation" /\ e[2] \in Names(inv.rules)
     \/ inv.strategy = "tag" /\ doc.cacheRules[e[2]].tags \cap Names(inv.tags) # {}}

(* Mutant: the ttl strategy flushes. *)
AfterMutationFlushing(m) ==
  /\ phase = "serving"
  /\ m \in DOMAIN doc.mutations /\ Wrapped(m)
  /\ entries' = [entries EXCEPT ![Picked(Inv(m))] = {}]
  /\ returned' = returned \cup {m}
  /\ UNCHANGED <<doc, sdl, phase, ruleOf>>

(* Mutant: the call of after_mutation is not awaited, and never runs. *)
AfterMutationNotAwaited(m) ==
  /\ phase = "serving"
  /\ m \in DOMAIN doc.mutations /\ Wrapped(m)
  /\ returned' = returned \cup {m}
  /\ UNCHANGED <<doc, sdl, phase, ruleOf, entries>>

AfterMutation(m) ==
  /\ phase = "serving"
  /\ m \in DOMAIN doc.mutations /\ Wrapped(m)
  /\ entries' = [entries EXCEPT ![Picked(Inv(m))] = @ \ Reached(Inv(m))]
  /\ returned' = returned \cup {m}
  /\ UNCHANGED <<doc, sdl, phase, ruleOf>>

Next ==
  \/ Load \/ MakeBackends \/ BuildApp
  \/ \E q \in Operation : CacheQuery(q)
  \/ \E m \in Operation : AfterMutation(m)

Spec == Init /\ [][Next]_vars

-----------------------------------------------------------------------------
Held(b) == {e[1] : e \in entries[b]}

(* A document that load() accepts never makes _lifespan raise, with one    *)
(* exception: load() does not compare the operations with the SDL, and     *)
(* ariadne does, also for a document without mutations when the SDL has no *)
(* type Mutation.  The lookups of _lifespan and build_graphql_app are      *)
(* unguarded and rest on the loader's checks.                              *)
AcceptedBoots == phase = "crashed" => ~ Binds

(* "operation: ... Removes all cache entries belonging to that rule": once  *)
(* a mutation has returned, no backend has an entry of a query it declares *)
(* until such a query stores one again, whichever backend was picked and   *)
(* under whichever rule the entry came to be indexed.  A mutation that     *)
(* found nothing to delete where it looked is no exception.                *)
DeclaredEntriesRemoved ==
  \A m \in returned : \A b \in Backend : Held(b) \cap Declared(m) = {}

(* A mutation takes out nothing it does not declare. *)
OthersKept ==
  [][\A m \in Operation : AfterMutation(m) =>
       \A b \in Backend : Held(b) \ Held(b)' \subseteq Declared(m)]_vars
=============================================================================
