------------------------------ MODULE Lifespan ------------------------------
(***************************************************************************)
(* framework/cli.py: what a process opens and publishes when the           *)
(* application starts and takes away when it stops, with the two routes    *)
(* that read _state and the counters of framework/stats.py behind them.    *)
(* Lifespans follow each other in one process (the tests enter one per     *)
(* document), or a process ends and the next one begins with nothing.      *)
(* Everything between two awaits is one step.                              *)
(***************************************************************************)
EXTENDS Integers, FiniteSets

CONSTANTS
  Request,      \* invocations of a resolver
  Operation,
  Cached,       \* queries covered by a rule
  Invalidating, \* mutations with an invalidates block
  Redis,        \* the document has a redis profile
  MaxLifespans  \* bound on lifespans

ASSUME LifespanAssumption ==
  /\ IsFiniteSet(Request)
  /\ Cached \subseteq Operation /\ Invalidating \subseteq Operation \ Cached
  /\ Redis \in BOOLEAN
  /\ MaxLifespans \in Nat

VARIABLES
  phase,
  current,        \* number of the last lifespan entered
  state,          \* _state: entry -> the lifespan that made it, or Absent
  pools, clients, \* lifespans whose pool, whose Redis client is open
  counts,         \* lifespan -> its CacheCounters and RequestCounters
  pc, app, op,    \* invocations: place, lifespan of the app, operation
  \* history, read by properties only
  log,            \* <<invocation, dict, entry>>: what it has counted
  raised, cut     \* lifespans whose boot, whose teardown raised half way

objects == <<pools, clients, raised, cut>>
work == <<counts, pc, app, op, log>>
lifeVars == <<phase, current, state, objects, work>>

Absent == 0
Lifespans == 1 .. MaxLifespans

Published == {"graphql_app", "counters", "request_counters", "registry", "backends_by_profile"}
Entry == Published \cup {"pool", "redis_client"}

Code == {"multiplicity.violation", "framework.internal_error"}

(* CacheCounters, and the two dicts of RequestCounters. *)
NoCounts == [cache |-> [hits |-> 0, misses |-> 0, invalidations |-> 0],
             errors |-> <<>>, ops |-> <<>>]

Init ==
  /\ phase = "down" /\ current = 0
  /\ state = [e \in Entry |-> Absent]
  /\ pools = {} /\ clients = {}
  /\ counts = [l \in Lifespans |-> NoCounts]
  /\ pc = [t \in Request |-> "idle"]
  /\ app = [t \in Request |-> Absent]
  /\ op \in [Request -> Operation]
  /\ log = {} /\ raised = {} /\ cut = {}

-----------------------------------------------------------------------------
(* _lifespan.                                                              *)

Leave == phase' = "down"
Pop(entries) == state' = [e \in Entry |-> IF e \in entries THEN Absent ELSE state[e]]

(* load() and the environment, before anything is open. *)
Enter ==
  /\ phase = "down" /\ current < MaxLifespans
  /\ current' = current + 1
  /\ phase' \in {"connecting", "down"}
  /\ UNCHANGED <<state, objects, work>>

(* create_pool returns, and there is no await until the yield. *)
Boot ==
  /\ phase = "connecting"
  /\ phase' = "up"
  /\ state' = [e \in Entry |-> IF e = "redis_client" /\ ~ Redis THEN Absent ELSE current]
  /\ pools' = pools \cup {current}
  /\ clients' = IF Redis THEN clients \cup {current} ELSE clients
  /\ UNCHANGED <<current, raised, cut, work>>

(* create_pool raises; or it returns, and what follows it raises: a Redis  *)
(* client has not connected by then.                                       *)
BootRaises ==
  /\ phase = "connecting"
  /\ Leave
  /\ \/ UNCHANGED <<pools, raised>>
     \/ pools' = pools \cup {current} /\ raised' = raised \cup {current}
  /\ UNCHANGED <<current, state, clients, cut, work>>

Shutdown ==
  /\ phase = "up"
  /\ phase' = "closing pool"
  /\ Pop({"pool"})
  /\ UNCHANGED <<current, objects, work>>

(* Mutant: what needs no await is popped first. *)
PoolClosedPoppingEarly ==
  /\ phase = "closing pool"
  /\ pools' = pools \ {current}
  /\ phase' = IF Redis THEN "closing redis" ELSE "down"
  /\ Pop({"redis_client", "graphql_app"} \cup IF Redis THEN {} ELSE Published)
  /\ UNCHANGED <<current, clients, raised, cut, work>>

(* Mutant: only the pool is closed. *)
PoolClosedOnly ==
  /\ phase = "closing pool"
  /\ pools' = pools \ {current}
  /\ Leave
  /\ Pop(Published \cup {"redis_client"})
  /\ UNCHANGED <<current, clients, raised, cut, work>>

PoolClosed ==
  /\ phase = "closing pool"
  /\ pools' = pools \ {current}
  /\ phase' = IF Redis THEN "closing redis" ELSE "down"
  /\ Pop({"redis_client"} \cup IF Redis THEN {} ELSE Published)
  /\ UNCHANGED <<current, clients, raised, cut, work>>

(* Mutant: the app stays published. *)
RedisClosedKeepingApp ==
  /\ phase = "closing redis"
  /\ clients' = clients \ {current}
  /\ Leave
  /\ Pop(Published \ {"graphql_app"})
  /\ UNCHANGED <<current, pools, raised, cut, work>>

RedisClosed ==
  /\ phase = "closing redis"
  /\ clients' = clients \ {current}
  /\ Leave
  /\ Pop(Published)
  /\ UNCHANGED <<current, pools, raised, cut, work>>

(* close() or aclose() raises out of the finally block.  asyncpg has       *)
(* dropped the connections by then; the rest of the block never runs.      *)
CloseRaises ==
  /\ phase \in {"closing pool", "closing redis"}
  /\ pools' = pools \ {current}
  /\ cut' = cut \cup {current}
  /\ Leave
  /\ UNCHANGED <<current, state, clients, raised, work>>

(* The process ends, in order or not. *)
InFlight == {t \in Request : pc[t] \in {"lookup", "resolve", "invalidate"}}

ProcessEnds ==
  /\ Leave
  /\ Pop(Entry)
  /\ pools' = {} /\ clients' = {} /\ raised' = {} /\ cut' = {}
  /\ pc' = [t \in Request |-> IF t \in InFlight THEN "lost" ELSE pc[t]]
  /\ UNCHANGED <<current, counts, app, op, log>>

-----------------------------------------------------------------------------
(* The route /graphql, and what an invocation counts on its way.           *)

ValueOf(dict, k) == IF k \in DOMAIN dict THEN dict[k] ELSE 0
Bump(dict, k) == [x \in DOMAIN dict \cup {k} |-> ValueOf(dict, x) + (IF x = k THEN 1 ELSE 0)]

Goto(t, place) == pc' = [pc EXCEPT ![t] = place]

(* One more in the counters of lifespan l. *)
Count(t, l, dict, k) ==
  /\ counts' = [counts EXCEPT ![l][dict] = Bump(@, k)]
  /\ log' = log \cup {<<t, dict, k>>}

(* 503 without an app. *)
Refuse(t) ==
  /\ pc[t] = "idle" /\ state["graphql_app"] = Absent
  /\ Goto(t, "refused")
  /\ UNCHANGED <<phase, current, state, objects, counts, app, op, log>>

(* Mutant: mutation resolvers are not wrapped with the counters. *)
DispatchQueriesOnly(t) ==
  LET l == state["graphql_app"] IN
  /\ pc[t] = "idle" /\ l # Absent
  /\ Goto(t, IF op[t] \in Cached THEN "lookup" ELSE "resolve")
  /\ app' = [app EXCEPT ![t] = l]
  /\ IF op[t] \in Invalidating
     THEN UNCHANGED <<counts, log>>
     ELSE Count(t, l, "ops", op[t])
  /\ UNCHANGED <<phase, current, state, objects, op>>

Dispatch(t) ==
  LET l == state["graphql_app"] IN
  /\ pc[t] = "idle" /\ l # Absent
  /\ Goto(t, IF op[t] \in Cached THEN "lookup" ELSE "resolve")
  /\ app' = [app EXCEPT ![t] = l]
  /\ Count(t, l, "ops", op[t])
  /\ UNCHANGED <<phase, current, state, objects, op>>

Hit(t) ==
  /\ pc[t] = "lookup"
  /\ Goto(t, "done")
  /\ Count(t, app[t], "cache", "hits")
  /\ UNCHANGED <<phase, current, state, objects, app, op>>

Miss(t) ==
  /\ pc[t] = "lookup"
  /\ Goto(t, "resolve")
  /\ Count(t, app[t], "cache", "misses")
  /\ UNCHANGED <<phase, current, state, objects, app, op>>

(* SELECT and store, or the transaction. *)
Resolve(t) ==
  /\ pc[t] = "resolve"
  /\ Goto(t, IF op[t] \in Invalidating THEN "invalidate" ELSE "done")
  /\ UNCHANGED <<phase, current, state, objects, counts, app, op, log>>

(* after_mutation, for a block of one rule or tag. *)
Invalidate(t) ==
  /\ pc[t] = "invalidate"
  /\ Goto(t, "done")
  /\ Count(t, app[t], "cache", "invalidations")
  /\ UNCHANGED <<phase, current, state, objects, app, op>>

(* Two rows of a multiplicity-one query, or anything else. *)
Raise(t, code) ==
  /\ t \in InFlight
  /\ code = "multiplicity.violation" => pc[t] = "resolve" /\ op[t] \notin Invalidating
  /\ Goto(t, "done")
  /\ Count(t, app[t], "errors", code)
  /\ UNCHANGED <<phase, current, state, objects, app, op>>

Handle(t) ==
  \/ Refuse(t) \/ Dispatch(t) \/ Hit(t) \/ Miss(t) \/ Resolve(t) \/ Invalidate(t)
  \/ \E code \in Code : Raise(t, code)

(* The route /stats: zeros when one of its three entries is absent. *)
Payload ==
  IF Absent \in {state["counters"], state["request_counters"], state["registry"]}
  THEN NoCounts
  ELSE [cache |-> counts[state["counters"]].cache,
        errors |-> counts[state["request_counters"]].errors,
        ops |-> counts[state["request_counters"]].ops]

LifeNext ==
  \/ Enter \/ Boot \/ BootRaises
  \/ Shutdown \/ PoolClosed \/ RedisClosed \/ CloseRaises
  \/ ProcessEnds
  \/ \E t \in Request : Handle(t)

-----------------------------------------------------------------------------
(* /stats shows the counters of the app that /graphql runs, and the        *)
(* registry it was built from, also while a teardown waits and after one   *)
(* that raised.                                                            *)
StatsOfServingApp == \A e \in Published : state[e] = state["graphql_app"]

(* "clears _state": between lifespans /graphql refuses and /stats shows    *)
(* zeros, unless closing the pool or the Redis client raised, which leaves *)
(* the app of the lifespan before in place over a closed pool; and a boot  *)
(* that succeeds replaces all of it.                                       *)
NothingServedBetween ==
  LET l == state["graphql_app"] IN
  /\ phase \in {"down", "connecting"} => l = Absent \/ l \in cut
  /\ phase = "up" => l = current /\ current \in pools

(* A pool or a client still open when its lifespan is over was left by one *)
(* of two exceptions: a boot that raised after create_pool, which no       *)
(* finally covers yet, or a teardown that raised before aclose returned.   *)
OpenExplained ==
  /\ \A l \in pools : l \in raised \/ (l = current /\ phase \in {"up", "closing pool"})
  /\ \A l \in clients : l \in cut \/ (l = current /\ phase \notin {"down", "connecting"})
=============================================================================
