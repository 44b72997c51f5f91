----------------------------- MODULE CacheAside -----------------------------
(***************************************************************************)
(* The request path of the framework: resolver invocations running as      *)
(* asyncio tasks over one cache backend, one asyncpg pool and Postgres.    *)
(*                                                                         *)
(*   query     count, get; on a miss acquire, SELECT, release, store       *)
(*   mutation  count, acquire, UPDATE, COMMIT, release, then one deletion  *)
(*             per declared rule or rendered tag, in order                 *)
(*                                                                         *)
(* Every await is a place where other tasks run.  The backend is the one   *)
(* CacheBackend describes.  SQL data are versions: a commit gives each     *)
(* datum it changes the next version, a payload is the versions its SELECT *)
(* saw.  A datum is a row, or a fact about several rows such as the        *)
(* membership of a team; UPDATE locks the rows only.                       *)
(***************************************************************************)
EXTENDS Integers, FiniteSets, Sequences

CONSTANTS
  Reader, Writer,   \* invocations of query and of mutation resolvers
  Key,              \* a query with its arguments
  Rule, Tag, RuleOf, TagsOf, \* as in CacheBackend; RuleOf = None: not cached
  Datum,
  ReadsOf,          \* key -> the data its SELECT depends on
  Mutation,         \* a mutation with its arguments
  Rows,             \* mutation -> the rows its UPDATE matches and locks
  Writes,           \* mutation -> the data it changes, its rows included
  Targets,          \* mutation -> what after_mutation deletes, in order
  Expiring,         \* keys of a profile with ttl_seconds > 0
  MayViolate,       \* multiplicity-one keys whose SELECT can match two rows
  Unrenderable,     \* keys with a tag template naming an unknown argument
  PoolMax,          \* POSTGRES_POOL_MAX
  BackendMayFail,   \* a call to the backend may raise (Redis)
  DbMayFail,        \* Postgres may raise, or lose the answer to a COMMIT
  Persistent,       \* the backend outlives the process (Redis)
  MaxRestarts,      \* bound on process restarts
  None

(* What one call of after_mutation deletes: the keys of a rule, the keys   *)
(* with a tag, or nothing at all because its template cannot be rendered.  *)
Target == [by : {"rule"}, of : Rule] \cup [by : {"tag"}, of : Tag]
            \cup [by : {"unrenderable"}, of : {None}]

ASSUME CacheAsideAssumption ==
  /\ IsFiniteSet(Reader) /\ IsFiniteSet(Writer) /\ Reader \cap Writer = {}
  /\ None \notin Key \cup Rule \cup Writer \cup Mutation
  /\ None \notin [Datum -> Nat]
  /\ RuleOf \in [Key -> Rule \cup {None}]
  /\ TagsOf \in [Key -> SUBSET Tag]
  /\ ReadsOf \in [Key -> SUBSET Datum]
  /\ Rows \in [Mutation -> SUBSET Datum]
  /\ Writes \in [Mutation -> SUBSET Datum]
  /\ Targets \in [Mutation -> Seq(Target)]
  /\ Expiring \subseteq Key /\ MayViolate \subseteq Key
  /\ Unrenderable \subseteq Key
  /\ PoolMax \in Nat \ {0}
  /\ BackendMayFail \in BOOLEAN /\ DbMayFail \in BOOLEAN
  /\ Persistent \in BOOLEAN
  /\ MaxRestarts \in Nat

VARIABLES
  live, counters, ret,  \* the backend
  db,         \* datum -> committed version
  lock,       \* row -> the writer whose open transaction has updated it
  conns,      \* tasks holding a connection of the pool
  pc, key, got, mut, pos, \* tasks: place, key, payload, mutation, next target
  requests, errors,     \* RequestCounters
  restarts,
  \* history, read by properties only
  committed,  \* writers whose transaction took effect
  outrun,     \* readers holding a superseded payload that a deletion of
              \* their key did not reach
  tainted     \* keys whose entry such a reader stored

backend == <<live, counters, ret>>
postgres == <<db, lock, committed>>
tasks == <<key, got, mut, pos>>
stats == <<requests, errors>>
history == <<outrun, tainted>>
vars == <<backend, postgres, conns, pc, tasks, stats, restarts, history>>

Task == Reader \cup Writer
Payload == [Datum -> Nat]

Backend == INSTANCE CacheBackend WITH Value <- Payload

NoErrors == [violation |-> 0, internal |-> 0]

(* "indexing" is a place of RedisCacheAside's only. *)
Places == {"idle", "get", "hit", "acquire", "select", "fill", "indexing", "update",
           "commit", "invalidate", "done", "unanswered", "failed", "lost"}

(* "unanswered" is a failure of the cache lookup itself; "lost" is a task  *)
(* of a process that is gone, whose counts are gone too.                   *)
Over == {"hit", "done", "unanswered", "failed", "lost"}

TypeOK ==
  /\ Backend!TypeOK
  /\ db \in [Datum -> Nat]
  /\ lock \in [Datum -> Writer \cup {None}]
  /\ conns \subseteq Task
  /\ pc \in [Task -> Places]
  /\ key \in [Reader -> Key \cup {None}]
  /\ got \in [Reader -> Payload \cup {None}]
  /\ mut \in [Writer -> Mutation \cup {None}]
  /\ pos \in [Writer -> Nat \ {0}]
  /\ requests \in Nat
  /\ errors \in [violation : Nat, internal : Nat]
  /\ restarts \in 0 .. MaxRestarts
  /\ committed \subseteq Writer
  /\ outrun \subseteq Reader
  /\ tainted \subseteq Key

Init ==
  /\ Backend!Init
  /\ db = [d \in Datum |-> 0]
  /\ lock = [d \in Datum |-> None]
  /\ conns = {}
  /\ pc = [t \in Task |-> "idle"]
  /\ key = [r \in Reader |-> None]
  /\ got = [r \in Reader |-> None]
  /\ mut = [w \in Writer |-> None]
  /\ pos = [w \in Writer |-> 1]
  /\ requests = 0
  /\ errors = NoErrors
  /\ restarts = 0
  /\ committed = {} /\ outrun = {} /\ tainted = {}

-----------------------------------------------------------------------------
Cached(k) == RuleOf[k] # None

Covered(target) ==
  CASE target.by = "rule" -> {k \in Key : RuleOf[k] = target.of}
    [] target.by = "tag" -> {k \in Key : target.of \in TagsOf[k]}
    [] OTHER -> {}

Goto(t, place) == pc' = [pc EXCEPT ![t] = place]

(* _wrap_with_counters, entry: the count precedes the call. *)
Count == requests' = requests + 1

(* Mutant: the error is filed under what failed, not under its code. *)
RaiseMisfiled(t, code, place) ==
  /\ Goto(t, place)
  /\ errors' = [c \in DOMAIN errors \cup {place} |->
                  IF c = place THEN 1 ELSE errors[c]]

(* _wrap_with_counters, exit by exception. *)
Raise(t, code, place) ==
  /\ Goto(t, place)
  /\ errors' = [errors EXCEPT ![code] = @ + 1]

(* async with pool.acquire() *)
Acquire(t) ==
  /\ pc[t] = "acquire"
  /\ Cardinality(conns) < PoolMax
  /\ conns' = conns \cup {t}
  /\ Goto(t, IF t \in Reader THEN "select" ELSE "update")
  /\ UNCHANGED <<backend, postgres, tasks, stats, restarts, history>>

Release(t) == conns' = conns \ {t}

(* The pool cannot connect, or _coerce_args rejects an argument before.    *)
AcquireFails(t) ==
  /\ DbMayFail
  /\ pc[t] = "acquire"
  /\ Raise(t, "internal", "failed")
  /\ UNCHANGED <<backend, postgres, conns, tasks, requests, restarts, history>>

-----------------------------------------------------------------------------
(* Queries: CacheInterceptor.wrap_query around _make_query_resolver.       *)

BeginQuery(r, k) ==
  /\ pc[r] = "idle"
  /\ Goto(r, IF Cached(k) THEN "get" ELSE "acquire")
  /\ key' = [key EXCEPT ![r] = k]
  /\ Count
  /\ UNCHANGED <<backend, postgres, conns, got, mut, pos, errors, restarts, history>>

Lookup(r) ==
  /\ pc[r] = "get"
  /\ Backend!Get(key[r])
  /\ Goto(r, IF live[key[r]] = None THEN "acquire" ELSE "hit")
  /\ UNCHANGED <<postgres, conns, tasks, stats, restarts, history>>

LookupFails(r) ==
  /\ BackendMayFail
  /\ pc[r] = "get"
  /\ Raise(r, "internal", "unanswered")
  /\ UNCHANGED <<backend, postgres, conns, tasks, requests, restarts, history>>

(* The SELECT sees one snapshot of the committed data. *)
Snapshot(k) == [d \in Datum |-> IF d \in ReadsOf[k] THEN db[d] ELSE 0]

Select(r) ==
  /\ pc[r] = "select"
  /\ got' = [got EXCEPT ![r] = IF Cached(key[r]) THEN Snapshot(key[r]) ELSE None]
  /\ Release(r)
  /\ Goto(r, IF Cached(key[r]) THEN "fill" ELSE "done")
  /\ UNCHANGED <<backend, postgres, key, mut, pos, stats, restarts, history>>

SelectFails(r) ==
  /\ pc[r] = "select"
  /\ Release(r)
  /\ \/ DbMayFail /\ Raise(r, "internal", "failed")
     \/ key[r] \in MayViolate /\ Raise(r, "violation", "failed")
  /\ UNCHANGED <<backend, postgres, tasks, requests, restarts, history>>

(* The payload was selected before the store, however long ago. *)
Fill(r) ==
  /\ pc[r] = "fill"
  /\ key[r] \notin Unrenderable
  /\ Backend!Write(key[r], got[r])
  /\ tainted' = IF r \in outrun THEN tainted \cup {key[r]} ELSE tainted \ {key[r]}
  /\ got' = [got EXCEPT ![r] = None]
  /\ outrun' = outrun \ {r}
  /\ Goto(r, "done")
  /\ UNCHANGED <<postgres, conns, key, mut, pos, stats, restarts>>

(* render_template raises, or the store does; a store that raises may have *)
(* been applied, but it is not counted.                                    *)
FillFails(r) ==
  /\ pc[r] = "fill"
  /\ Raise(r, "internal", "failed")
  /\ \/ /\ BackendMayFail \/ key[r] \in Unrenderable
        /\ UNCHANGED <<live, tainted>>
     \/ /\ BackendMayFail /\ key[r] \notin Unrenderable
        /\ live' = [live EXCEPT ![key[r]] = got[r]]
        /\ tainted' = IF r \in outrun THEN tainted \cup {key[r]}
                                      ELSE tainted \ {key[r]}
  /\ got' = [got EXCEPT ![r] = None]
  /\ outrun' = outrun \ {r}
  /\ UNCHANGED <<counters, ret, postgres, conns, key, mut, pos, requests, restarts>>

-----------------------------------------------------------------------------
(* Mutations: _make_mutation_resolver, then Invalidator.after_mutation.    *)

(* Mutant: mutation resolvers are not wrapped with the counters. *)
BeginMutationUncounted(w, m) ==
  /\ pc[w] = "idle"
  /\ Goto(w, "acquire")
  /\ mut' = [mut EXCEPT ![w] = m]
  /\ UNCHANGED <<backend, postgres, conns, key, got, pos, stats, restarts, history>>

BeginMutation(w, m) ==
  /\ pc[w] = "idle"
  /\ Goto(w, "acquire")
  /\ mut' = [mut EXCEPT ![w] = m]
  /\ Count
  /\ UNCHANGED <<backend, postgres, conns, key, got, pos, errors, restarts, history>>

(* conn.execute(write_sql), which waits for the row locks. *)
Update(w) ==
  /\ pc[w] = "update"
  /\ \A d \in Rows[mut[w]] : lock[d] = None
  /\ lock' = [d \in Datum |-> IF d \in Rows[mut[w]] THEN w ELSE lock[d]]
  /\ Goto(w, "commit")
  /\ UNCHANGED <<backend, db, committed, conns, tasks, stats, restarts, history>>

Unlock(w) == lock' = [d \in Datum |-> IF lock[d] = w THEN None ELSE lock[d]]

Apply(w) ==
  /\ db' = [d \in Datum |-> IF d \in Writes[mut[w]] THEN db[d] + 1 ELSE db[d]]
  /\ committed' = committed \cup {w}

(* Mutant: after_mutation is called inside the async with. *)
CommitHoldingConnection(w) ==
  /\ pc[w] = "commit"
  /\ Apply(w)
  /\ Unlock(w)
  /\ Goto(w, IF Targets[mut[w]] = <<>> THEN "done" ELSE "invalidate")
  /\ UNCHANGED <<backend, conns, tasks, stats, restarts, history>>

(* Mutant: the transaction is left open. *)
CommitKeepingLocks(w) ==
  /\ pc[w] = "commit"
  /\ Apply(w)
  /\ Release(w)
  /\ Goto(w, IF Targets[mut[w]] = <<>> THEN "done" ELSE "invalidate")
  /\ UNCHANGED <<backend, lock, tasks, stats, restarts, history>>

(* Mutant: the call of after_mutation is not awaited, and never runs. *)
CommitNotAwaiting(w) ==
  /\ pc[w] = "commit"
  /\ Apply(w)
  /\ Unlock(w)
  /\ Release(w)
  /\ Goto(w, "done")
  /\ UNCHANGED <<backend, tasks, stats, restarts, history>>

Commit(w) ==
  /\ pc[w] = "commit"
  /\ Apply(w)
  /\ Unlock(w)
  /\ Release(w)
  /\ Goto(w, IF Targets[mut[w]] = <<>> THEN "done" ELSE "invalidate")
  /\ UNCHANGED <<backend, tasks, stats, restarts, history>>

(* The statement, or the COMMIT, raises: rolled back, or, when only the    *)
(* answer to COMMIT was lost, applied all the same.                        *)
TransactionFails(w) ==
  /\ DbMayFail
  /\ \/ pc[w] \in {"update", "commit"} /\ UNCHANGED <<db, committed>>
     \/ pc[w] = "commit" /\ Apply(w)
  /\ Unlock(w)
  /\ Release(w)
  /\ Raise(w, "internal", "failed")
  /\ UNCHANGED <<backend, tasks, requests, restarts, history>>

Current(w) == Targets[mut[w]][pos[w]]

(* Readers whose payload is already superseded when a deletion of their    *)
(* key goes by, and the keys such readers had stored: the deletion removes *)
(* the second but not the first.                                           *)
Overtake(keys) ==
  /\ outrun' = outrun \cup
       {r \in Reader : /\ pc[r] = "fill" /\ key[r] \in keys
                       /\ \E d \in ReadsOf[key[r]] : got[r][d] # db[d]}
  /\ tainted' = tainted \ keys

Invalidate(w) ==
  /\ pc[w] = "invalidate"
  /\ Current(w).by # "unrenderable"
  /\ Backend!Invalidate(Covered(Current(w)))
  /\ Overtake(Covered(Current(w)))
  /\ pos' = [pos EXCEPT ![w] = @ + 1]
  /\ Goto(w, IF pos[w] = Len(Targets[mut[w]]) THEN "done" ELSE "invalidate")
  /\ UNCHANGED <<postgres, conns, key, got, mut, stats, restarts>>

(* Mutant: a deletion that raises is skipped and the loop goes on. *)
InvalidateFailsSkipping(w) ==
  /\ pc[w] = "invalidate"
  /\ BackendMayFail
  /\ pos' = [pos EXCEPT ![w] = @ + 1]
  /\ Goto(w, IF pos[w] = Len(Targets[mut[w]]) THEN "done" ELSE "invalidate")
  /\ UNCHANGED <<backend, postgres, conns, key, got, mut, stats, restarts, history>>

(* render_template raises, or the deletion does, applied or not; the       *)
(* targets after it are never deleted.                                     *)
InvalidateFails(w) ==
  /\ pc[w] = "invalidate"
  /\ Raise(w, "internal", "failed")
  /\ \/ /\ BackendMayFail \/ Current(w).by = "unrenderable"
        /\ UNCHANGED <<live, outrun, tainted>>
     \/ /\ BackendMayFail
        /\ live' = Backend!Without(Covered(Current(w)))
        /\ Overtake(Covered(Current(w)))
  /\ UNCHANGED <<counters, ret, postgres, conns, tasks, requests, restarts>>

-----------------------------------------------------------------------------
(* The profile's TTL elapses. *)
Expire(k) ==
  /\ k \in Expiring
  /\ live[k] # None
  /\ Backend!Drop({k})
  /\ UNCHANGED <<postgres, conns, pc, tasks, stats, restarts, history>>

(* The process dies and _lifespan builds a new one: fresh counters, a      *)
(* fresh pool, an empty MemoryBackend; Postgres rolls back what was open.  *)
Restart ==
  /\ restarts < MaxRestarts
  /\ restarts' = restarts + 1
  /\ pc' = [t \in Task |-> IF pc[t] = "idle" THEN "idle" ELSE "lost"]
  /\ live' = IF Persistent THEN live ELSE [k \in Key |-> None]
  /\ counters' = Backend!NoCounts
  /\ ret' = None
  /\ lock' = [d \in Datum |-> None]
  /\ conns' = {}
  /\ got' = [r \in Reader |-> None]
  /\ outrun' = {}
  /\ requests' = 0
  /\ errors' = NoErrors
  /\ UNCHANGED <<db, committed, key, mut, pos, tainted>>

Finished ==
  /\ \A t \in Task : pc[t] \in Over
  /\ UNCHANGED vars

QueryStep(r) == Acquire(r) \/ AcquireFails(r) \/ Lookup(r) \/ LookupFails(r)
                  \/ Select(r) \/ SelectFails(r) \/ Fill(r) \/ FillFails(r)

MutationStep(w) == Acquire(w) \/ AcquireFails(w) \/ Update(w) \/ Commit(w)
                     \/ TransactionFails(w) \/ Invalidate(w) \/ InvalidateFails(w)

Next ==
  \/ \E r \in Reader, k \in Key : BeginQuery(r, k)
  \/ \E r \in Reader : QueryStep(r)
  \/ \E w \in Writer, m \in Mutation : BeginMutation(w, m)
  \/ \E w \in Writer : MutationStep(w)
  \/ \E k \in Key : Expire(k)
  \/ Restart
  \/ Finished

Spec == Init /\ [][Next]_vars

(* The event loop resumes every ready task, and Postgres and the cache     *)
(* answer or raise; nobody has to send another request.  An error of       *)
(* Postgres may end a wait for a connection or a row lock, but is not      *)
(* counted on: these two waits are over when they are granted.  Nor is a   *)
(* TTL counted on to clear what a deletion has to.                         *)
Fairness ==
  /\ \A r \in Reader :
       WF_vars(Acquire(r) \/ Lookup(r) \/ Select(r) \/ Fill(r) \/ FillFails(r))
  /\ \A w \in Writer :
       WF_vars(Acquire(w) \/ Update(w) \/ Commit(w) \/ Invalidate(w) \/ InvalidateFails(w))

FairSpec == Spec /\ Fairness

-----------------------------------------------------------------------------
(* Staleness.  Superseded: the payload shows an older version of d.        *)
Superseded(payload, k, d) == d \in ReadsOf[k] /\ payload[d] # db[d]

Covers(w, i, k) == k \in Covered(Targets[mut[w]][i])

(* A committed change of d has yet to delete k: its invalidation is still  *)
(* under way, or was cut short by a failure or a restart.                  *)
Pending(k, d) ==
  \E w \in committed :
    /\ d \in Writes[mut[w]]
    /\ \E i \in pos[w] .. Len(Targets[mut[w]]) : Covers(w, i, k)

(* A committed change of d whose mutation does not declare k at all.       *)
Undeclared(k, d) ==
  \E w \in committed :
    /\ d \in Writes[mut[w]]
    /\ \A i \in 1 .. Len(Targets[mut[w]]) : ~ Covers(w, i, k)

Explained(k, d) == Pending(k, d) \/ Undeclared(k, d)

(* An entry out of date with Postgres has one of three causes and no       *)
(* other: the invalidation of a committed change is not finished, no       *)
(* deletion of that mutation covers the key, or the entry was stored by a  *)
(* query that selected before the deletion went by (the window ADR-021     *)
(* leaves open).  Caching, eviction, expiry, failures and restarts in any  *)
(* order add no fourth.                                                    *)
StaleExplained ==
  \A k \in Key, d \in Datum :
    (live[k] # None /\ Superseded(live[k], k, d)) =>
       k \in tainted \/ Explained(k, d)

(* The same of a payload on its way into the cache: the strengthening that *)
(* makes StaleExplained inductive.                                         *)
InFlightExplained ==
  \A r \in Reader, d \in Datum :
    (pc[r] = "fill" /\ Superseded(got[r], key[r], d)) =>
       r \in outrun \/ Explained(key[r], d)

(* What a task has fixed by the time it gets to each place. *)
WellFormed ==
  /\ \A r \in Reader : /\ pc[r] # "idle" => key[r] \in Key
                       /\ pc[r] = "fill" => got[r] \in Payload
  /\ \A w \in Writer :
       /\ pc[w] # "idle" => mut[w] \in Mutation
       /\ pc[w] \in {"idle", "acquire", "update", "commit"} =>
            pos[w] = 1 /\ w \notin committed
       /\ pc[w] = "invalidate" => pos[w] <= Len(Targets[mut[w]])

IInv == TypeOK /\ WellFormed /\ InFlightExplained /\ StaleExplained

(* A connection is out exactly while its task is between pool.acquire and  *)
(* the end of the async with, and a row is locked only by a transaction    *)
(* about to commit.  No task waits for the cache with either in its hands, *)
(* so a slow cache cannot drain the pool or block other mutations.         *)
NothingHeldAcrossCacheCalls ==
  /\ conns = {t \in Task : pc[t] \in {"select", "update", "commit"}}
  /\ \A d \in Datum : lock[d] # None =>
       pc[lock[d]] = "commit" /\ d \in Rows[mut[lock[d]]]

(* What /stats shows adds up over the invocations of this process: every   *)
(* one is counted once, failed or not, every failure once, and the cache   *)
(* counters are the lookups that hit, the lookups that missed and the      *)
(* payloads stored.                                                        *)
StatsTally ==
  LET At(S) == {t \in Task : pc[t] \in S}
      Missed == {r \in Reader : /\ key[r] # None /\ Cached(key[r])
                                /\ pc[r] \in {"acquire", "select", "fill", "indexing",
                                             "done", "failed"}}
      Stored == {r \in Missed : pc[r] = "done"}
  IN  /\ requests = Cardinality(Task) - Cardinality(At({"idle", "lost"}))
      /\ errors.violation + errors.internal = Cardinality(At({"failed", "unanswered"}))
      /\ counters.hits = Cardinality(At({"hit"}))
      /\ counters.misses = Cardinality(Missed)
      /\ counters.sets = Cardinality(Stored)

(* Every invocation that reached a resolver returns or raises. *)
EveryCallReturns == \A t \in Task : pc[t] # "idle" ~> pc[t] \in Over

(* The deletion of k by a committed change of d will never run: an error,  *)
(* a lost answer to COMMIT or the end of the process came before it.       *)
Abandoned(k, d) ==
  \E w \in committed :
    /\ d \in Writes[mut[w]] /\ pc[w] \in {"failed", "lost"}
    /\ \E i \in pos[w] .. Len(Targets[mut[w]]) : Covers(w, i, k)

(* Out of date, and all that excuses it is a deletion still to come. *)
Overdue(k) ==
  /\ live[k] # None /\ k \notin tainted
  /\ \E d \in Datum : /\ Superseded(live[k], k, d)
                      /\ ~ Abandoned(k, d) /\ ~ Undeclared(k, d)

(* Without any TTL: an entry that is out of date because a mutation has    *)
(* yet to delete it does not stay so.  The deletion comes, or is given up  *)
(* by a failure or a restart; a mutation that returned without a deletion  *)
(* it declares, or one that waits for ever, would leave the entry for good *)
(* with StaleExplained still satisfied, since it is "not finished".        *)
StalenessPasses == \A k \in Key : Overdue(k) ~> ~ Overdue(k)
=============================================================================
