# A TLA+ verification project for the GraphQL cache framework

The framework serves a GraphQL schema from Postgres. A YAML document (the DSL)
maps operations to SQL and declares, per query, a cache rule and, per mutation,
an invalidation strategy (`ttl`, `operation` or `tag`). The interesting part is
small and hard to test: many resolver invocations run as asyncio tasks over one
cache, one connection pool and one database, and correctness depends on the
order in which their awaits are resumed. This directory models that part,
model-checks it on small instances with TLC and proves its main invariants with
TLAPS.

## 1. Inventory

| Component | Source | State | Operations | Interacts with |
|---|---|---|---|---|
| CacheBackend Protocol, counters | `framework/cache/backend.py` | `CacheCounters` | get, set, set_with_indexes, delete, del_by_rule, del_by_tag, flush | implemented by both backends |
| MemoryBackend | `framework/cache/memory_backend.py` | a `TTLCache` per profile, key -> profile, rule -> keys, tag -> keys | the Protocol, under one `asyncio.Lock` | cachetools (external) |
| RedisBackend | `framework/cache/redis_backend.py` | the digest of its Lua script; payloads and index sets are on the server | the Protocol: single commands, a pipeline, EVALSHA | Redis (external) |
| CacheInterceptor | `framework/cache/interceptor.py` | none (locals of a call) | lookup, inner resolver, store | backend, query resolver |
| Invalidator, tag templates | `framework/cache/invalidator.py`, `tag.py` | none | after_mutation | backend |
| Resolvers, counter wrap, wiring | `framework/graphql/server.py`, `framework/stats.py` | `RequestCounters` | query and mutation resolvers, choice of backend | pool, interceptor, invalidator |
| Lifespan and CLI | `framework/cli.py` | the dict `_state`: app, counters, registry, pool, Redis client | boot, teardown, `/stats`, `/graphql` | everything above |
| DSL loader | `framework/dsl/*.py` | none (pure) | validate, resolve, rewrite where/set | builds the registry |
| SQL builder | `framework/sql/builder.py` | none (pure) | SELECT, INSERT, UPDATE, DELETE | resolvers |
| Load-test runner | `loadtest/runner.py` | two scrapes of `/stats` | run locust, subtract, write a report | the HTTP endpoint |
| Experiment matrix | `scripts/run_matrix.sh`, `Makefile` | containers, Redis, report files, the list of a matrix run | 21 cells in order | runner, containers |
| Matrix report | `scripts/build_report.py` | none (reads the newest list, writes files) | summary, four charts | report files of the matrix |

What is hard here:

* **Interleaving.** Every `await` (backend call, pool, SQL) lets other tasks
  run. A query holds a payload between its SELECT and its store; a mutation
  invalidates after its COMMIT, one rule or tag at a time.
* **Failure.** Redis and Postgres calls raise; the answer to a COMMIT can be
  lost; the process or Redis can restart, and Redis keeps its data when the
  process does not.
* **Indirection.** An entry is only as good as the indexes that find it again,
  while a TTLCache drops entries without telling anybody.
* **Configuration.** Everything is wired from a document; what the loader
  accepts, the request path has to serve.
* **Lifetimes.** The application is entered and left several times in one process
  (each test does), and `_state` is module-level; counters live as long as a
  lifespan, Redis longer, report files longest.
* **Measurement.** Numbers are differences of two scrapes with invocations under
  way at both, taken from containers that any failed command may have left as
  they were.

What makes each component correct: the backends must do what the Protocol says
(an entry never survives the deletion of its rule or tag, a get never returns
anything but the last payload written); the request path must not let an entry
be out of date without a reason its authors accepted, must not hold a
connection or a row lock while it waits for the cache, and must count every
call and every failure once; the wiring must send an invalidation where the
entries are; what `/stats` shows must belong to the application that `/graphql`
serves; a report must count what was counted between its scrapes, carry the
label of what was measured, and mean the same in a chart.

PROJECT.json lists every hazard at the line where it bites, with the properties
that watch it.

## 2. Modules

```
CacheBackend            abstract specification of a backend (the Protocol)
  ^ implemented by        MemoryBackend
  ^ but for three named exceptions, by   RedisBackend
  ^ instantiated by       CacheAside      (interceptor, resolvers, invalidator,
                                           counters, pool, Postgres, restart)
MemoryCacheAside        CacheAside's tasks over MemoryBackend's dictionaries
  ^ implements            CacheAside
RedisCacheAside         CacheAside's tasks over RedisBackend's commands
DslLoader <- BackendRouting        from a document to backends, app and traffic
SqlTemplates            set and where templates, from the document to bound parameters
Lifespan <- Measurement            _state, /graphql, /stats; the runner beside them
ExperimentMatrix <- MatrixReport   the cells of a measurement; the charts beside them
MC*                     instances for TLC
*Proofs                 TLAPS theorems
```

CacheAside talks to the backend through the actions of CacheBackend (its
`Backend` instance), so what is shown of the composition should hold for any
backend that implements the Protocol. MemoryBackend does, and MemoryCacheAside,
the same tasks over its dictionaries, implements CacheAside (both checked and
proved). RedisBackend does not when two callers share it (a finding), so
RedisCacheAside puts the tasks on top of its commands and says what changes.

**CacheBackend.** `live[k]` is what a get would return. `Write` may drop other
entries (capacity) but never the one it writes; `Drop` is expiry and the
uncounted removals; the deletions remove all keys of a rule or a tag.

**MemoryBackend.** The variables are the code's dictionaries. `caches[p]` is a
TTLCache; `Store` leaves open which entry a full cache evicts, so any eviction
order of the library is included. `Expire` and the eviction inside `Store` do not
touch the indexes, as in the code: dangling index entries are reachable states.
No method awaits while it holds the lock, so each is one step. The plain `set`,
which has no profile, writes only keys no rule covers (its docstring's "ad-hoc /
test path").

**RedisBackend.** Callers against a server that runs one command at a time. A
get, set, delete or flush is one step; `set_with_indexes` is a step for SET and
one for each SADD (the pipeline is not a transaction, so other clients' commands
may come between); an invalidation is a test of the digest (`StartDel`), perhaps
a SCRIPT LOAD, and one EVALSHA. `Leave` ends the calls of a set of callers and
`Return` that of one; `CutShort` ends them in the middle of a pipeline and records
in the history variable `torn` which SADDs will never run. `PipelineLost`,
`LoadLost` and `EvalLost` are connections that die before the command or before
its answer; `ServerRestart` empties the script cache, with or without the data;
`ProcessRestart` starts a new backend, without digest, over the old data.
`MaxUnpack` stands for the roughly 8000 values Lua's `unpack` can return. The
bounds are in `Next` only, so that other modules can take the actions as they
are.

**CacheAside.** One process per invocation of a resolver. A query goes
`idle -> get -> hit`, or `get -> acquire -> select -> fill -> done`; a mutation
`idle -> acquire -> update -> commit -> invalidate ... -> done`; `failed`,
`unanswered` and `lost` are the ends by exception and by death of the process.
SQL data are version numbers per datum; a datum is a row or a fact about several
rows (a team's list), and UPDATE locks only rows. `committed`, `outrun` and
`tainted` are history variables: writers whose transaction took effect, readers
holding a payload that a deletion of their key failed to reach, and the keys
whose entry such a reader stored.

**MemoryCacheAside.** The tasks of CacheAside over the state of MemoryBackend:
`live[k]` is what a get of `k` would return from its profile's TTLCache. The four
steps that reach the backend (`Lookup`, `Fill`, `Invalidate`, `Restart`) call the
methods of MemoryBackend, and an expiry is one of its `Expire`; every other step is
CacheAside's own, with the dictionaries unchanged. An in-memory backend does not raise and
does not survive its process, so `BackendMayFail` and `Persistent` are FALSE here.

**RedisCacheAside.** The tasks of CacheAside, with `Fill` and `Invalidate` taken
apart into the commands of RedisBackend: its callers are the tasks, and its
store, counters and ret are `live`, `counters` and `ret`. Each command may be the
last that arrives; one server restart cuts every pipeline under way. `missed` is a
history variable: the keys whose superseded entry a deletion left behind because
the index set did not name it.

**DslLoader, BackendRouting.** DslLoader has the checks of `load()` as operators
over documents the schema lets through. BackendRouting follows a document:
`read -> accepted | rejected`, then a backend per profile, then
`build_graphql_app`, then queries that fill and mutations that clear; `crashed` is
an exception in `_lifespan`. `Contexts` is the loop over rules, in which the last
rule that lists a query wins; `Picked` is `_pick_invalidator_backend`. `returned`
is a history variable: the mutations that have returned and since which no query
they declare has stored an entry. `DeclaredEntriesRemoved` is a statement about
states, not about steps: while a mutation is in `returned`, no backend holds an
entry it declares, so a deletion that was made in the wrong backend, or not at
all, is a violation although it changes nothing.

**SqlTemplates.** One operation of the document through two parts of the code
that agree only by convention: the loader's rewriting (`_rewrite_set`,
`_rewrite_where`) and, once per invocation, the builder's numbering
(`build_select`, `build_mutation`). A template is a sequence of tokens of the
classes `_classify` tells apart; operators, keywords, literals and punctuation
other than `(` are one class, since all are copied. Each loop of the code takes
one step per item, so that the remembered token (`prev_meaningful`) and the
running number are state. White space is left out: the model takes tokens to be
separated where the code joins them (a number written against a placeholder would
run into its number, a hazard with no property). A placeholder is one token class
for the loader and for the builder: that their two regular expressions match the
same text is assumed, and `AssertionHolds` is about what is counted with them.

**Lifespan.** `_lifespan` with each stretch between two awaits one step: connecting
the pool, everything from there to the `yield`, closing the pool, closing Redis.
`state[e]` is the number of the lifespan that published entry `e` of `_state`, or
`Absent`; `counts` has the counters each lifespan made. The two routes read
`_state` as the code does, so an invocation keeps the app it was dispatched to
after a teardown. `log`, `raised` and `cut` are history: what each invocation
counted, and the lifespans whose boot or teardown raised half way. An
`after_mutation` here deletes one rule or tag (CacheAside has the loop).
`Dispatch` takes the lookup of the app (`cli.py:53`) and the bump of the
operation's counter (`server.py:118`) in one step; a teardown in between changes
nothing that either reads, since the invocation counts in the lifespan whose app
it was given, and no property relates the two moments.

**Measurement.** The runner beside Lifespan: a scrape, a locust run, a scrape, a
report of differences (`_delta_int_dict` over the union of both dicts' keys).
The differences include the warm-up of `shape.py`, as in the code. A framework
that came back in between makes them meaningless, possibly negative, and nothing
in the code detects it: `DeltaExact` and `ReportSound` speak of a report whose two
scrapes saw the same counters and say nothing of the others.

**ExperimentMatrix.** `run_matrix.sh` with the commands of `make experiment` and
of `loadtest/runner.py` inlined, in their order. The commands that change
something may fail, the `echo` that writes `.env` among them, and no failure of
`make experiment` reaches the script, because its last command is `rm -f .env`. The user may interrupt at any step and start again. A report is the
matrix run and the cell in its name with the cell that was really measured, and
whether the file is complete.

**MatrixReport.** `make report`, at any time: it reads the newest list (also one of a
run under way), skips what it cannot parse, writes the summary and draws the
four charts one after the other over those of an earlier report, and may fail
between two of them. A chart is the run it was drawn for and a bar, or a gap, for
each cell on its axis.

The `map` of PROJECT.json names the source lines of every definition.

## 3. Runs

| Run | Instance | Shows |
|---|---|---|
| `memory_backend` | 4 keys, 2 profiles of 1 and 2 entries, 3 tags, 6 counted calls | indexes find every held entry, capacity, refinement of the Protocol |
| `memory_cache_aside` | 3 queries, 1 mutation, 5 keys, a list profile of 1 entry, mistyped templates on either side, Postgres errors, 1 restart | the request path over the dictionaries implements CacheAside; causes of staleness |
| `cache_aside` | 2 queries, 2 mutations of one row, pool of 2, persistent backend, all failures, 1 restart | causes of staleness, nothing held across cache calls, counters add up; no invocation waits for ever; an entry whose deletion is still to come does not stay out of date |
| `redis_concurrent` | 2 callers, 3 keys (one ad hoc), 4 calls, 1 lost connection, 1 server restart, unpack limit 1 | every step is one of the Protocol but for three named exceptions; only a torn pipeline strands an entry; the digest is good until a restart |
| `redis_cache_aside` | 2 queries, 1 mutation, 3 keys (two of one row), unpack limit 2, 1 loss, 1 restart of each process | what is out of date on Redis has one of four causes; nothing held between two commands; counters add up |
| `routing_one_backend` | documents around the examples: 2 profiles of one kind, 3 operations, 2 rules, any invalidates; uncached documents against 27 schemas | what loads boots, unless it does not fit the SDL; after a mutation nothing it declares is left anywhere, and nothing else is gone |
| `sql_templates` | 3 fields on 2 columns, 2 arguments, up to 2 set entries and 3 where tokens | the allowlist is exact, every placeholder and every column carries its argument, the assertion holds |
| `measurement` | 2 invocations, 3 lifespans with a Redis profile, the process may end | `/stats` and `/graphql` belong together, leaks have a named exception, a report counts exactly what was counted |
| `experiment_matrix` | 2 cells, 2 matrix runs, every command may fail, interrupts, reports at any time | labels, cold starts, lists, bars and gaps are what they say, each up to a named failure |
| `redis_not_atomic`, `redis_oversized_index`, `routing_mixed` | | violations: see Findings |

The central property is `StaleExplained`. The code does not promise that the
cache is never stale; ADR-021's single delete leaves a window and says so. What
it can promise is that nothing else goes wrong, and the property says exactly
that: an entry older than the database is there because the invalidation of a
committed change is unfinished (running, failed or cut by a restart), because
no deletion of that mutation covers the key (the examples do this:
`updateUserName` leaves the lists), or because of the ADR-021 window. Each of
the three is needed: dropping any of them makes TLC find a counterexample.
`RedisStaleExplained` adds the fourth cause Redis brings in: a deletion ran while
the entry was not in its index set, because the pipeline that stores it was under
way or had been cut. The other properties are of the same kind: each names every
way the guarantee can fail, so that a change of the code that adds a way breaks
it.

`StaleExplained` accepts a deletion that is still to come as a cause, so a mutation
that never gets to its deletion satisfies it. `StalenessPasses` is the other half:
an entry for which that is the only cause does not stay as it is. Its deletion runs
or is given up by a failure or a restart, with no TTL to help. The mutant is an
`after_mutation` that is not awaited, which every other property of the run lets
pass. How long an entry stays in cells with the `ttl` strategy is not a property
here: that entries expire is assumed of TTLCache and of Redis.

`DigestGoodUntilRestart` is about two first invalidations that both load the
script, and stops at a restart of the server. What follows a restart (every
invalidation raises NOSCRIPT until the process is restarted too) is in the model,
and its effects are covered by `RedisStaleExplained` and `StatsTally`.

### Bounds, and why they are enough

* Two queries and two mutations: a fill overtaken by a deletion needs one of
  each; a second mutation gives lock conflicts and overlapping invalidations; a
  second query reads what another left. The mutation deletes one of the two keys
  and leaves the other, and so do the examples; deletions one after the other are in
  `memory_cache_aside` and `redis_cache_aside`, where a mutation has two targets.
* Three queries and one mutation on MemoryBackend: one query to store an entry,
  one to evict it, and one to look up what the index still names, around a
  deletion through that index. `MaxCalls` is never reached: four invocations make at
  most eight calls.
* Six counted calls on MemoryBackend: write, evict, rewrite under another
  profile's pressure, delete by tag, rewrite, delete by rule is the longest
  chain through the indexes. Expiry, delete and flush are not counted and so not
  bounded. The proofs have no such bound.
* Two Redis callers, since all sharing is pairwise (pipeline against deletion,
  load against load, anything against a restart); one lost connection and one
  restart, since both return the model to a state of the same kind. The unpack
  limit is 1 in one run and 2 in the other, so that both a single and a shared
  index set can be too large. The proofs have none of these bounds.
* `redis_cache_aside` has two keys of one row: `getUser(id: 1)` and
  `getUser(id: "01")` read the same row but get different keys and tags.
* Documents: one or two rules over two queries in every combination of shared and
  repeated names, every value of an invalidates block, and every schema that
  lacks an operation or a type. The proofs are for any documents.
* Three where tokens and two set entries: a call, a placeholder after a column and
  an operator, and two placeholders of one argument all fit; two fields on one
  column collapse. The proofs have no such bound.
* Three lifespans: one that leaves something behind, one that starts on it, and
  one after that; two invocations, so that one can straddle a scrape or a
  teardown while another begins. The proofs are for any number of both.
* Two matrix runs, since a listed report can only be old if there was a run
  before; two cells, one on Redis and a baseline outside the last chart, so that
  each follows the other. The proofs are for any cells and any number of runs.
* Versions of data are bounded by the number of mutations.
* `SYMMETRY` is over resolver invocations, where nothing but invariants and
  `ImplementsPath` is checked, which has no fairness: it holds of each state and step.
* `CHECK_DEADLOCK FALSE` where the system may stop: the Redis callers have made
  the calls `MaxCalls` allows, a document is rejected or offers nothing to cache,
  the lifespans or matrix runs allowed are over. CacheAside, MemoryCacheAside and
  RedisCacheAside are checked for deadlock; `Finished` is their only way to stop.

### Fairness

`FairSpec` of CacheAside assumes weak fairness of each task's next step (the event
loop resumes every ready task; the pool, Postgres and the cache answer). There is
no fairness of expiry, so nothing counts on a TTL. Nothing makes clients send requests, and no failure but that of a
template that cannot be rendered, and no restart, is assumed to happen. In
particular a task that waits for a connection or a row lock is not saved by an
error of Postgres: the wait must end because the one before it let go. No other
specification needs fairness.

## 4. Findings

* `redis_not_atomic`: `backend.py:75` promises an atomic production write, and the
  Redis pipeline is not one. A deletion between SET and SADD leaves a readable
  entry alive.
* `redis_oversized_index`: above Lua's unpack limit a deletion always raises, and
  the index only grows.
* `routing_mixed`: in a document with both kinds of profile, a mutation's
  invalidator has one backend, and entries of its rules in the other stay.

Smaller disagreements are visible in passing runs:

* The docstring of `redis_backend.py` (4-5) says the script is loaded once at
  construction; it is loaded on first use, by every caller that gets there before
  the first answer (`LoadScript`).
* `run_matrix.sh` (61-62) says the report it finds has a timestamp after
  `before_ts`; nothing compares them, and `ListExplained` says what happens
  instead: a cell that failed is listed with its report of an earlier run.
* `tag.py` (8-13) says the loader has validated tag templates; it has not, and an
  unknown argument raises at the first fill or after the COMMIT (`Unrenderable`).
* The integration tests say leaving a lifespan clears `_state`
  (`tests/integration/test_cache_combinations.py:70`). Not when closing the pool or
  the Redis client raises, which is the exception `NothingServedBetween` names.
* `runner.py:156` says sets are about misses; the code reports hits plus misses
  (`BuildReport`).

## 5. Proofs

Each proof module shows an inductive invariant and takes the theorems from it;
they are for every value of the constants that satisfies the assumption named in
the module, and none has the bounds of the runs.

`MemoryBackendProofs`, from `MemoryAssumption`:

* `IndexConsistency`: `Spec => []IInv`. `Indexed` alone is not inductive: a
  deletion through a dangling index entry could hit a key of another rule unless
  the indexes are sound (`IndexSound`), and a rewrite could leave a copy in
  another profile unless a key has one home (`AtHome`), which is what keeps
  `Placed`. The conjunction is inductive.
* `TypeCorrect`, `AlwaysPlaced`, `AlwaysIndexed`: conjuncts of it.
* `Refinement`: every step maps to a step of the Protocol or a stutter. The
  deletions need `IInv`: the keys of an index, held, are exactly the live keys of
  the rule or tag.
* `Capacity`: needs only the types and cardinality lemmas.
* `PathRefinement`: `PathSpec => ImplementsPath`, from `MemoryPathAssumption` (the
  assumption of CacheAside, and payloads for values). The steps that reach the
  backend are refined by the lemmas `Refinement` uses (`GetRefines`, `DelByRuleRefines`,
  `DelByTagRefines`, `ExpireRefines`), with the types of CacheAside and the backend's
  `IInv` as the invariant (`PathInv`).
* `MemoryStaleness`: `PathSpec => []MemoryStaleExplained`, `Staleness` of
  CacheAsideProofs carried over by that refinement: an index that dangles, an
  eviction or a shared tag adds no cause. The module instantiates CacheAsideProofs,
  so nothing about tasks is proved twice.

`CacheAsideProofs`, for any number of invocations, keys and data:

* `TypeCorrect`, by induction with `WellFormed` (what a task has fixed by the
  time it reaches a place).
* `Staleness` and `InFlight`: `StaleExplained` is not inductive, because a
  payload in flight becomes an entry; `InFlightExplained` says the same of the
  payloads, and the conjunction is. The argument: a commit makes entries stale
  and, in the same step, itself explains them; an explanation only ends when a
  deletion covers the key, which removes the entry and marks the payloads that
  it cannot reach.
* `PoolFree`: `NothingHeldAcrossCacheCalls` is inductive over the types; one frame
  lemma (`HeldFrame`) covers every step of a single task.
* `Tally`: `StatsTally` is inductive with `OnlyCached` (the tasks at a lookup or a
  store belong to a cached resolver). Each step moves one task into or out of at
  most one of the sets the counters are compared with, so the argument is a few
  cardinality facts (`Counting`); it needs the sets of invocations to be finite.

`RedisBackendProofs`, for any number of callers:

* `Indexing`: `IndexedUnlessTorn` needs that an index set has no key but those
  whose rule or tag it stands for, and that a pipeline still has only such SADDs
  before it (`MembersBelong`); with the types and the shape of a call
  (`CallsWellFormed`) this is `Reachable`. It is shown for `Commands`, the actions
  without their bounds, so that RedisCacheAside can use the result.
* `Digest`: a digest implies a loaded script until the server restarts.
* `Promises`: `StepsAsPromised`. The interesting case is a deletion: what it leaves of
  its rule or tag was not in the index set, so by `Reachable` its store is
  unfinished or was cut.

`RedisCacheAsideProofs` puts the last two together:

* `RedisStaleness` is `RedisSpec => []RedisStaleExplained`. `Linked` ties a call of
  RedisBackend to the place of its task (a pipeline is a query that is storing, a
  script is the deletion of a mutation's current target), every step is one of
  `Commands`, so `Reachable` holds of the server without being proved again, and
  the payloads in flight are treated by the lemmas of CacheAsideProofs. The new
  argument is `PassCauses`: an entry the script leaves although the target covers
  its key was unreachable, and is counted as missed from then on.
* `RedisPoolFree`: `NothingHeldAcrossCacheCalls` where a store and a deletion are
  several commands, any of which may be lost.
* `RedisTally`: `StatsTally` over the commands; that a cut pipeline is counted as an
  error and not as a set needs `Linked`.

`SqlTemplatesProofs` proves the six invariants of `SqlTemplates` for templates,
columns maps and requests of any size, from `TemplateAssumption` alone. None of
them is inductive, since they speak of finished statements; `IInv` says what each
loop has done for the items before `pos` (`LoadInv` for the loader, `BuildInv` and
`NumberInv` for the builder). The assertion needs that both sides count the same
thing: `where_args` and the parameters are each as many as the placeholder
positions passed so far (`CountArgs`). That bound parameters survive later ones is
`DoneGrows`. `Assignments` says which field a column gets its value from when two are
mapped to it: the last, by `CollectInv` over the fields collected so far.

`BackendRoutingProofs`, for any documents:

* `Boots`: a phase after loading implies `Accepted` (`Passed`), whose conjuncts are
  what the unguarded lookups need.
* `KeepsOthers`: an entry is indexed under a rule that lists its query
  (`ContextsFit` and `Filed`), so what a deletion reaches was declared.
* `RemovesDeclared`: from `OneKind`, `DeclaredEntriesRemoved` holds in every state.
  The mutation's own step establishes it (`MutationClears`): with one kind of
  profile, the backend picked is the one that holds the entries, and that a query
  has no second rule (`CheckOperationRefs`) makes the rule it is indexed under the
  one the mutation names. Every other step keeps it (`StaysCleared`, and
  `BootClears` for the steps before traffic). `routing_mixed` is without `OneKind`
  and violates it.

`MeasurementProofs`, for any number of invocations, operations and lifespans:

* `StatsMatch`, `QuietBetween`, `LeaksExplained`: with what each phase has open
  (`Phased`), one inductive invariant, `Lifetimes`.
* `Exact`: each counter of each lifespan is the number of invocations that logged
  it there (`Tally`), which needs what an invocation can have counted by the time it
  gets to each place (`Fresh`); a scrape says the same of the moment it was taken
  (`Faithful`), and logs only grow. The difference of two scrapes is then the
  cardinality of the difference of two nested sets.
* `Sound`: the totals of a report are sums over a function of its counters. That
  such a sum is the number of invocations counted (`SumOfCardinalities`) is an
  induction over finite sets, made by the well-foundedness of strict inclusion and
  not by an induction theorem.

`MatrixReportProofs`, for any cells and any number of runs: `RightLabel` and
`StartsCold` are inductive with what the step at hand implies (`Labelled`, `Emptied`).
`ListsTruthful` and `ChartsTruthful` need to know how the files and the list of a
run relate to how far it has come: a report exists only for a cell begun
and at most once in a run (`Written`), a list has only files of cells its run is
done with (`Listed`), what the run under way wrote for a finished cell is in its
list (`Current`), and so is what any run wrote up to the last cell it listed
(`Gapless`).

Only model-checked: liveness (`EveryCallReturns` and `StalenessPasses`), and the
three violated properties.

## 6. What is not modelled

* HTTP and Ariadne's execution: a request is one resolver invocation.
* The text of SQL, JSON encoding (`default=str` is lossy, so a hit may render a
  timestamp differently from a miss), hashing of keys (taken injective), logging.
* `_coerce_args` on values: a numeric-looking text argument is bound as an integer.
  Its failures are `AcquireFails`, its aliasing of keys is in `MCRedisCacheAside`.
* `CancelledError`, which the counter wrap does not count as an error.
* The load shape and the workloads (constants and random generators without
  state), the latency columns read from locust's CSV, command-line parsing, the
  drawing of charts, the timing file of the matrix.

The examples' documents enter only as instances.

## 7. Plan

What remains worth doing, in order of importance:

1. `_coerce_args` as an operator on classes of strings, with the key and the tag
   made from the raw argument and the parameter from the coerced one.
2. The values in a table, to state which row the follow-up SELECT of an update
   reads (its own SET may have moved the row out of its `where`).
3. What else CacheAsideProofs shows (`PoolFree`, `Tally`), carried over to
   MemoryCacheAside by `PathRefinement`.
