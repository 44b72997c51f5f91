--------------------------- MODULE MemoryCacheAside ---------------------------
(***************************************************************************)
(* The request path over MemoryBackend, as the in_memory examples wire it: *)
(* the invocations of CacheAside, whose lookups, stores and deletions are  *)
(* the methods of MemoryBackend with their three indexes, evictions and    *)
(* expiries.  What CacheAside takes for one map, live, is here what get    *)
(* would return.  No method raises, and all is gone with the process.      *)
(***************************************************************************)
EXTENDS MemoryBackend, Sequences

CONSTANTS Reader, Writer, Datum, ReadsOf, Mutation, Rows, Writes, Targets, MayViolate,
          Unrenderable, PoolMax, DbMayFail, MaxRestarts \* as in CacheAside

VARIABLES db, lock, conns, pc, key, got, mut, pos, requests, errors, restarts,
          committed, outrun, tainted \* as in CacheAside

Path == INSTANCE CacheAside WITH
  live <- Live,
  Expiring <- {k \in Key : TtlSeconds[Home(k)] > 0},
  BackendMayFail <- FALSE,
  Persistent <- FALSE

ASSUME MemoryPathAssumption == Path!CacheAsideAssumption /\ Value = Path!Payload

(* Everything but the backend. *)
outside == <<db, lock, committed, conns, pc, key, got, mut, pos, requests, errors, restarts,
             outrun, tainted>>
pathVars == <<vars, outside>>

PathInit ==
  /\ Init
  /\ db = [d \in Datum |-> 0] /\ lock = [d \in Datum |-> None] /\ conns = {}
  /\ pc = [t \in Path!Task |-> "idle"]
  /\ key = [r \in Reader |-> None] /\ got = [r \in Reader |-> None]
  /\ mut = [w \in Writer |-> None] /\ pos = [w \in Writer |-> 1]
  /\ requests = 0 /\ errors = Path!NoErrors /\ restarts = 0
  /\ committed = {} /\ outrun = {} /\ tainted = {}

(* A step of CacheAside that calls no method of the backend. *)
NoCall == UNCHANGED vars

-----------------------------------------------------------------------------
Lookup(r) ==
  /\ pc[r] = "get"
  /\ Get(key[r])
  /\ Path!Goto(r, IF ret' = None THEN "acquire" ELSE "hit")
  /\ UNCHANGED <<db, lock, committed, conns, key, got, mut, pos, requests, errors, restarts,
                 outrun, tainted>>

Fill(r) ==
  /\ pc[r] = "fill"
  /\ key[r] \notin Unrenderable
  /\ SetWithIndexes(key[r], got[r])
  /\ Path!Goto(r, "done")
  /\ tainted' = IF r \in outrun THEN tainted \cup {key[r]} ELSE tainted \ {key[r]}
  /\ got' = [got EXCEPT ![r] = None]
  /\ outrun' = outrun \ {r}
  /\ UNCHANGED <<db, lock, committed, conns, key, mut, pos, requests, errors, restarts>>

(* One round of the loop of after_mutation. *)
Invalidate(w) ==
  LET target == Path!Current(w) IN
    /\ pc[w] = "invalidate"
    /\ \/ target.by = "rule" /\ DelByRule(target.of)
       \/ target.by = "tag" /\ DelByTag(target.of)
    /\ Path!Overtake(Path!Covered(target))
    /\ pos' = [pos EXCEPT ![w] = @ + 1]
    /\ Path!Goto(w, IF pos[w] = Len(Targets[mut[w]]) THEN "done" ELSE "invalidate")
    /\ UNCHANGED <<db, lock, committed, conns, key, got, mut, requests, errors, restarts>>

(* _lifespan builds a new MemoryBackend with new CacheCounters. *)
Restart ==
  /\ restarts < MaxRestarts
  /\ restarts' = restarts + 1
  /\ pc' = [t \in Path!Task |-> IF pc[t] = "idle" THEN "idle" ELSE "lost"]
  /\ caches' = [p \in Profile |-> [k \in Key |-> None]]
  /\ key_profile' = [k \in Key |-> None]
  /\ rule_index' = [r \in Rule |-> {}] /\ tag_index' = [t \in Tag |-> {}]
  /\ counters' = [hits |-> 0, misses |-> 0, sets |-> 0, invalidations |-> 0]
  /\ ret' = None
  /\ lock' = [d \in Datum |-> None] /\ conns' = {}
  /\ got' = [r \in Reader |-> None] /\ outrun' = {}
  /\ requests' = 0 /\ errors' = Path!NoErrors
  /\ UNCHANGED <<db, committed, key, mut, pos, tainted>>

PathQueryStep(r) ==
  \/ NoCall /\ (\/ Path!Acquire(r) \/ Path!AcquireFails(r) \/ Path!Select(r)
                \/ Path!SelectFails(r) \/ Path!FillFails(r))
  \/ Lookup(r)
  \/ Fill(r)

PathMutationStep(w) ==
  \/ NoCall /\ (\/ Path!Acquire(w) \/ Path!AcquireFails(w) \/ Path!Update(w)
                \/ Path!Commit(w) \/ Path!TransactionFails(w) \/ Path!InvalidateFails(w))
  \/ Invalidate(w)

PathNext ==
  \/ \E r \in Reader, k \in Key : NoCall /\ Path!BeginQuery(r, k)
  \/ \E r \in Reader : PathQueryStep(r)
  \/ \E w \in Writer, m \in Mutation : NoCall /\ Path!BeginMutation(w, m)
  \/ \E w \in Writer : PathMutationStep(w)
  \/ \E p \in Profile, k \in Key : Expire(p, k) /\ UNCHANGED outside
  \/ Restart
  \/ NoCall /\ Path!Finished

PathSpec == PathInit /\ [][PathNext]_pathVars

-----------------------------------------------------------------------------
(* Over MemoryBackend the request path does nothing that it does not do    *)
(* over the one map of the Protocol: a lookup never finds an entry that    *)
(* was deleted, and a deletion finds every entry of its rule or tag, also  *)
(* those stored by an invocation that ran between two deletions of one     *)
(* mutation, in whatever profile and behind whatever dangling index.       *)
ImplementsPath == Path!Spec

(* An out-of-date entry of a TTLCache has one of the causes StaleExplained *)
(* names; the three indexes add none.                                      *)
MemoryStaleExplained ==
  \A p \in Profile, k \in Key, d \in Datum :
    (caches[p][k] # None /\ Path!Superseded(caches[p][k], k, d)) =>
       k \in tainted \/ Path!Explained(k, d)
=============================================================================
