---------------------------- MODULE CacheBackend ----------------------------
(***************************************************************************)
(* What framework/cache/backend.py promises of every cache backend: the    *)
(* CacheBackend Protocol and its CacheCounters.  Each method is one atomic *)
(* step on the map `live` of the entries a get would return.  A backend    *)
(* may drop entries on its own (TTL, capacity), so a get may miss; it may  *)
(* never return anything but the last payload written, and an entry must   *)
(* not survive the deletion of its rule or of one of its tags.             *)
(***************************************************************************)
EXTENDS Integers

CONSTANTS Key,      \* digests of (operation, args), and keys of plain set calls
          Value,    \* serialized payloads
          Rule,     \* cacheRules names
          Tag,      \* rendered tag strings
          RuleOf,   \* key -> its rule, None for a key only plain set writes
          TagsOf,   \* key -> the tags rendered from its arguments
          None      \* no rule, no entry

VARIABLES live,     \* live[k]: the payload a get(k) would return, or None
          counters, \* CacheCounters
          ret       \* what the last counted call returned

backendVars == <<live, counters, ret>>

CacheCounters == [hits : Nat, misses : Nat, sets : Nat, invalidations : Nat]

NoCounts == [hits |-> 0, misses |-> 0, sets |-> 0, invalidations |-> 0]

TypeOK ==
  /\ live \in [Key -> Value \cup {None}]
  /\ counters \in CacheCounters
  /\ ret \in Value \cup {None}

Init ==
  /\ live = [k \in Key |-> None]
  /\ counters = NoCounts
  /\ ret = None

-----------------------------------------------------------------------------
Without(S) == [k \in Key |-> IF k \in S THEN None ELSE live[k]]

Get(k) ==
  /\ ret' = live[k]
  /\ counters' = IF live[k] = None
                 THEN [counters EXCEPT !.misses = @ + 1]
                 ELSE [counters EXCEPT !.hits = @ + 1]
  /\ UNCHANGED live

(* A write may push other entries out of a bounded store, never itself. *)
Write(k, v) ==
  /\ \E S \in SUBSET (Key \ {k}) : live' = [Without(S) EXCEPT ![k] = v]
  /\ counters' = [counters EXCEPT !.sets = @ + 1]
  /\ ret' = None

Invalidate(S) ==
  /\ live' = Without(S)
  /\ counters' = [counters EXCEPT !.invalidations = @ + 1]
  /\ ret' = None

DelByRule(r) == Invalidate({k \in Key : RuleOf[k] = r})

DelByTag(t) == Invalidate({k \in Key : t \in TagsOf[k]})

(* TTL expiry, and the uncounted removals delete and flush. *)
Drop(S) ==
  /\ live' = Without(S)
  /\ UNCHANGED <<counters, ret>>

Next ==
  \/ \E k \in Key : Get(k)
  \/ \E k \in Key, v \in Value : Write(k, v)
  \/ \E r \in Rule : DelByRule(r)
  \/ \E t \in Tag : DelByTag(t)
  \/ \E S \in SUBSET Key : Drop(S)

Spec == Init /\ [][Next]_backendVars
=============================================================================
