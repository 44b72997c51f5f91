--------------------------- MODULE MemoryBackend ---------------------------
(***************************************************************************)
(* framework/cache/memory_backend.py.  One TTLCache per profile, a reverse *)
(* index key -> profile, forward indexes rule -> keys and tag -> keys, all *)
(* under one asyncio.Lock.  No method suspends while it holds the lock, so *)
(* every method is one step.  A missing dict entry of an index is the      *)
(* empty set here: the code reads both alike.                              *)
(*                                                                         *)
(* The TTLCaches drop entries without telling the backend (Expire, and the *)
(* eviction inside Store): the three indexes then still name the key.      *)
(***************************************************************************)
EXTENDS Integers, FiniteSets

CONSTANTS Key, Value, Rule, Tag, RuleOf, TagsOf, MaxCalls, None,
          Profile,     \* in_memory cacheProfiles
          ProfileOf,   \* key -> the profile of the rule covering its query
          FirstProfile,\* next(iter(self._caches)), where plain set writes
          MaxEntries,  \* profile -> max_entries
          TtlSeconds   \* profile -> ttl_seconds, 0 for no expiry

ASSUME MemoryAssumption ==
  /\ None \notin Value
  /\ None \notin Rule
  /\ None \notin Profile
  /\ RuleOf \in [Key -> Rule \cup {None}]
  /\ TagsOf \in [Key -> SUBSET Tag]
  /\ \A k \in Key : RuleOf[k] = None => TagsOf[k] = {}
  /\ ProfileOf \in [Key -> Profile]
  /\ FirstProfile \in Profile
  /\ MaxEntries \in [Profile -> Nat \ {0}]
  /\ TtlSeconds \in [Profile -> Nat]
  /\ MaxCalls \in Nat

VARIABLES caches, key_profile, rule_index, tag_index, counters, ret

indexes == <<key_profile, rule_index, tag_index>>
vars == <<caches, key_profile, rule_index, tag_index, counters, ret>>

CacheCounters == [hits : Nat, misses : Nat, sets : Nat, invalidations : Nat]

TypeOK ==
  /\ caches \in [Profile -> [Key -> Value \cup {None}]]
  /\ key_profile \in [Key -> Profile \cup {None}]
  /\ rule_index \in [Rule -> SUBSET Key]
  /\ tag_index \in [Tag -> SUBSET Key]
  /\ counters \in CacheCounters
  /\ ret \in Value \cup {None}

Init ==
  /\ caches = [p \in Profile |-> [k \in Key |-> None]]
  /\ key_profile = [k \in Key |-> None]
  /\ rule_index = [r \in Rule |-> {}]
  /\ tag_index = [t \in Tag |-> {}]
  /\ counters = [hits |-> 0, misses |-> 0, sets |-> 0, invalidations |-> 0]
  /\ ret = None

MayCall == counters.hits + counters.misses + counters.sets
             + counters.invalidations < MaxCalls

-----------------------------------------------------------------------------
(* cachetools.TTLCache.                                                    *)

Held(p) == {k \in Key : caches[p][k] # None}

(* Mutant: evicts only once the cache is over its size. *)
StoreOneTooMany(p, k, v) ==
  \/ /\ k \in Held(p) \/ Cardinality(Held(p)) <= MaxEntries[p]
     /\ caches' = [caches EXCEPT ![p][k] = v]
  \/ /\ k \notin Held(p) /\ Cardinality(Held(p)) > MaxEntries[p]
     /\ \E victim \in Held(p) :
          caches' = [caches EXCEPT ![p] = [@ EXCEPT ![victim] = None, ![k] = v]]

(* cache[key] = value: a new key evicts one entry of a full cache.  The    *)
(* library picks the least recently used one; any choice is allowed here.  *)
Store(p, k, v) ==
  \/ /\ k \in Held(p) \/ Cardinality(Held(p)) < MaxEntries[p]
     /\ caches' = [caches EXCEPT ![p][k] = v]
  \/ /\ k \notin Held(p) /\ Cardinality(Held(p)) >= MaxEntries[p]
     /\ \E victim \in Held(p) :
          caches' = [caches EXCEPT ![p] = [@ EXCEPT ![victim] = None, ![k] = v]]

(* The per-profile TTL elapses; ttl_seconds = 0 becomes math.inf. *)
Expire(p, k) ==
  /\ TtlSeconds[p] > 0
  /\ caches[p][k] # None
  /\ caches' = [caches EXCEPT ![p][k] = None]
  /\ UNCHANGED <<indexes, counters, ret>>

-----------------------------------------------------------------------------
(* CacheBackend methods.                                                   *)

GetUnknown(k) ==
  /\ MayCall
  /\ key_profile[k] = None
  /\ counters' = [counters EXCEPT !.misses = @ + 1]
  /\ ret' = None
  /\ UNCHANGED <<caches, indexes>>

GetDangling(k) ==
  /\ MayCall
  /\ key_profile[k] # None
  /\ caches[key_profile[k]][k] = None
  /\ key_profile' = [key_profile EXCEPT ![k] = None]
  /\ counters' = [counters EXCEPT !.misses = @ + 1]
  /\ ret' = None
  /\ UNCHANGED <<caches, rule_index, tag_index>>

GetHit(k) ==
  /\ MayCall
  /\ key_profile[k] # None
  /\ caches[key_profile[k]][k] # None
  /\ counters' = [counters EXCEPT !.hits = @ + 1]
  /\ ret' = caches[key_profile[k]][k]
  /\ UNCHANGED <<caches, indexes>>

Get(k) == GetUnknown(k) \/ GetDangling(k) \/ GetHit(k)

(* Plain set: no indexes, first profile; only for keys outside any rule. *)
Set(k, v) ==
  /\ MayCall
  /\ RuleOf[k] = None
  /\ Store(FirstProfile, k, v)
  /\ key_profile' = [key_profile EXCEPT ![k] = FirstProfile]
  /\ counters' = [counters EXCEPT !.sets = @ + 1]
  /\ ret' = None
  /\ UNCHANGED <<rule_index, tag_index>>

(* Mutant: setdefault(index, {key}) without the add. *)
SetWithIndexesFirstKey(k, v) ==
  /\ MayCall
  /\ RuleOf[k] # None
  /\ Store(ProfileOf[k], k, v)
  /\ key_profile' = [key_profile EXCEPT ![k] = ProfileOf[k]]
  /\ rule_index' = [rule_index EXCEPT ![RuleOf[k]] = IF @ = {} THEN {k} ELSE @]
  /\ tag_index' = [t \in Tag |-> IF t \in TagsOf[k] /\ tag_index[t] = {}
                                 THEN {k} ELSE tag_index[t]]
  /\ counters' = [counters EXCEPT !.sets = @ + 1]
  /\ ret' = None

(* The production write, with the context the interceptor fixes per key. *)
SetWithIndexes(k, v) ==
  /\ MayCall
  /\ RuleOf[k] # None
  /\ Store(ProfileOf[k], k, v)
  /\ key_profile' = [key_profile EXCEPT ![k] = ProfileOf[k]]
  /\ rule_index' = [rule_index EXCEPT ![RuleOf[k]] = @ \cup {k}]
  /\ tag_index' = [t \in Tag |-> IF t \in TagsOf[k] THEN tag_index[t] \cup {k}
                                 ELSE tag_index[t]]
  /\ counters' = [counters EXCEPT !.sets = @ + 1]
  /\ ret' = None

(* Mutant: pops from the first profile's cache only. *)
PopFirstProfile(keys) ==
  /\ caches' = [p \in Profile |-> [k \in Key |->
                  IF k \in keys /\ p = FirstProfile THEN None ELSE caches[p][k]]]
  /\ key_profile' = [k \in Key |-> IF k \in keys THEN None ELSE key_profile[k]]

(* key_profile.pop, then pop from the cache the reverse index named. *)
Pop(keys) ==
  /\ caches' = [p \in Profile |-> [k \in Key |->
                  IF k \in keys /\ key_profile[k] = p THEN None
                  ELSE caches[p][k]]]
  /\ key_profile' = [k \in Key |-> IF k \in keys THEN None ELSE key_profile[k]]

(* Mutant: sets kept as a gauge of the entries. *)
DeleteUncounting(k) ==
  /\ Pop({k})
  /\ counters' = [counters EXCEPT !.sets = @ - 1]
  /\ UNCHANGED <<rule_index, tag_index, ret>>

Delete(k) ==
  /\ Pop({k})
  /\ UNCHANGED <<rule_index, tag_index, counters, ret>>

DelByRule(r) ==
  /\ MayCall
  /\ Pop(rule_index[r])
  /\ rule_index' = [rule_index EXCEPT ![r] = {}]
  /\ tag_index' = [t \in Tag |-> tag_index[t] \ rule_index[r]]
  /\ counters' = [counters EXCEPT !.invalidations = @ + 1]
  /\ ret' = None

(* Mutant: forgets the index and leaves the entries. *)
DelByTagIndexOnly(t) ==
  /\ MayCall
  /\ tag_index' = [tag_index EXCEPT ![t] = {}]
  /\ counters' = [counters EXCEPT !.invalidations = @ + 1]
  /\ ret' = None
  /\ UNCHANGED <<caches, key_profile, rule_index>>

(* Only the rule indexes are cleaned: the other tags keep the keys. *)
DelByTag(t) ==
  /\ MayCall
  /\ Pop(tag_index[t])
  /\ tag_index' = [tag_index EXCEPT ![t] = {}]
  /\ rule_index' = [r \in Rule |-> rule_index[r] \ tag_index[t]]
  /\ counters' = [counters EXCEPT !.invalidations = @ + 1]
  /\ ret' = None

Flush ==
  /\ caches' = [p \in Profile |-> [k \in Key |-> None]]
  /\ key_profile' = [k \in Key |-> None]
  /\ rule_index' = [r \in Rule |-> {}]
  /\ tag_index' = [t \in Tag |-> {}]
  /\ UNCHANGED <<counters, ret>>

Next ==
  \/ \E k \in Key : Get(k)
  \/ \E k \in Key, v \in Value : Set(k, v)
  \/ \E k \in Key, v \in Value : SetWithIndexes(k, v)
  \/ \E k \in Key : Delete(k)
  \/ \E r \in Rule : DelByRule(r)
  \/ \E t \in Tag : DelByTag(t)
  \/ Flush
  \/ \E p \in Profile, k \in Key : Expire(p, k)

Spec == Init /\ [][Next]_vars

-----------------------------------------------------------------------------
(* An entry is held only by the cache its reverse index names: a copy in   *)
(* any other profile would outlive every delete (get, delete and both      *)
(* invalidations go through key_profile).                                  *)
Placed == \A p \in Profile, k \in Key :
            caches[p][k] # None => key_profile[k] = p

(* Every held entry written with indexes can be found by the invalidation  *)
(* of its rule and of each of its tags, whatever evictions, expiries and   *)
(* partial index cleanups happened before.                                 *)
Indexed == \A p \in Profile, k \in Key :
             (caches[p][k] # None /\ RuleOf[k] # None) =>
                /\ k \in rule_index[RuleOf[k]]
                /\ \A t \in TagsOf[k] : k \in tag_index[t]

(* The indexes, dangling keys included, never lead an invalidation to a    *)
(* key of another rule or without the tag.                                 *)
IndexSound ==
  /\ \A r \in Rule : \A k \in rule_index[r] : RuleOf[k] = r
  /\ \A t \in Tag : \A k \in tag_index[t] : t \in TagsOf[k]

(* A key only ever lives in one profile, that of its rule, or the first    *)
(* one when no rule covers it: what keeps Placed across a rewrite.         *)
Home(k) == IF RuleOf[k] = None THEN FirstProfile ELSE ProfileOf[k]

AtHome == \A p \in Profile, k \in Key : caches[p][k] # None => p = Home(k)

IInv == TypeOK /\ AtHome /\ Placed /\ Indexed /\ IndexSound

(* No profile's TTLCache outgrows its max_entries. *)
WithinCapacity == \A p \in Profile : Cardinality(Held(p)) <= MaxEntries[p]

(* The promise of the Protocol: refinement of CacheBackend, reading `live` *)
(* through the reverse index as get does.                                  *)
Live == [k \in Key |-> IF key_profile[k] = None THEN None
                       ELSE caches[key_profile[k]][k]]

Protocol == INSTANCE CacheBackend WITH live <- Live

ImplementsProtocol == Protocol!Spec
=============================================================================
