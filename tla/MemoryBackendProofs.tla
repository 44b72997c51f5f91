------------------------ MODULE MemoryBackendProofs ------------------------
(***************************************************************************)
(* For every set of keys, profiles, rules and tags: MemoryBackend keeps    *)
(* its caches and its three indexes consistent, and implements the         *)
(* CacheBackend Protocol.  For any number of queries and mutations on top  *)
(* of it: the request path implements CacheAside, and so what              *)
(* CacheAsideProofs shows of entries out of date holds of its caches.      *)
(***************************************************************************)
EXTENDS MemoryCacheAside, FiniteSetTheorems, TLAPS

LEMMA RulesAndProfiles ==
  /\ None \notin Value /\ None \notin Rule /\ None \notin Profile
  /\ FirstProfile \in Profile
  /\ \A k \in Key : /\ RuleOf[k] \in Rule \cup {None}
                    /\ TagsOf[k] \in SUBSET Tag
                    /\ ProfileOf[k] \in Profile
BY MemoryAssumption

(* The counters stay counters when one of them is bumped. *)
LEMMA Bump ==
  ASSUME counters \in CacheCounters
  PROVE  /\ [counters EXCEPT !.hits = @ + 1] \in CacheCounters
         /\ [counters EXCEPT !.misses = @ + 1] \in CacheCounters
         /\ [counters EXCEPT !.sets = @ + 1] \in CacheCounters
         /\ [counters EXCEPT !.invalidations = @ + 1] \in CacheCounters
BY DEF CacheCounters

LEMMA InitInv == Init => IInv
BY RulesAndProfiles DEF Init, IInv, TypeOK, CacheCounters, AtHome, Placed, Indexed, IndexSound

(* A store changes one cache, where the new entry ends up. *)
LEMMA StoreEffect ==
  ASSUME TypeOK, NEW p \in Profile, NEW k \in Key, NEW v \in Value, Store(p, k, v)
  PROVE  /\ caches' \in [Profile -> [Key -> Value \cup {None}]]
         /\ caches'[p][k] = v
         /\ \A q \in Profile, j \in Key :
              (q # p \/ j # k) => caches'[q][j] \in {caches[q][j], None}
         /\ \A q \in Profile, j \in Key : q # p => caches'[q][j] = caches[q][j]
<1>1. CASE /\ k \in Held(p) \/ Cardinality(Held(p)) < MaxEntries[p]
           /\ caches' = [caches EXCEPT ![p][k] = v]
  BY <1>1 DEF TypeOK
<1>2. ASSUME NEW victim \in Held(p), k \notin Held(p),
             caches' = [caches EXCEPT ![p] = [@ EXCEPT ![victim] = None, ![k] = v]]
      PROVE  /\ caches' \in [Profile -> [Key -> Value \cup {None}]]
             /\ caches'[p][k] = v
             /\ \A q \in Profile, j \in Key :
                  (q # p \/ j # k) => caches'[q][j] \in {caches[q][j], None}
             /\ \A q \in Profile, j \in Key : q # p => caches'[q][j] = caches[q][j]
  BY <1>2 DEF TypeOK, Held
<1> QED  BY <1>1, <1>2 DEF Store

(* Popping a set of keys removes them and touches nothing else. *)
LEMMA PopEffect ==
  ASSUME TypeOK, Placed, NEW keys \in SUBSET Key, Pop(keys)
  PROVE  /\ caches' \in [Profile -> [Key -> Value \cup {None}]]
         /\ key_profile' \in [Key -> Profile \cup {None}]
         /\ \A p \in Profile, k \in Key :
              caches'[p][k] = IF k \in keys THEN None ELSE caches[p][k]
         /\ \A k \in Key :
              key_profile'[k] = IF k \in keys THEN None ELSE key_profile[k]
BY DEF TypeOK, Placed, Pop

LEMMA NextInv == IInv /\ [Next]_vars => IInv'
<1> SUFFICES ASSUME IInv, [Next]_vars PROVE IInv'
  OBVIOUS
<1> USE DEF IInv
<1>1. ASSUME NEW k \in Key, Get(k) PROVE IInv'
  <2>1. CASE GetUnknown(k)
    <3>1. TypeOK'
      BY <2>1, Bump DEF GetUnknown, indexes, TypeOK
    <3>2. AtHome' /\ Placed' /\ Indexed' /\ IndexSound'
      BY <2>1 DEF GetUnknown, indexes, AtHome, Placed, Indexed, IndexSound
    <3> QED  BY <3>1, <3>2
  <2>2. CASE GetDangling(k)
    <3>1. TypeOK'
      BY <2>2, Bump DEF GetDangling, TypeOK
    <3>2. AtHome' /\ Placed'
      BY <2>2 DEF GetDangling, TypeOK, AtHome, Placed
    <3>3. Indexed' /\ IndexSound'
      BY <2>2 DEF GetDangling, Indexed, IndexSound
    <3> QED  BY <3>1, <3>2, <3>3
  <2>3. CASE GetHit(k)
    <3>1. TypeOK'
      BY <2>3, Bump, RulesAndProfiles DEF GetHit, indexes, TypeOK
    <3>2. AtHome' /\ Placed' /\ Indexed' /\ IndexSound'
      BY <2>3 DEF GetHit, indexes, AtHome, Placed, Indexed, IndexSound
    <3> QED  BY <3>1, <3>2
  <2> QED  BY <1>1, <2>1, <2>2, <2>3 DEF Get
<1>2. ASSUME NEW k \in Key, NEW v \in Value, Set(k, v) PROVE IInv'
  <2>1. Store(FirstProfile, k, v) /\ RuleOf[k] = None /\ FirstProfile \in Profile
    BY <1>2, RulesAndProfiles DEF Set
  <2>2. TypeOK'
    BY <1>2, <2>1, StoreEffect, Bump DEF Set, TypeOK
  <2>3. AtHome'
    BY <1>2, <2>1, StoreEffect DEF Set, AtHome, Home
  <2>4. Placed'
    BY <1>2, <2>1, <2>3, StoreEffect DEF Set, TypeOK, Placed, AtHome, Home
  <2>5. Indexed' /\ IndexSound'
    BY <1>2, <2>1, StoreEffect DEF Set, TypeOK, Indexed, IndexSound
  <2> QED  BY <2>2, <2>3, <2>4, <2>5
<1>3. ASSUME NEW k \in Key, NEW v \in Value, SetWithIndexes(k, v) PROVE IInv'
  <2>1. Store(ProfileOf[k], k, v) /\ RuleOf[k] \in Rule /\ ProfileOf[k] \in Profile
    BY <1>3, RulesAndProfiles DEF SetWithIndexes
  <2>2. TypeOK'
    BY <1>3, <2>1, StoreEffect, Bump, RulesAndProfiles DEF SetWithIndexes, TypeOK
  <2>3. AtHome'
    BY <1>3, <2>1, StoreEffect DEF SetWithIndexes, AtHome, Home
  <2>4. Placed'
    BY <1>3, <2>1, <2>3, StoreEffect DEF SetWithIndexes, TypeOK, Placed, AtHome, Home
  <2>5. Indexed'
    BY <1>3, <2>1, StoreEffect, RulesAndProfiles DEF SetWithIndexes, TypeOK, Indexed
  <2>6. IndexSound'
    BY <1>3, <2>1, RulesAndProfiles DEF SetWithIndexes, TypeOK, IndexSound
  <2> QED  BY <2>2, <2>3, <2>4, <2>5, <2>6
<1>4. ASSUME NEW k \in Key, Delete(k) PROVE IInv'
  <2>1. Pop({k}) /\ {k} \in SUBSET Key
    BY <1>4 DEF Delete
  <2>2. TypeOK'
    BY <1>4, <2>1, PopEffect DEF Delete, TypeOK
  <2>3. AtHome' /\ Placed' /\ Indexed' /\ IndexSound'
    BY <1>4, <2>1, PopEffect DEF Delete, AtHome, Placed, Indexed, IndexSound
  <2> QED  BY <2>2, <2>3
<1>5. ASSUME NEW r \in Rule, DelByRule(r) PROVE IInv'
  <2>1. Pop(rule_index[r]) /\ rule_index[r] \in SUBSET Key
    BY <1>5 DEF DelByRule, TypeOK
  <2>2. TypeOK'
    BY <1>5, <2>1, PopEffect, Bump DEF DelByRule, TypeOK
  <2>3. AtHome' /\ Placed' /\ IndexSound'
    BY <1>5, <2>1, PopEffect DEF DelByRule, AtHome, Placed, IndexSound, TypeOK
  <2>4. Indexed'
    BY <1>5, <2>1, PopEffect, RulesAndProfiles DEF DelByRule, Indexed, TypeOK
  <2> QED  BY <2>2, <2>3, <2>4
<1>6. ASSUME NEW t \in Tag, DelByTag(t) PROVE IInv'
  <2>1. Pop(tag_index[t]) /\ tag_index[t] \in SUBSET Key
    BY <1>6 DEF DelByTag, TypeOK
  <2>2. TypeOK'
    BY <1>6, <2>1, PopEffect, Bump DEF DelByTag, TypeOK
  <2>3. AtHome' /\ Placed' /\ IndexSound'
    BY <1>6, <2>1, PopEffect DEF DelByTag, AtHome, Placed, IndexSound, TypeOK
  <2>4. Indexed'
    BY <1>6, <2>1, PopEffect, RulesAndProfiles DEF DelByTag, Indexed, TypeOK
  <2> QED  BY <2>2, <2>3, <2>4
<1>7. CASE Flush
  BY <1>7 DEF Flush, TypeOK, AtHome, Placed, Indexed, IndexSound
<1>8. ASSUME NEW p \in Profile, NEW k \in Key, Expire(p, k) PROVE IInv'
  <2>1. TypeOK'
    BY <1>8 DEF Expire, indexes, TypeOK
  <2>2. AtHome' /\ Placed' /\ Indexed' /\ IndexSound'
    BY <1>8 DEF Expire, indexes, TypeOK, AtHome, Placed, Indexed, IndexSound
  <2> QED  BY <2>1, <2>2
<1>9. CASE UNCHANGED vars
  BY <1>9 DEF vars, TypeOK, AtHome, Placed, Indexed, IndexSound
<1> QED  BY <1>1, <1>2, <1>3, <1>4, <1>5, <1>6, <1>7, <1>8, <1>9 DEF Next

(* Whatever is called, expires or is evicted, the three indexes stay       *)
(* consistent with the caches.                                             *)
THEOREM IndexConsistency == Spec => []IInv
<1>1. Init => IInv
  BY InitInv
<1>2. IInv /\ [Next]_vars => IInv'
  BY NextInv
<1> QED  BY <1>1, <1>2, PTL DEF Spec

(* Every variable of MemoryBackend keeps its type. *)
THEOREM TypeCorrect == Spec => []TypeOK
<1>1. IInv => TypeOK
  BY DEF IInv
<1> QED  BY <1>1, IndexConsistency, PTL

(* No entry is ever held outside the cache its reverse index names. *)
THEOREM AlwaysPlaced == Spec => []Placed
<1>1. IInv => Placed
  BY DEF IInv
<1> QED  BY <1>1, IndexConsistency, PTL

(* No held entry ever escapes the invalidation of its rule or of a tag. *)
THEOREM AlwaysIndexed == Spec => []Indexed
<1>1. IInv => Indexed
  BY DEF IInv
<1> QED  BY <1>1, IndexConsistency, PTL

-----------------------------------------------------------------------------
(* The refinement of CacheBackend.                                         *)

LEMMA LiveType == TypeOK => Live \in [Key -> Value \cup {None}]
BY DEF TypeOK, Live

LEMMA InitRefines == Init => Protocol!Init
BY DEF Init, Protocol!Init, Protocol!NoCounts, Live

(* A store is a Write that evicts what went missing. *)
LEMMA StoreRefines ==
  ASSUME IInv, NEW p \in Profile, NEW k \in Key, NEW v \in Value,
         Store(p, k, v), key_profile' = [key_profile EXCEPT ![k] = p],
         counters' = [counters EXCEPT !.sets = @ + 1], ret' = None
  PROVE  Protocol!Write(k, v)
<1> DEFINE Evicted == {j \in Key \ {k} : Live'[j] = None}
<1>1. /\ caches'[p][k] = v
      /\ \A q \in Profile, j \in Key :
           (q # p \/ j # k) => caches'[q][j] \in {caches[q][j], None}
  BY StoreEffect DEF IInv
<1>2. Live'[k] = v
  BY <1>1, RulesAndProfiles DEF Live, IInv, TypeOK
<1>3. \A j \in Key \ {k} : Live'[j] \in {Live[j], None}
  <2> TAKE j \in Key \ {k}
  <2>1. key_profile'[j] = key_profile[j]
    BY DEF IInv, TypeOK
  <2>2. CASE key_profile[j] = None
    BY <2>1, <2>2 DEF Live
  <2>3. CASE key_profile[j] \in Profile
    <3>1. caches'[key_profile[j]][j] \in {caches[key_profile[j]][j], None}
      BY <1>1, <2>3
    <3> QED  BY <2>1, <2>3, <3>1, RulesAndProfiles DEF Live
  <2> QED  BY <2>2, <2>3 DEF IInv, TypeOK
<1>4. Live' = [[j \in Key |-> IF j \in Evicted THEN None ELSE Live[j]]
                 EXCEPT ![k] = v]
  <2> DEFINE g == [j \in Key |-> IF j \in Evicted THEN None ELSE Live[j]]
  <2>1. \A j \in Key : Live'[j] = [g EXCEPT ![k] = v][j]
    BY <1>2, <1>3
  <2>2. Live' = [j \in Key |-> Live'[j]]
    BY DEF Live
  <2> QED  BY <2>1, <2>2
<1>5. Evicted \in SUBSET (Key \ {k})
  OBVIOUS
<1> QED  BY <1>4, <1>5 DEF Protocol!Write, Protocol!Without

(* Popping what an index holds removes exactly the live keys S, if the     *)
(* index holds every live key of S and no key outside S.                   *)
LEMMA PopRefines ==
  ASSUME IInv, NEW keys \in SUBSET Key, NEW S \in SUBSET Key, Pop(keys),
         keys \subseteq S, \A k \in S : Live[k] # None => k \in keys
  PROVE  Live' = [k \in Key |-> IF k \in S THEN None ELSE Live[k]]
<1>1. /\ \A p \in Profile, k \in Key :
           caches'[p][k] = IF k \in keys THEN None ELSE caches[p][k]
      /\ \A k \in Key :
           key_profile'[k] = IF k \in keys THEN None ELSE key_profile[k]
  BY PopEffect DEF IInv
<1>2. \A k \in Key : Live'[k] = IF k \in keys THEN None ELSE Live[k]
  BY <1>1 DEF Live, IInv, TypeOK
<1>3. \A k \in Key : Live'[k] = IF k \in S THEN None ELSE Live[k]
  BY <1>2
<1>4. Live' = [k \in Key |-> Live'[k]]
  BY DEF Live
<1> QED  BY <1>3, <1>4

(* A lookup answers for the entry its reverse index names. *)
LEMMA GetRefines ==
  ASSUME IInv, NEW k \in Key, Get(k)
  PROVE  Protocol!Get(k)
<1>1. CASE GetUnknown(k)
  BY <1>1 DEF GetUnknown, indexes, Live, Protocol!Get
<1>2. CASE GetDangling(k)
  <2>1. Live' = Live
    BY <1>2 DEF GetDangling, Live, IInv, TypeOK
  <2>2. Live[k] = None
    BY <1>2 DEF GetDangling, Live
  <2> QED  BY <1>2, <2>1, <2>2 DEF GetDangling, Protocol!Get
<1>3. CASE GetHit(k)
  <2>1. Live' = Live
    BY <1>3 DEF GetHit, indexes, Live
  <2>2. Live[k] = ret' /\ Live[k] # None
    BY <1>3 DEF GetHit, Live
  <2> QED  BY <1>3, <2>1, <2>2 DEF GetHit, Protocol!Get
<1> QED  BY <1>1, <1>2, <1>3 DEF Get

(* A deletion removes the entries of its rule or tag, all of which the     *)
(* index names.                                                            *)
LEMMA DelByRuleRefines ==
  ASSUME IInv, NEW r \in Rule, DelByRule(r)
  PROVE  Protocol!DelByRule(r)
<1> DEFINE S == {k \in Key : RuleOf[k] = r}
<1>1. rule_index[r] \subseteq S /\ rule_index[r] \in SUBSET Key
  BY DEF IInv, TypeOK, IndexSound
<1>2. \A k \in S : Live[k] # None => k \in rule_index[r]
  BY RulesAndProfiles DEF IInv, TypeOK, Indexed, Live
<1>3. Live' = [k \in Key |-> IF k \in S THEN None ELSE Live[k]]
  BY <1>1, <1>2, PopRefines DEF DelByRule
<1> QED  BY <1>3 DEF DelByRule, Protocol!DelByRule, Protocol!Invalidate,
                        Protocol!Without

LEMMA DelByTagRefines ==
  ASSUME IInv, NEW t \in Tag, DelByTag(t)
  PROVE  Protocol!DelByTag(t)
<1> DEFINE S == {k \in Key : t \in TagsOf[k]}
<1>1. tag_index[t] \subseteq S /\ tag_index[t] \in SUBSET Key
  BY DEF IInv, TypeOK, IndexSound
<1>2. \A k \in S : Live[k] # None => k \in tag_index[t]
  <2> SUFFICES ASSUME NEW k \in S, Live[k] # None PROVE k \in tag_index[t]
    OBVIOUS
  <2>1. key_profile[k] \in Profile /\ caches[key_profile[k]][k] # None
    BY DEF IInv, TypeOK, Live
  <2>2. RuleOf[k] # None
    BY MemoryAssumption
  <2> QED  BY <2>1, <2>2 DEF IInv, Indexed
<1>3. Live' = [k \in Key |-> IF k \in S THEN None ELSE Live[k]]
  BY <1>1, <1>2, PopRefines DEF DelByTag
<1> QED  BY <1>3 DEF DelByTag, Protocol!DelByTag, Protocol!Invalidate,
                        Protocol!Without

(* An expiry is noticed through the reverse index only. *)
LEMMA ExpireRefines ==
  ASSUME IInv, NEW p \in Profile, NEW k \in Key, Expire(p, k)
  PROVE  Protocol!Drop({k})
<1>1. key_profile[k] = p /\ p # None
  BY RulesAndProfiles DEF Expire, IInv, Placed
<1>2. Live' = [j \in Key |-> IF j \in {k} THEN None ELSE Live[j]]
  BY <1>1 DEF Expire, indexes, Live, IInv, TypeOK
<1> QED  BY <1>2 DEF Expire, Protocol!Drop, Protocol!Without

LEMMA NextRefines ==
  IInv /\ [Next]_vars => [Protocol!Next]_(Protocol!backendVars)
<1> SUFFICES ASSUME IInv, [Next]_vars
             PROVE  [Protocol!Next]_(Protocol!backendVars)
  OBVIOUS
<1>1. ASSUME NEW k \in Key, Get(k) PROVE Protocol!Get(k)
  BY <1>1, GetRefines
<1>2. ASSUME NEW k \in Key, NEW v \in Value, Set(k, v) PROVE Protocol!Write(k, v)
  BY <1>2, StoreRefines, RulesAndProfiles DEF Set
<1>3. ASSUME NEW k \in Key, NEW v \in Value, SetWithIndexes(k, v)
      PROVE  Protocol!Write(k, v)
  BY <1>3, StoreRefines, RulesAndProfiles DEF SetWithIndexes
<1>4. ASSUME NEW k \in Key, Delete(k) PROVE Protocol!Drop({k})
  <2>1. Live' = [j \in Key |-> IF j \in {k} THEN None ELSE Live[j]]
    BY <1>4, PopRefines DEF Delete
  <2> QED  BY <1>4, <2>1 DEF Delete, Protocol!Drop, Protocol!Without
<1>5. ASSUME NEW r \in Rule, DelByRule(r) PROVE Protocol!DelByRule(r)
  BY <1>5, DelByRuleRefines
<1>6. ASSUME NEW t \in Tag, DelByTag(t) PROVE Protocol!DelByTag(t)
  BY <1>6, DelByTagRefines
<1>7. CASE Flush
  <2>1. Live' = [k \in Key |-> IF k \in Key THEN None ELSE Live[k]]
    BY <1>7 DEF Flush, Live
  <2>2. Protocol!Drop(Key)
    BY <1>7, <2>1 DEF Flush, Protocol!Drop, Protocol!Without
  <2> QED  BY <2>2 DEF Protocol!Next
<1>8. ASSUME NEW p \in Profile, NEW k \in Key, Expire(p, k) PROVE Protocol!Drop({k})
  BY <1>8, ExpireRefines
<1>9. CASE UNCHANGED vars
  BY <1>9 DEF vars, Live, Protocol!backendVars
<1> QED
  BY <1>1, <1>2, <1>3, <1>4, <1>5, <1>6, <1>7, <1>8, <1>9 DEF Next, Protocol!Next

(* MemoryBackend implements the Protocol: whatever its evictions, expiries *)
(* and dangling index entries, callers see one map from which a deletion   *)
(* by rule or by tag removes exactly the keys of that rule or tag.         *)
THEOREM Refinement == Spec => ImplementsProtocol
<1>1. Init => Protocol!Init
  BY InitRefines
<1>2. IInv /\ [Next]_vars => [Protocol!Next]_(Protocol!backendVars)
  BY NextRefines
<1> QED
  BY <1>1, <1>2, IndexConsistency, PTL DEF Spec, ImplementsProtocol, Protocol!Spec
-----------------------------------------------------------------------------
(* Capacity.                                                               *)

Bounded == \A p \in Profile : /\ IsFiniteSet(Held(p))
                              /\ Cardinality(Held(p)) <= MaxEntries[p]

LEMMA Shrinking ==
  ASSUME Bounded, \A p \in Profile, k \in Key : caches'[p][k] \in {caches[p][k], None}
  PROVE  Bounded'
<1> SUFFICES ASSUME NEW p \in Profile
             PROVE  IsFiniteSet(Held(p)') /\ Cardinality(Held(p)') <= MaxEntries[p]
  BY DEF Bounded
<1>1. Held(p)' \subseteq Held(p)
  BY DEF Held
<1>2. /\ IsFiniteSet(Held(p)') /\ Cardinality(Held(p)') <= Cardinality(Held(p))
      /\ Cardinality(Held(p)') \in Nat /\ Cardinality(Held(p)) \in Nat
  BY <1>1, FS_Subset, FS_CardinalityType DEF Bounded
<1>3. Cardinality(Held(p)) <= MaxEntries[p] /\ MaxEntries[p] \in Nat
  BY MemoryAssumption DEF Bounded
<1> QED  BY <1>2, <1>3

(* A store that grows a cache beyond its size takes an entry out first. *)
LEMMA StoreBounded ==
  ASSUME TypeOK, Bounded, NEW p \in Profile, NEW k \in Key, NEW v \in Value,
         Store(p, k, v)
  PROVE  Bounded'
<1> SUFFICES ASSUME NEW q \in Profile
             PROVE  IsFiniteSet(Held(q)') /\ Cardinality(Held(q)') <= MaxEntries[q]
  BY DEF Bounded
<1>1. /\ IsFiniteSet(Held(q)) /\ Cardinality(Held(q)) \in Nat
      /\ Cardinality(Held(q)) <= MaxEntries[q] /\ MaxEntries[q] \in Nat
  BY FS_CardinalityType, MemoryAssumption DEF Bounded
<1>2. CASE q # p
  <2>1. Held(q)' = Held(q)
    BY <1>2, StoreEffect DEF Held
  <2> QED  BY <1>1, <2>1
<1>3. ASSUME q = p, k \in Held(p) \/ Cardinality(Held(p)) < MaxEntries[p],
             caches' = [caches EXCEPT ![p][k] = v]
      PROVE  IsFiniteSet(Held(q)') /\ Cardinality(Held(q)') <= MaxEntries[q]
  <2>1. Held(q)' = Held(q) \cup {k}
    BY <1>3, RulesAndProfiles DEF Held, TypeOK
  <2>2. /\ IsFiniteSet(Held(q) \cup {k})
        /\ Cardinality(Held(q) \cup {k}) =
             IF k \in Held(q) THEN Cardinality(Held(q)) ELSE Cardinality(Held(q)) + 1
    BY <1>1, FS_AddElement
  <2>3. Cardinality(Held(q) \cup {k}) <= MaxEntries[q]
    BY <1>1, <1>3, <2>2
  <2> QED  BY <2>1, <2>2, <2>3
<1>4. ASSUME q = p, NEW victim \in Held(p), k \notin Held(p),
             caches' = [caches EXCEPT ![p] = [@ EXCEPT ![victim] = None, ![k] = v]]
      PROVE  IsFiniteSet(Held(q)') /\ Cardinality(Held(q)') <= MaxEntries[q]
  <2>1. Held(q)' = (Held(q) \ {victim}) \cup {k}
    BY <1>4, RulesAndProfiles DEF Held, TypeOK
  <2>2. /\ IsFiniteSet(Held(q) \ {victim})
        /\ Cardinality(Held(q) \ {victim}) = Cardinality(Held(q)) - 1
    BY <1>1, <1>4, FS_RemoveElement
  <2> DEFINE Rest == Held(q) \ {victim}
  <2>3. k \notin Rest
    BY <1>4
  <2>4. IsFiniteSet(Rest \cup {k}) /\ Cardinality(Rest \cup {k}) = Cardinality(Rest) + 1
    <3> HIDE DEF Rest
    <3> QED  BY <2>2, <2>3, FS_AddElement DEF Rest
  <2>5. Cardinality(Rest \cup {k}) <= MaxEntries[q]
    BY <1>1, <2>2, <2>4
  <2> QED  BY <2>1, <2>4, <2>5
<1> QED  BY <1>2, <1>3, <1>4 DEF Store

LEMMA NextBounded == IInv /\ Bounded /\ [Next]_vars => Bounded'
<1> SUFFICES ASSUME IInv, Bounded, [Next]_vars PROVE Bounded'
  OBVIOUS
<1>1. ASSUME NEW k \in Key, Get(k) PROVE Bounded'
  BY <1>1, Shrinking DEF Get, GetUnknown, GetDangling, GetHit
<1>2. ASSUME NEW k \in Key, NEW v \in Value, Set(k, v) PROVE Bounded'
  BY <1>2, StoreBounded, RulesAndProfiles DEF Set, IInv
<1>3. ASSUME NEW k \in Key, NEW v \in Value, SetWithIndexes(k, v) PROVE Bounded'
  BY <1>3, StoreBounded, RulesAndProfiles DEF SetWithIndexes, IInv
<1>4. ASSUME NEW keys \in SUBSET Key, Pop(keys) PROVE Bounded'
  BY <1>4, PopEffect, Shrinking DEF IInv
<1>5. ASSUME NEW k \in Key, Delete(k) PROVE Bounded'
  BY <1>4, <1>5 DEF Delete
<1>6. ASSUME NEW r \in Rule, DelByRule(r) PROVE Bounded'
  BY <1>4, <1>6 DEF DelByRule, IInv, TypeOK
<1>7. ASSUME NEW t \in Tag, DelByTag(t) PROVE Bounded'
  BY <1>4, <1>7 DEF DelByTag, IInv, TypeOK
<1>8. CASE Flush
  BY <1>8, Shrinking DEF Flush
<1>9. ASSUME NEW p \in Profile, NEW k \in Key, Expire(p, k) PROVE Bounded'
  BY <1>9, Shrinking DEF Expire, IInv, TypeOK
<1>10. CASE UNCHANGED vars
  BY <1>10, Shrinking DEF vars
<1> QED  BY <1>1, <1>2, <1>3, <1>5, <1>6, <1>7, <1>8, <1>9, <1>10 DEF Next

(* No profile ever holds more than its max_entries. *)
THEOREM Capacity == Spec => []WithinCapacity
<1>1. Init => Bounded
  <2> SUFFICES ASSUME Init, NEW p \in Profile
               PROVE  IsFiniteSet(Held(p)) /\ Cardinality(Held(p)) <= MaxEntries[p]
    BY DEF Bounded
  <2>1. Held(p) = {}
    BY DEF Init, Held
  <2>2. MaxEntries[p] \in Nat
    BY MemoryAssumption
  <2> QED  BY <2>1, <2>2, FS_EmptySet
<1>2. IInv /\ Bounded /\ [Next]_vars => Bounded'
  BY NextBounded
<1>3. Bounded => WithinCapacity
  BY DEF Bounded, WithinCapacity
<1> QED  BY <1>1, <1>2, <1>3, IndexConsistency, PTL DEF Spec
-----------------------------------------------------------------------------
(* The request path over MemoryBackend.  What CacheAsideProofs shows of    *)
(* the request path over one map holds of it through the refinement.       *)

PP == INSTANCE CacheAsideProofs WITH
  live <- Live,
  Expiring <- {k \in Key : TtlSeconds[Home(k)] > 0},
  BackendMayFail <- FALSE,
  Persistent <- FALSE

(* Path and PP are two instances of the same definitions. *)
LEMMA PathAssumption == PP!CacheAsideAssumption
BY MemoryPathAssumption
DEF Path!CacheAsideAssumption, PP!CacheAsideAssumption, Path!Target, PP!Target,
    Path!IsFiniteSet, PP!IsFiniteSet

LEMMA SameInit == Path!Init <=> PP!Init
BY DEF Path!Init, PP!Init, Path!Backend!Init, PP!Backend!Init, Path!Backend!NoCounts,
    PP!Backend!NoCounts, Path!Task, PP!Task, Path!NoErrors, PP!NoErrors

LEMMA SameTypes ==
  /\ Path!TypeOK <=> PP!TypeOK
  /\ Path!WellFormed <=> PP!WellFormed
BY DEF Path!TypeOK, PP!TypeOK, Path!Backend!TypeOK, PP!Backend!TypeOK,
    Path!Backend!CacheCounters, PP!Backend!CacheCounters, Path!Task, PP!Task,
    Path!Payload, PP!Payload, Path!Places, PP!Places, Path!WellFormed,
    PP!WellFormed

LEMMA SameQueries ==
  \A r \in Reader :
    /\ \A k \in Key : Path!BeginQuery(r, k) <=> PP!BeginQuery(r, k)
    /\ Path!QueryStep(r) <=> PP!QueryStep(r)
BY DEF Path!BeginQuery, PP!BeginQuery, Path!QueryStep, PP!QueryStep, Path!Acquire,
    PP!Acquire, Path!AcquireFails, PP!AcquireFails, Path!Lookup, PP!Lookup,
    Path!LookupFails, PP!LookupFails, Path!Select, PP!Select, Path!SelectFails,
    PP!SelectFails, Path!Fill, PP!Fill, Path!FillFails, PP!FillFails, Path!Cached,
    PP!Cached, Path!Goto, PP!Goto, Path!Count, PP!Count, Path!Raise, PP!Raise,
    Path!Release, PP!Release, Path!Snapshot, PP!Snapshot, Path!Cardinality,
    PP!Cardinality, Path!Backend!Get, PP!Backend!Get, Path!Backend!Write,
    PP!Backend!Write, Path!Backend!Without, PP!Backend!Without, Path!backend,
    PP!backend, Path!postgres, PP!postgres, Path!tasks, PP!tasks, Path!stats,
    PP!stats, Path!history, PP!history

LEMMA SameTargets ==
  \A w : /\ Path!Current(w) = PP!Current(w)
         /\ Path!Covered(Path!Current(w)) = PP!Covered(PP!Current(w))
BY DEF Path!Current, PP!Current, Path!Covered, PP!Covered

LEMMA SameMutations ==
  \A w \in Writer :
    /\ \A m \in Mutation : Path!BeginMutation(w, m) <=> PP!BeginMutation(w, m)
    /\ Path!MutationStep(w) <=> PP!MutationStep(w)
BY SameTargets
DEF Path!BeginMutation, PP!BeginMutation, Path!MutationStep, PP!MutationStep,
    Path!Acquire, PP!Acquire, Path!AcquireFails, PP!AcquireFails, Path!Update,
    PP!Update, Path!Commit, PP!Commit, Path!TransactionFails, PP!TransactionFails,
    Path!Invalidate, PP!Invalidate, Path!InvalidateFails, PP!InvalidateFails,
    Path!Goto, PP!Goto, Path!Count, PP!Count, Path!Raise, PP!Raise, Path!Release,
    PP!Release, Path!Unlock, PP!Unlock, Path!Apply, PP!Apply, Path!Overtake,
    PP!Overtake, Path!Cardinality, PP!Cardinality, Path!Backend!Invalidate,
    PP!Backend!Invalidate, Path!Backend!Without, PP!Backend!Without, Path!backend,
    PP!backend, Path!postgres, PP!postgres, Path!tasks, PP!tasks, Path!stats,
    PP!stats, Path!history, PP!history

LEMMA SamePathVars ==
  /\ Path!vars = PP!vars
  /\ UNCHANGED Path!vars <=> UNCHANGED PP!vars
BY DEF Path!vars, PP!vars, Path!backend, PP!backend, Path!postgres, PP!postgres,
  Path!tasks, PP!tasks, Path!stats, PP!stats, Path!history, PP!history

LEMMA SameNext == Path!Next <=> PP!Next
<1>1. \A k \in Key : Path!Expire(k) <=> PP!Expire(k)
  BY DEF Path!Expire, PP!Expire, Path!Backend!Drop, PP!Backend!Drop,
    Path!Backend!Without, PP!Backend!Without, Path!postgres, PP!postgres,
    Path!tasks, PP!tasks, Path!stats, PP!stats, Path!history, PP!history
<1>2. Path!Restart <=> PP!Restart
  BY DEF Path!Restart, PP!Restart, Path!Backend!NoCounts, PP!Backend!NoCounts,
    Path!NoErrors, PP!NoErrors, Path!Task, PP!Task
<1>3. Path!Finished <=> PP!Finished
  BY DEF Path!Finished, PP!Finished, Path!Task, PP!Task, Path!Over, PP!Over, Path!vars,
    PP!vars, Path!backend, PP!backend, Path!postgres, PP!postgres, Path!tasks, PP!tasks,
    Path!stats, PP!stats, Path!history, PP!history
<1> QED  BY <1>1, <1>2, <1>3, SameQueries, SameMutations DEF Path!Next, PP!Next
(* What the invocations have fixed, and the indexes of the backend. *)
PathInv == IInv /\ Path!TypeOK /\ Path!WellFormed

(* What a call of the backend is given. *)
LEMMA CallArguments ==
  ASSUME PathInv
  PROVE  /\ \A r \in Reader : pc[r] \in {"get", "fill"} => key[r] \in Key
         /\ \A r \in Reader : pc[r] = "fill" => got[r] \in Value
         /\ \A w \in Writer : pc[w] = "invalidate" =>
              /\ Path!Current(w).by = "rule" => Path!Current(w).of \in Rule
              /\ Path!Current(w).by = "tag" => Path!Current(w).of \in Tag
<1>1. ASSUME NEW w \in Writer, pc[w] = "invalidate" PROVE Path!Current(w) \in Path!Target
  <2>1. mut[w] \in Mutation /\ pos[w] <= Len(Targets[mut[w]]) /\ pos[w] \in Nat \ {0}
    BY <1>1 DEF PathInv, Path!TypeOK, Path!WellFormed
  <2>2. Targets[mut[w]] \in Seq(Path!Target)
    BY <2>1, MemoryPathAssumption DEF Path!CacheAsideAssumption
  <2> QED  BY <2>1, <2>2 DEF Path!Current
<1> QED  BY <1>1, MemoryPathAssumption DEF PathInv, Path!WellFormed, Path!Target

(* The Protocol is the backend of Path. *)
LEMMA SameBackend ==
  /\ \A k \in Key : Protocol!Get(k) => Path!Backend!Get(k)
  /\ \A k \in Key, v \in Value : Protocol!Write(k, v) => Path!Backend!Write(k, v)
  /\ \A S \in SUBSET Key : /\ Protocol!Invalidate(S) => Path!Backend!Invalidate(S)
                           /\ Protocol!Drop(S) => Path!Backend!Drop(S)
BY DEF Protocol!Get, Path!Backend!Get, Protocol!Write, Path!Backend!Write, Protocol!Without,
       Path!Backend!Without, Protocol!Invalidate, Path!Backend!Invalidate, Protocol!Drop,
       Path!Backend!Drop

LEMMA LookupRefines ==
  ASSUME PathInv, NEW r \in Reader, Lookup(r) PROVE Path!Lookup(r)
<1>1. key[r] \in Key /\ Get(key[r])
  <2>1. pc[r] = "get" /\ Get(key[r])
    BY DEF Lookup
  <2> QED  BY <2>1, CallArguments
<1>2. Path!Backend!Get(key[r]) /\ ret' = Live[key[r]]
  BY <1>1, GetRefines, SameBackend DEF PathInv, Protocol!Get
<1> QED  BY <1>2 DEF Lookup, Path!Lookup, Path!postgres, Path!tasks, Path!stats, Path!history

LEMMA FillRefines ==
  ASSUME PathInv, NEW r \in Reader, Fill(r) PROVE Path!Fill(r)
<1>1. key[r] \in Key /\ got[r] \in Value /\ SetWithIndexes(key[r], got[r])
  <2>1. pc[r] = "fill" /\ SetWithIndexes(key[r], got[r])
    BY DEF Fill
  <2> QED  BY <2>1, CallArguments
<1>2. Protocol!Write(key[r], got[r])
  BY <1>1, StoreRefines, RulesAndProfiles DEF SetWithIndexes, PathInv
<1>3. Path!Backend!Write(key[r], got[r])
  BY <1>1, <1>2, SameBackend
<1> QED  BY <1>3 DEF Fill, Path!Fill, Path!postgres, Path!stats

LEMMA InvalidateRefines ==
  ASSUME PathInv, NEW w \in Writer, Invalidate(w) PROVE Path!Invalidate(w)
<1> DEFINE target == Path!Current(w)
<1>1. pc[w] = "invalidate"
  BY DEF Invalidate
<1>2. CASE target.by = "rule" /\ DelByRule(target.of)
  <2>1. Protocol!DelByRule(target.of)
    BY <1>1, <1>2, CallArguments, DelByRuleRefines DEF PathInv
  <2>2. Protocol!Invalidate(Path!Covered(target))
    BY <1>2, <2>1 DEF Protocol!DelByRule, Path!Covered
  <2> QED
    BY <1>2, <2>2, SameBackend DEF Invalidate, Path!Invalidate, Path!Covered, Path!postgres, Path!stats
<1>3. CASE target.by = "tag" /\ DelByTag(target.of)
  <2>1. Protocol!DelByTag(target.of)
    BY <1>1, <1>3, CallArguments, DelByTagRefines DEF PathInv
  <2>2. Protocol!Invalidate(Path!Covered(target))
    BY <1>3, <2>1 DEF Protocol!DelByTag, Path!Covered
  <2> QED
    BY <1>3, <2>2, SameBackend DEF Invalidate, Path!Invalidate, Path!Covered, Path!postgres, Path!stats
<1> QED  BY <1>2, <1>3 DEF Invalidate

(* An entry expires in the profile its reverse index names, which is the   *)
(* one of its rule.                                                        *)
LEMMA ExpiryRefines ==
  ASSUME PathInv, NEW p \in Profile, NEW k \in Key, Expire(p, k), UNCHANGED outside
  PROVE  Path!Expire(k)
<1>1. caches[p][k] # None /\ TtlSeconds[p] > 0
  BY DEF Expire
<1>2. p = Home(k) /\ key_profile[k] = p /\ p # None
  BY <1>1, RulesAndProfiles DEF PathInv, IInv, AtHome, Placed
<1>3. Live[k] # None
  BY <1>1, <1>2 DEF Live
<1>4. Path!Backend!Drop({k})
  BY ExpireRefines, SameBackend DEF PathInv
<1> QED
  BY <1>1, <1>2, <1>3, <1>4 DEF Path!Expire, outside, Path!postgres, Path!tasks, Path!stats, Path!history

LEMMA RestartRefines == ASSUME Restart PROVE Path!Restart
<1>1. Live' = [k \in Key |-> None]
  BY DEF Restart, Live
<1> QED  BY <1>1 DEF Restart, Path!Restart, Path!Backend!NoCounts

(* What a step of the path is to the backend and to CacheAside. *)
LEMMA PathStep ==
  ASSUME PathInv, PathNext
  PROVE  Path!Next /\ IInv'
<1>1. ASSUME NoCall PROVE IInv'
  BY <1>1, NextInv DEF NoCall, PathInv
<1>2. ASSUME Next PROVE IInv'
  BY <1>2, NextInv DEF PathInv
<1>3. ASSUME NEW r \in Reader, NEW k \in Key, NoCall, Path!BeginQuery(r, k)
      PROVE  Path!Next /\ IInv'
  BY <1>1, <1>3 DEF Path!Next
<1>4. ASSUME NEW r \in Reader, PathQueryStep(r) PROVE Path!Next /\ IInv'
  <2>1. ASSUME NoCall, \/ Path!Acquire(r) \/ Path!AcquireFails(r) \/ Path!Select(r)
                       \/ Path!SelectFails(r) \/ Path!FillFails(r)
        PROVE  Path!QueryStep(r) /\ IInv'
    BY <1>1, <2>1 DEF Path!QueryStep
  <2>2. ASSUME Lookup(r) PROVE Path!QueryStep(r) /\ IInv'
    <3>1. key[r] \in Key
      <4>1. pc[r] = "get"
        BY <2>2 DEF Lookup
      <4> QED  BY <4>1, CallArguments
    <3>2. Get(key[r])
      BY <2>2 DEF Lookup
    <3>3. IInv'
      BY <1>2, <3>1, <3>2 DEF Next
    <3>4. Path!Lookup(r)
      BY <2>2, LookupRefines
    <3> QED  BY <3>3, <3>4 DEF Path!QueryStep
  <2>3. ASSUME Fill(r) PROVE Path!QueryStep(r) /\ IInv'
    <3>1. key[r] \in Key /\ got[r] \in Value
      <4>1. pc[r] = "fill"
        BY <2>3 DEF Fill
      <4> QED  BY <4>1, CallArguments
    <3>2. SetWithIndexes(key[r], got[r])
      BY <2>3 DEF Fill
    <3>3. IInv'
      BY <1>2, <3>1, <3>2 DEF Next
    <3>4. Path!Fill(r)
      BY <2>3, FillRefines
    <3> QED  BY <3>3, <3>4 DEF Path!QueryStep
  <2>4. Path!QueryStep(r) /\ IInv'
    BY <1>4, <2>1, <2>2, <2>3 DEF PathQueryStep
  <2> QED  BY <2>4 DEF Path!Next
<1>5. ASSUME NEW w \in Writer, NEW m \in Mutation, NoCall, Path!BeginMutation(w, m)
      PROVE  Path!Next /\ IInv'
  BY <1>1, <1>5 DEF Path!Next
<1>6. ASSUME NEW w \in Writer, PathMutationStep(w) PROVE Path!Next /\ IInv'
  <2>1. ASSUME NoCall, \/ Path!Acquire(w) \/ Path!AcquireFails(w) \/ Path!Update(w)
                       \/ Path!Commit(w) \/ Path!TransactionFails(w)
                       \/ Path!InvalidateFails(w)
        PROVE  Path!MutationStep(w) /\ IInv'
    BY <1>1, <2>1 DEF Path!MutationStep
  <2>2. ASSUME Invalidate(w) PROVE Path!MutationStep(w) /\ IInv'
    <3>1. pc[w] = "invalidate"
      BY <2>2 DEF Invalidate
    <3>2. \/ Path!Current(w).of \in Rule /\ DelByRule(Path!Current(w).of)
          \/ Path!Current(w).of \in Tag /\ DelByTag(Path!Current(w).of)
      BY <2>2, <3>1, CallArguments DEF Invalidate
    <3>3. IInv'
      BY <1>2, <3>2 DEF Next
    <3>4. Path!Invalidate(w)
      BY <2>2, InvalidateRefines
    <3> QED  BY <3>3, <3>4 DEF Path!MutationStep
  <2>3. Path!MutationStep(w) /\ IInv'
    BY <1>6, <2>1, <2>2 DEF PathMutationStep
  <2> QED  BY <2>3 DEF Path!Next
<1>7. ASSUME NEW p \in Profile, NEW k \in Key, Expire(p, k), UNCHANGED outside
      PROVE  Path!Next /\ IInv'
  <2>1. IInv'
    BY <1>2, <1>7 DEF Next
  <2>2. Path!Expire(k)
    BY <1>7, ExpiryRefines
  <2> QED  BY <2>1, <2>2 DEF Path!Next
<1>8. CASE Restart
  <2>1. IInv'
    BY <1>8, RulesAndProfiles
       DEF Restart, IInv, TypeOK, CacheCounters, AtHome, Placed, Indexed, IndexSound
  <2> QED  BY <1>8, <2>1, RestartRefines DEF Path!Next
<1>9. ASSUME NoCall, Path!Finished PROVE Path!Next /\ IInv'
  BY <1>1, <1>9 DEF Path!Next
<1> QED
  BY <1>3, <1>4, <1>5, <1>6, <1>7, <1>8, <1>9 DEF PathNext

LEMMA NextRefinesPath == PathInv /\ [PathNext]_pathVars => [Path!Next]_(Path!vars) /\ IInv'
<1>1. CASE PathNext
  BY <1>1, PathStep
<1>2. ASSUME PathInv, UNCHANGED pathVars PROVE UNCHANGED Path!vars /\ IInv'
  <2>1. UNCHANGED vars /\ UNCHANGED outside
    BY <1>2 DEF pathVars
  <2>2. IInv'
    BY <1>2, <2>1, NextInv DEF PathInv
  <2>3. UNCHANGED <<Live, counters, ret>>
    BY <2>1 DEF vars, Live
  <2> QED
    BY <2>1, <2>2, <2>3 DEF outside, Path!vars, Path!backend, Path!postgres, Path!tasks,
                            Path!stats, Path!history
<1> QED  BY <1>1, <1>2

LEMMA PathInitInv == PathInit => PathInv /\ Path!Init
<1> SUFFICES ASSUME PathInit PROVE PathInv /\ Path!Init
  OBVIOUS
<1>1. IInv
  BY InitInv DEF PathInit
<1>2. Path!Init
  BY DEF PathInit, Init, Live, Path!Init, Path!Backend!Init, Path!Backend!NoCounts
<1>3. PP!Typed
  BY <1>2, SameInit, PathAssumption, PP!InitTyped
<1> QED  BY <1>1, <1>2, <1>3, SameTypes DEF PathInv, PP!Typed

LEMMA PathNextInv == PathInv /\ [PathNext]_pathVars => PathInv'
<1> SUFFICES ASSUME PathInv, [PathNext]_pathVars PROVE PathInv'
  OBVIOUS
<1>1. [Path!Next]_(Path!vars) /\ IInv'
  BY NextRefinesPath
<1>2. [PP!Next]_(PP!vars)
  <2>1. CASE Path!Next
    BY <2>1, SameNext
  <2>2. CASE UNCHANGED Path!vars
    BY <2>2, SamePathVars
  <2> QED  BY <1>1, <2>1, <2>2
<1>3. PP!Typed
  BY SameTypes DEF PathInv, PP!Typed
<1>4. PP!Typed'
  BY <1>2, <1>3, PathAssumption, PP!NextTyped
<1>5. (Path!TypeOK /\ Path!WellFormed)'
  BY <1>4, SameTypes, PTL DEF PP!Typed
<1> QED  BY <1>1, <1>5 DEF PathInv

(* Over MemoryBackend the request path is the one of CacheAside. *)
THEOREM PathRefinement == PathSpec => ImplementsPath
<1>1. PathSpec => []PathInv
  BY PathInitInv, PathNextInv, PTL DEF PathSpec
<1> QED
  BY <1>1, PathInitInv, NextRefinesPath, PTL DEF PathSpec, ImplementsPath, Path!Spec

(* No TTLCache of MemoryBackend holds an out-of-date entry for another     *)
(* reason than those of StaleExplained: the staleness of CacheAside, with  *)
(* every entry where get looks for it.                                     *)
THEOREM MemoryStaleness == PathSpec => []MemoryStaleExplained
<1>1. PathSpec => []PathInv
  BY PathInitInv, PathNextInv, PTL DEF PathSpec
<1>2. Path!Init => PP!Init
  BY SameInit
<1>3. [Path!Next]_(Path!vars) => [PP!Next]_(PP!vars)
  BY SameNext, SamePathVars
<1>4. PathSpec => PP!Spec
  BY <1>2, <1>3, PathRefinement, PTL DEF ImplementsPath, Path!Spec, PP!Spec
<1>5. PP!Spec => []PP!StaleExplained
  BY PathAssumption, PP!Staleness
<1>6. PathInv /\ PP!StaleExplained => MemoryStaleExplained
  <2> SUFFICES ASSUME PathInv, PP!StaleExplained, NEW p \in Profile, NEW k \in Key,
                      NEW d \in Datum, caches[p][k] # None,
                      Path!Superseded(caches[p][k], k, d)
               PROVE  k \in tainted \/ Path!Explained(k, d)
    BY DEF MemoryStaleExplained
  <2>1. Live[k] = caches[p][k]
    BY RulesAndProfiles DEF PathInv, IInv, Placed, Live
  <2>2. PP!Superseded(Live[k], k, d)
    BY <2>1 DEF Path!Superseded, PP!Superseded
  <2>3. k \in tainted \/ PP!Explained(k, d)
    BY <2>1, <2>2 DEF PP!StaleExplained
  <2> QED
    BY <2>3 DEF Path!Explained, PP!Explained, Path!Pending, PP!Pending, Path!Undeclared,
                PP!Undeclared, Path!Covers, PP!Covers, Path!Covered, PP!Covered
<1> QED  BY <1>1, <1>4, <1>5, <1>6, PTL
=============================================================================
