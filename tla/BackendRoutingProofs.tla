------------------------ MODULE BackendRoutingProofs ------------------------
(***************************************************************************)
(* For every document and schema: what load() accepts boots, unless the    *)
(* SDL lacks one of its operations; a mutation removes only what it        *)
(* declares; and, when the profiles of each document are of one kind, it   *)
(* removes all of it.                                                      *)
(***************************************************************************)
EXTENDS BackendRouting, TLAPS

(* An entry is indexed under the rule that lists its query, in the backend *)
(* of that rule's profile.                                                 *)
Filed(b, e) ==
  /\ e[2] \in DOMAIN doc.cacheRules
  /\ Covers(doc.cacheRules[e[2]], e[1])
  /\ BackendOf(doc.cacheRules[e[2]].profile) = b

Passed == phase \in {"accepted", "backends", "serving"} => Accepted(doc, sdl)

ContextsFit ==
  phase = "serving" => \A q \in DOMAIN ruleOf :
    /\ ruleOf[q] \in DOMAIN doc.cacheRules
    /\ Covers(doc.cacheRules[ruleOf[q]], q)

IInv ==
  /\ TypeOK
  /\ Passed
  /\ phase = "serving" => Caching \/ ruleOf = <<>>
  /\ ContextsFit
  /\ \A b \in Backend : \A e \in entries[b] : Filed(b, e)
  /\ AcceptedBoots

-----------------------------------------------------------------------------
(* What the loader has checked is what the boot looks up. *)
LEMMA BoundsGiven == Accepted(doc, sdl) => Bounded
  BY DEF Accepted, CheckProfileMaxEntries, Bounded, BackendOf, Profiles

LEMMA LookupsSucceed ==
  ASSUME IsDocument(doc), Accepted(doc, sdl)
  PROVE  Lookups
<1>1. \A r \in DOMAIN doc.cacheRules : doc.cacheRules[r].profile \in Profiles
  BY DEF Accepted, CheckProfileRefs, Profiles
<1>2. ASSUME NEW m \in DOMAIN doc.mutations,
             doc.mutations[m].invalidates # None,
             doc.mutations[m].invalidates.strategy = "operation",
             Given(doc.mutations[m].invalidates.rules)
      PROVE  Head(doc.mutations[m].invalidates.rules) \in DOMAIN doc.cacheRules
  <2> DEFINE spec == doc.mutations[m].invalidates
  <2>1. doc.mutations[m] \in MutationSpec
    BY DEF IsDocument, IsDict
  <2>2. spec \in InvalidatesSpec
    BY <2>1, <1>2 DEF MutationSpec
  <2>3. spec.rules \in Seq(Rule) /\ spec.rules # <<>>
    BY <2>2, <1>2 DEF InvalidatesSpec, Given
  <2>4. ToSet(spec.rules) \subseteq DOMAIN doc.cacheRules
    BY <1>2 DEF Accepted, CheckInvalidateStrategy
  <2> HIDE DEF spec
  <2>5. Head(spec.rules) \in ToSet(spec.rules)
    BY <2>3 DEF ToSet
  <2> QED BY <2>4, <2>5 DEF spec
<1> QED BY <1>1, <1>2 DEF Lookups, Wrapped

(* A covered query has one rule. *)
LEMMA OneRule ==
  ASSUME Accepted(doc, sdl),
         NEW r \in DOMAIN doc.cacheRules, NEW s \in DOMAIN doc.cacheRules, NEW q,
         Covers(doc.cacheRules[r], q), Covers(doc.cacheRules[s], q)
  PROVE  r = s
<1>1. PICK i \in DOMAIN doc.cacheRules[r].operations : doc.cacheRules[r].operations[i] = q
  BY DEF Covers, ToSet
<1>2. PICK j \in DOMAIN doc.cacheRules[s].operations : doc.cacheRules[s].operations[j] = q
  BY DEF Covers, ToSet
<1>3. ~ CoveredTwice(doc)
  BY DEF Accepted, CheckOperationRefs
<1> QED BY <1>1, <1>2, <1>3 DEF CoveredTwice

(* A mutation declares through the list its strategy reads, no other. *)
LEMMA DeclaredByStrategy ==
  ASSUME Accepted(doc, sdl), NEW m \in DOMAIN doc.mutations, Inv(m) # None
  PROVE  /\ Inv(m).strategy = "operation" => Names(Inv(m).tags) = {}
         /\ Inv(m).strategy = "tag" => Names(Inv(m).rules) = {}
         /\ Inv(m).strategy \notin {"operation", "tag"} =>
              Names(Inv(m).rules) = {} /\ Names(Inv(m).tags) = {}
  BY DEF Accepted, CheckInvalidateStrategy, Inv, Names

-----------------------------------------------------------------------------
LEMMA InitInv == Init => IInv
<1> SUFFICES ASSUME Init PROVE IInv
  OBVIOUS
<1>1. IsDocument(doc) /\ IsSchema(sdl)
  BY RoutingAssumption DEF Init
<1>2. Init => IsDict(ruleOf, Operation, Rule)
  BY DEF Init, IsDict
<1> QED BY <1>1, <1>2 DEF Init, IInv, TypeOK, Passed, ContextsFit, AcceptedBoots

LEMMA NextInv ==
  ASSUME IInv, [Next]_vars
  PROVE  IInv'
<1>1. CASE Load
  BY <1>1 DEF Load, IInv, TypeOK, Passed, ContextsFit, Filed, AcceptedBoots, BackendOf, Caching, Profiles
<1>2. CASE MakeBackends
  <2>1. phase' = "backends" /\ Accepted(doc, sdl)
    BY <1>2, BoundsGiven DEF MakeBackends, IInv, TypeOK, Passed
  <2> QED BY <1>2, <2>1 DEF MakeBackends, IInv, TypeOK, Passed, ContextsFit, Filed, AcceptedBoots,
                            BackendOf
<1>3. CASE BuildApp
  <2>1. Accepted(doc, sdl)
    BY <1>3 DEF BuildApp, IInv, TypeOK, Passed
  <2>2. Lookups
    BY <2>1, LookupsSucceed DEF IInv, TypeOK
  <2>3. /\ UNCHANGED <<doc, sdl, entries, returned>>
        /\ phase' = IF Binds THEN "serving" ELSE "crashed"
    BY <1>3, <2>2 DEF BuildApp
  <2>4. AcceptedBoots'
    BY <2>3 DEF AcceptedBoots, Binds
  <2>5. (Caching \/ ruleOf = <<>>)'
    BY <1>3, <2>3 DEF BuildApp, Caching, Profiles
  <2>6. ContextsFit'
    <3> SUFFICES ASSUME NEW q \in DOMAIN ruleOf'
                 PROVE  /\ ruleOf'[q] \in DOMAIN doc.cacheRules
                        /\ Covers(doc.cacheRules[ruleOf'[q]], q)
      BY <2>3 DEF ContextsFit, Covers
    <3>1. CASE Caching
      BY <1>3, <3>1 DEF BuildApp, Contexts
    <3>2. CASE ~ Caching
      BY <1>3, <3>2 DEF BuildApp
    <3> QED BY <3>1, <3>2
  <2>8. IsDict(ruleOf, Operation, Rule)'
    <3>1. CASE Caching
      <4>1. ruleOf' \in Contexts
        BY <1>3, <3>1 DEF BuildApp
      <4>2. DOMAIN doc.cacheRules \subseteq Rule
        BY DEF IInv, TypeOK, IsDocument, IsDict
      <4> QED BY <4>1, <4>2 DEF Contexts, IsDict
    <3>2. CASE ~ Caching
      BY <1>3, <3>2 DEF BuildApp, IsDict
    <3> QED BY <3>1, <3>2
  <2>7. \A b \in Backend : \A e \in entries'[b] : Filed(b, e)'
    BY <2>3 DEF IInv, TypeOK, Filed, BackendOf, Covers
  <2> QED BY <2>1, <2>3, <2>4, <2>5, <2>6, <2>7, <2>8 DEF IInv, TypeOK, Passed
<1>4. ASSUME NEW q \in Operation, CacheQuery(q)
      PROVE  IInv'
  <2> DEFINE r == ruleOf[q]
             b == BackendOf(doc.cacheRules[r].profile)
  <2>1. UNCHANGED <<doc, sdl, phase, ruleOf>> /\ phase = "serving" /\ q \in DOMAIN ruleOf
    BY <1>4 DEF CacheQuery
  <2>2. r \in DOMAIN doc.cacheRules /\ Covers(doc.cacheRules[r], q)
    BY <2>1 DEF IInv, TypeOK, ContextsFit
  <2>3. r \in Rule /\ doc.cacheRules[r] \in CacheRule
    BY <2>2 DEF IInv, TypeOK, IsDocument, IsDict
  <2>4. doc.cacheRules[r].profile \in Profiles
    BY <2>1, <2>2 DEF IInv, TypeOK, Passed, Accepted, CheckProfileRefs, Profiles
  <2>5. b \in Backend
    BY <2>4 DEF IInv, TypeOK, IsDocument, IsDict, CacheProfile, Profiles, BackendOf, Backend
  <2>6. entries' = [entries EXCEPT ![b] = @ \cup {<<q, r>>}]
    BY <1>4 DEF CacheQuery
  <2>7. Filed(b, <<q, r>>)
    BY <2>2 DEF Filed
  <2> HIDE DEF r, b
  <2>8. entries' \in [Backend -> SUBSET (Operation \X Rule)]
    BY <2>3, <2>5, <2>6 DEF IInv, TypeOK
  <2>9. \A c \in Backend : \A e \in entries'[c] : Filed(c, e)
    BY <2>5, <2>6, <2>7 DEF IInv, TypeOK
  <2>10. \A c \in Backend : \A e \in entries'[c] : Filed(c, e)'
    BY <2>1, <2>9 DEF Filed, BackendOf
  <2>11. returned' \subseteq Operation
    BY <1>4 DEF CacheQuery, IInv, TypeOK
  <2> QED BY <2>1, <2>8, <2>10, <2>11 DEF IInv, TypeOK, Passed, ContextsFit, AcceptedBoots, Caching, Profiles
<1>5. ASSUME NEW m \in Operation, AfterMutation(m)
      PROVE  IInv'
  <2>1. UNCHANGED <<doc, sdl, phase, ruleOf>>
    BY <1>5 DEF AfterMutation
  <2>2. /\ entries' \in [Backend -> SUBSET (Operation \X Rule)]
        /\ \A c \in Backend : entries'[c] \subseteq entries[c]
        /\ returned' \subseteq Operation
    BY <1>5 DEF AfterMutation, IInv, TypeOK
  <2>3. \A c \in Backend : \A e \in entries'[c] : Filed(c, e)'
    BY <2>1, <2>2 DEF IInv, TypeOK, Filed, BackendOf
  <2> QED BY <2>1, <2>2, <2>3 DEF IInv, TypeOK, Passed, ContextsFit, AcceptedBoots, Caching, Profiles, Binds
<1>6. CASE UNCHANGED vars
  BY <1>6 DEF vars, IInv, TypeOK, Passed, ContextsFit, Filed, AcceptedBoots, BackendOf, Caching, Profiles,
              Binds
<1> QED BY <1>1, <1>2, <1>3, <1>4, <1>5, <1>6 DEF Next

-----------------------------------------------------------------------------
(* The document, the contexts and the entries keep their types. *)
THEOREM TypeCorrect == Spec => []TypeOK
<1>1. IInv => TypeOK
  BY DEF IInv
<1> QED BY <1>1, InitInv, NextInv, PTL DEF Spec

(* No document that load() accepts makes the boot raise, unless the SDL    *)
(* lacks one of its operations or the type they are fields of.             *)
THEOREM Boots == Spec => []AcceptedBoots
<1>1. IInv => AcceptedBoots
  BY DEF IInv, TypeOK
<1> QED BY <1>1, InitInv, NextInv, PTL DEF Spec

(* Whatever the document and the kinds of its profiles, a mutation removes *)
(* no entry it does not declare.                                           *)
THEOREM KeepsOthers == Spec => OthersKept
<1>1. ASSUME IInv, NEW m \in Operation, AfterMutation(m), NEW b \in Backend
      PROVE  Held(b) \ Held(b)' \subseteq Declared(m)
  <2> SUFFICES ASSUME NEW e \in entries[b], e \notin entries'[b]
               PROVE  e[1] \in Declared(m)
    BY DEF Held
  <2>1. e \in Reached(Inv(m)) /\ e \in Operation \X Rule
    BY <1>1 DEF AfterMutation, IInv, TypeOK
  <2>2. Filed(b, e)
    BY <1>1 DEF IInv, TypeOK
  <2> QED BY <2>1, <2>2 DEF Reached, Filed, Declared
<1>2. IInv /\ [Next]_vars =>
        [\A m \in Operation : AfterMutation(m) =>
           \A b \in Backend : Held(b) \ Held(b)' \subseteq Declared(m)]_vars
  BY <1>1
<1> QED BY <1>2, InitInv, NextInv, PTL DEF Spec, OthersKept

(* With one kind of profile per document, as in every example, nothing of  *)
(* what a mutation declares is left when it has returned, nor later until  *)
(* a query it declares stores an entry.                                    *)
OneKind == \A p, q \in Profiles : BackendOf(p) = BackendOf(q)

LEMMA MutationClears ==
  ASSUME IInv, OneKind, NEW m \in Operation, AfterMutation(m), NEW b \in Backend
  PROVE  Held(b)' \cap Declared(m) = {}
<1> SUFFICES ASSUME NEW e \in entries'[b], e[1] \in Declared(m)
             PROVE  FALSE
  BY DEF Held
<1>1. /\ m \in DOMAIN doc.mutations /\ Inv(m) # None
      /\ phase = "serving" /\ Profiles # {}
      /\ entries' = [entries EXCEPT ![Picked(Inv(m))] = @ \ Reached(Inv(m))]
  BY DEF AfterMutation, Wrapped, Caching, Inv
<1>2. e \in entries[b] /\ e \in Operation \X Rule
  BY <1>1 DEF IInv, TypeOK
<1>3. Accepted(doc, sdl) /\ Filed(b, e)
  BY <1>1, <1>2 DEF IInv, TypeOK, Passed
<1>4. PICK r \in DOMAIN doc.cacheRules :
        /\ Covers(doc.cacheRules[r], e[1])
        /\ \/ r \in Names(Inv(m).rules)
           \/ doc.cacheRules[r].tags \cap Names(Inv(m).tags) # {}
  BY DEF Declared
<1>5. r = e[2]
  BY <1>3, <1>4, OneRule DEF Filed
<1>6. e \in Reached(Inv(m))
  BY <1>1, <1>2, <1>3, <1>4, <1>5, DeclaredByStrategy DEF Reached, Filed
<1>7. \E p \in Profiles : Picked(Inv(m)) = BackendOf(p)
  <2>1. CASE Inv(m).strategy = "operation" /\ Given(Inv(m).rules)
    <3>1. Head(Inv(m).rules) \in DOMAIN doc.cacheRules
      BY <1>1, <1>3, <2>1, LookupsSucceed DEF IInv, TypeOK, Lookups, Wrapped, Caching, Inv
    <3> QED  BY <1>3, <2>1, <3>1 DEF Picked, Accepted, CheckProfileRefs, Profiles
  <2>2. CASE ~ (Inv(m).strategy = "operation" /\ Given(Inv(m).rules))
    <3>1. Profiles \in (SUBSET Profile) \ {{}}
      BY <1>1 DEF IInv, TypeOK, IsDocument, IsDict, Profiles
    <3> QED  BY <2>2, <3>1, RoutingAssumption DEF Picked
  <2> QED  BY <2>1, <2>2
<1>8. Picked(Inv(m)) = b
  <2>1. doc.cacheRules[e[2]].profile \in Profiles
    BY <1>3 DEF Filed, Accepted, CheckProfileRefs, Profiles
  <2> QED  BY <1>3, <1>7, <2>1 DEF Filed, OneKind
<1> QED  BY <1>1, <1>6, <1>8 DEF IInv, TypeOK

(* A step before serving stores nothing and ends no mutation. *)
LEMMA BootClears ==
  ASSUME DeclaredEntriesRemoved, UNCHANGED <<doc, entries, returned>>
  PROVE  DeclaredEntriesRemoved'
BY DEF DeclaredEntriesRemoved, Held, Declared, Inv, Names, Covers

LEMMA StaysCleared ==
  ASSUME IInv, OneKind, DeclaredEntriesRemoved, [Next]_vars
  PROVE  DeclaredEntriesRemoved'
<1>1. CASE Load \/ MakeBackends \/ BuildApp \/ UNCHANGED vars
  BY <1>1, BootClears DEF Load, MakeBackends, BuildApp, vars
<1>2. ASSUME NEW q \in Operation, CacheQuery(q)
      PROVE  DeclaredEntriesRemoved'
  <2> SUFFICES ASSUME NEW m \in returned', NEW b \in Backend, NEW e \in entries'[b],
                      e[1] \in Declared(m)'
               PROVE  FALSE
    BY DEF DeclaredEntriesRemoved, Held
  <2>1. m \in returned /\ q \notin Declared(m) /\ Declared(m)' = Declared(m)
    BY <1>2 DEF CacheQuery, Declared, Inv
  <2>2. e \in entries[b] \/ e = <<q, ruleOf[q]>>
    BY <1>2 DEF CacheQuery, IInv, TypeOK
  <2>3. e \in entries[b]
    BY <2>1, <2>2
  <2> QED  BY <2>1, <2>3 DEF DeclaredEntriesRemoved, Held
<1>3. ASSUME NEW n \in Operation, AfterMutation(n)
      PROVE  DeclaredEntriesRemoved'
  <2> SUFFICES ASSUME NEW m \in returned', NEW b \in Backend
               PROVE  Held(b)' \cap Declared(m)' = {}
    BY DEF DeclaredEntriesRemoved
  <2>1. m \in returned \cup {n} /\ Declared(m)' = Declared(m)
    BY <1>3 DEF AfterMutation, Declared, Inv
  <2>2. CASE m = n
    BY <1>3, <2>1, <2>2, MutationClears
  <2>3. CASE m \in returned
    <3>1. entries'[b] \subseteq entries[b]
      BY <1>3 DEF AfterMutation, IInv, TypeOK
    <3> QED  BY <2>1, <2>3, <3>1 DEF DeclaredEntriesRemoved, Held
  <2> QED  BY <2>1, <2>2, <2>3
<1> QED  BY <1>1, <1>2, <1>3 DEF Next

THEOREM RemovesDeclared == Spec /\ []OneKind => []DeclaredEntriesRemoved
<1>1. Init => DeclaredEntriesRemoved
  BY DEF Init, DeclaredEntriesRemoved
<1> QED  BY <1>1, StaysCleared, InitInv, NextInv, PTL DEF Spec
=============================================================================
