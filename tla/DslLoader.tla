------------------------------ MODULE DslLoader ------------------------------
(***************************************************************************)
(* framework/dsl/loader.py: which documents load() accepts.  A document is *)
(* what the models of schema.py let through, a schema is the parsed SDL.   *)
(* A dict of the YAML is a function on the names it has.  A where or set   *)
(* template is only good or bad here; SqlTemplates says which ones are.    *)
(* load() is one synchronous function and raises at the first check that   *)
(* fails, so the order of the checks shows in its message alone.           *)
(***************************************************************************)
EXTENDS Naturals, Sequences, SequencesExt

CONSTANTS
  Operation, Type, Rule, Tag, \* names a document can use
  Profile,
  None                        \* a key the document leaves out

IsDict(d, K, V) == DOMAIN d \subseteq K /\ d \in [DOMAIN d -> V]

Template == {"good", "bad"}

QuerySpec == [type : Type, where : Template]

InvalidatesSpec == [strategy : {"ttl", "operation", "tag"},
                    rules : Seq(Rule) \cup {None},
                    tags : Seq(Tag) \cup {None}]

MutationSpec == [type : Type,
                 kind : {"insert", "update", "delete"},
                 set : Template \cup {None},
                 where : Template,
                 invalidates : InvalidatesSpec \cup {None}]

CacheProfile == [backend : {"redis", "in_memory"}, max_entries : {"given", None}]

CacheRule == [operations : Seq(Operation) \ {<<>>}, profile : Profile, tags : SUBSET Tag]

IsDocument(doc) ==
  /\ DOMAIN doc = {"tables", "queries", "mutations", "cacheProfiles", "cacheRules"}
  /\ doc.tables \subseteq Type
  /\ IsDict(doc.queries, Operation, QuerySpec)
  /\ IsDict(doc.mutations, Operation, MutationSpec)
  /\ IsDict(doc.cacheProfiles, Profile, CacheProfile)
  /\ IsDict(doc.cacheRules, Rule, CacheRule)

(* The object types of an SDL with the types of their fields, wrappers     *)
(* removed, and the fields of Query and Mutation, None when it has no such *)
(* type.                                                                   *)
IsSchema(sdl) ==
  /\ DOMAIN sdl = {"objects", "query", "mutation"}
  /\ IsDict(sdl.objects, Type, SUBSET Type)
  /\ sdl.query \in (SUBSET Operation) \cup {None}
  /\ sdl.mutation \in (SUBSET Operation) \cup {None}

Covers(rule, op) == op \in ToSet(rule.operations)

-----------------------------------------------------------------------------
UnknownQuery(doc) ==
  \E r \in DOMAIN doc.cacheRules : ~ ToSet(doc.cacheRules[r].operations) \subseteq DOMAIN doc.queries

(* Named twice, by two rules or by one. *)
CoveredTwice(doc) ==
  \E r, s \in DOMAIN doc.cacheRules :
    \E i \in DOMAIN doc.cacheRules[r].operations, j \in DOMAIN doc.cacheRules[s].operations :
      /\ doc.cacheRules[r].operations[i] = doc.cacheRules[s].operations[j]
      /\ <<r, i>> # <<s, j>>

CheckOperationRefs(doc) == ~ UnknownQuery(doc) /\ ~ CoveredTwice(doc)

Given(names) == names \notin {None, <<>>}

(* Mutant: the rules a mutation names are not looked up. *)
CheckInvalidateStrategyUnresolved(doc) ==
  \A m \in DOMAIN doc.mutations :
    LET spec == doc.mutations[m].invalidates IN
      \/ spec = None
      \/ spec.strategy = "tag" /\ Given(spec.tags) /\ spec.rules = None
      \/ spec.strategy = "operation" /\ Given(spec.rules) /\ spec.tags = None
      \/ spec.strategy = "ttl" /\ spec.rules = None /\ spec.tags = None

CheckInvalidateStrategy(doc) ==
  \A m \in DOMAIN doc.mutations :
    LET spec == doc.mutations[m].invalidates IN
      \/ spec = None
      \/ spec.strategy = "tag" /\ Given(spec.tags) /\ spec.rules = None
      \/ /\ spec.strategy = "operation" /\ Given(spec.rules) /\ spec.tags = None
         /\ ToSet(spec.rules) \subseteq DOMAIN doc.cacheRules
      \/ spec.strategy = "ttl" /\ spec.rules = None /\ spec.tags = None

CheckProfileRefs(doc) ==
  \A r \in DOMAIN doc.cacheRules : doc.cacheRules[r].profile \in DOMAIN doc.cacheProfiles

CheckProfileMaxEntries(doc) ==
  \A p \in DOMAIN doc.cacheProfiles :
    doc.cacheProfiles[p].backend = "in_memory" => doc.cacheProfiles[p].max_entries # None

CheckNestedMappedTypes(doc, sdl) ==
  \A t \in doc.tables : t \in DOMAIN sdl.objects /\ sdl.objects[t] \cap doc.tables = {}

ResolveQueries(doc) ==
  \A q \in DOMAIN doc.queries : doc.queries[q].type \in doc.tables /\ doc.queries[q].where = "good"

RequireSetForKind(spec) == (spec.kind = "delete") <=> (spec.set = None)

ResolveMutations(doc) ==
  \A m \in DOMAIN doc.mutations :
    LET spec == doc.mutations[m] IN
      /\ spec.type \in doc.tables
      /\ RequireSetForKind(spec)
      /\ spec.set # "bad" /\ spec.where = "good"

(* load *)
Accepted(doc, sdl) ==
  /\ CheckOperationRefs(doc)
  /\ CheckInvalidateStrategy(doc)
  /\ CheckProfileRefs(doc)
  /\ CheckProfileMaxEntries(doc)
  /\ CheckNestedMappedTypes(doc, sdl)
  /\ ResolveQueries(doc)
  /\ ResolveMutations(doc)
=============================================================================
