---------------------------- MODULE RedisBackend ----------------------------
(***************************************************************************)
(* framework/cache/redis_backend.py: callers (asyncio tasks) sharing one   *)
(* redis client, against a Redis server that runs one command at a time.   *)
(* A single-command call is one step, from the server's point of view; a   *)
(* set_with_indexes is a pipeline of commands between which the server may *)
(* run those of other callers (transaction=False); an invalidation loads   *)
(* the Lua script on first use and then calls it by digest, EVALSHA.       *)
(*                                                                         *)
(* The server may be restarted, and forgets its scripts; the process keeps *)
(* the digest.  A connection may be lost between any two commands, and the *)
(* process may die; commands the server had already received are taken to  *)
(* run before either is noticed.                                           *)
(*                                                                         *)
(* The bounds are in Next only: RedisCacheAside takes the actions as they  *)
(* are, with resolver invocations for callers.                             *)
(***************************************************************************)
EXTENDS Integers, FiniteSets, Sequences, SequencesExt

CONSTANTS
  Caller,
  Key, Value, Rule, Tag,
  RuleOf,      \* key -> its rule, None for a key only plain set writes
  TagSeq,      \* key -> its rendered tags, in template order
  Expiring,    \* keys written with ttl > 0
  MaxUnpack,   \* results Lua's unpack can return (just under 8000)
  MaxCalls,    \* bound on the calls made
  MaxLosses,   \* bound on lost connections and process restarts
  MaxRestarts, \* bound on server restarts
  None

ASSUME RedisAssumption ==
  /\ IsFiniteSet(Caller)
  /\ None \notin Value \cup Rule \cup Tag
  /\ RuleOf \in [Key -> Rule \cup {None}]
  /\ TagSeq \in [Key -> Seq(Tag)]
  /\ \A k \in Key : RuleOf[k] = None => TagSeq[k] = <<>>
  /\ Expiring \subseteq Key
  /\ MaxUnpack \in Nat
  /\ MaxCalls \in Nat /\ MaxLosses \in Nat /\ MaxRestarts \in Nat

RuleIndex(r) == [kind |-> "rule_index", name |-> r]
TagIndex(t) == [kind |-> "tag_index", name |-> t]
Index == {RuleIndex(r) : r \in Rule} \cup {TagIndex(t) : t \in Tag}

Counts == [hits : Nat, misses : Nat, sets : Nat, invalidations : Nat]
NoCounts == [hits |-> 0, misses |-> 0, sets |-> 0, invalidations |-> 0]

VARIABLES
  store,    \* server: key -> payload
  index,    \* server: index set -> members; they never expire
  scripts,  \* server: the Lua script is in its script cache
  sha,      \* process: _del_by_index_sha has been assigned
  at, arg, todo, \* caller: place in its call, key or index, SADDs still to run
  counters, ret,
  calls, losses, restarts,
  \* history, read by properties only
  torn      \* <<key, index>>: the SADD was lost after the SET had run

server == <<store, index, scripts>>
callers == <<at, arg, todo>>
bounds == <<calls, losses, restarts>>
vars == <<server, sha, callers, counters, ret, bounds, torn>>

TypeOK ==
  /\ store \in [Key -> Value \cup {None}]
  /\ index \in [Index -> SUBSET Key]
  /\ scripts \in BOOLEAN /\ sha \in BOOLEAN
  /\ at \in [Caller -> {"idle", "pipeline", "load", "script"}]
  /\ arg \in [Caller -> Key \cup Index \cup {None}]
  /\ todo \in [Caller -> Seq(Index)]
  /\ counters \in Counts
  /\ ret \in Value \cup {None}
  /\ calls \in 0 .. MaxCalls
  /\ losses \in 0 .. MaxLosses /\ restarts \in 0 .. MaxRestarts
  /\ torn \subseteq Key \X Index

Init ==
  /\ store = [k \in Key |-> None]
  /\ index = [i \in Index |-> {}]
  /\ scripts = FALSE /\ sha = FALSE
  /\ at = [c \in Caller |-> "idle"]
  /\ arg = [c \in Caller |-> None]
  /\ todo = [c \in Caller |-> <<>>]
  /\ counters = NoCounts
  /\ ret = None
  /\ calls = 0 /\ losses = 0 /\ restarts = 0
  /\ torn = {}

-----------------------------------------------------------------------------
Call(c) == at[c] = "idle"

(* The calls of these callers are over. *)
Leave(C) ==
  /\ at' = [c \in Caller |-> IF c \in C THEN "idle" ELSE at[c]]
  /\ arg' = [c \in Caller |-> IF c \in C THEN None ELSE arg[c]]
  /\ todo' = [c \in Caller |-> IF c \in C THEN <<>> ELSE todo[c]]

Return(c) == Leave({c})

Get(c, k) ==
  /\ Call(c)
  /\ ret' = store[k]
  /\ counters' = IF store[k] = None
                 THEN [counters EXCEPT !.misses = @ + 1]
                 ELSE [counters EXCEPT !.hits = @ + 1]
  /\ UNCHANGED <<server, sha, callers, torn>>

Set(c, k, v) ==
  /\ Call(c)
  /\ RuleOf[k] = None
  /\ store' = [store EXCEPT ![k] = v]
  /\ counters' = [counters EXCEPT !.sets = @ + 1]
  /\ ret' = None
  /\ UNCHANGED <<index, scripts, sha, callers, torn>>

Delete(c, k) ==
  /\ Call(c)
  /\ store' = [store EXCEPT ![k] = None]
  /\ UNCHANGED <<index, scripts, sha, callers, counters, ret, torn>>

(* FLUSHDB; the script cache is not part of the database. *)
Flush(c) ==
  /\ Call(c)
  /\ store' = [k \in Key |-> None]
  /\ index' = [i \in Index |-> {}]
  /\ torn' = {}
  /\ UNCHANGED <<scripts, sha, callers, counters, ret>>

-----------------------------------------------------------------------------
(* set_with_indexes: SET, SADD rule_index, SADD tag_index ...              *)

(* Mutant: only the rule index is written. *)
IndexesOfRuleOnly(k) == <<RuleIndex(RuleOf[k])>>

IndexesOf(k) == <<RuleIndex(RuleOf[k])>>
                  \o [i \in DOMAIN TagSeq[k] |-> TagIndex(TagSeq[k][i])]

PipelineSet(c, k, v) ==
  /\ Call(c)
  /\ RuleOf[k] # None
  /\ store' = [store EXCEPT ![k] = v]
  /\ at' = [at EXCEPT ![c] = "pipeline"]
  /\ arg' = [arg EXCEPT ![c] = k]
  /\ todo' = [todo EXCEPT ![c] = IndexesOf(k)]
  /\ ret' = None
  /\ UNCHANGED <<index, scripts, sha, counters, torn>>

Sadd(c) ==
  /\ index' = [index EXCEPT ![Head(todo[c])] = @ \cup {arg[c]}]
  /\ torn' = torn \ {<<arg[c], Head(todo[c])>>}

PipelineSadd(c) ==
  /\ at[c] = "pipeline"
  /\ Len(todo[c]) > 1
  /\ Sadd(c)
  /\ todo' = [todo EXCEPT ![c] = Tail(@)]
  /\ UNCHANGED <<store, scripts, sha, at, arg, counters, ret>>

(* The last reply completes pipe.execute(); counted only then. *)
PipelineEnd(c) ==
  /\ at[c] = "pipeline"
  /\ Len(todo[c]) = 1
  /\ Sadd(c)
  /\ Return(c)
  /\ counters' = [counters EXCEPT !.sets = @ + 1]
  /\ UNCHANGED <<store, scripts, sha, ret>>

Unsent(c) == {arg[c]} \X ToSet(todo[c])

(* The SADDs of these callers that have not run never will. *)
CutShort(C) ==
  /\ Leave(C)
  /\ torn' = torn \cup {p \in UNION {Unsent(c) : c \in C} : p[1] \notin index[p[2]]}

(* The connection dies before the next SADD, or before the last answer. *)
PipelineLost(c) ==
  /\ at[c] = "pipeline"
  /\ \/ CutShort({c}) /\ UNCHANGED index
     \/ Len(todo[c]) = 1 /\ Sadd(c) /\ Return(c)
  /\ UNCHANGED <<store, scripts, sha, counters, ret>>

-----------------------------------------------------------------------------
(* del_by_rule and del_by_tag on the index set i.                          *)

(* Mutant: the digest is computed locally and assigned before SCRIPT LOAD  *)
(* has been answered.                                                      *)
StartDelEager(c, i) ==
  /\ Call(c)
  /\ at' = [at EXCEPT ![c] = IF sha THEN "script" ELSE "load"]
  /\ arg' = [arg EXCEPT ![c] = i]
  /\ sha' = TRUE
  /\ UNCHANGED <<server, todo, counters, ret, torn>>

(* _ensure_lua_loaded tests the digest before its await. *)
StartDel(c, i) ==
  /\ Call(c)
  /\ at' = [at EXCEPT ![c] = IF sha THEN "script" ELSE "load"]
  /\ arg' = [arg EXCEPT ![c] = i]
  /\ UNCHANGED <<server, sha, todo, counters, ret, torn>>

LoadScript(c) ==
  /\ at[c] = "load"
  /\ scripts' = TRUE
  /\ sha' = TRUE
  /\ at' = [at EXCEPT ![c] = "script"]
  /\ UNCHANGED <<store, index, arg, todo, counters, ret, torn>>

(* The connection dies before the script was loaded, or before the answer. *)
LoadLost(c) ==
  /\ at[c] = "load"
  /\ scripts' \in {scripts, TRUE}
  /\ Return(c)
  /\ UNCHANGED <<store, index, sha, counters, ret, torn>>

(* Mutant: redis.pcall, so that the index set is deleted when the DEL of   *)
(* its members failed.                                                     *)
RunScriptPcall(i) ==
  /\ scripts
  /\ store' = [k \in Key |-> IF k \in index[i] /\ Cardinality(index[i]) <= MaxUnpack
                             THEN None ELSE store[k]]
  /\ index' = [index EXCEPT ![i] = {}]
  /\ torn' = {p \in torn : p[1] \notin index[i]}

(* The script: DEL all members, then the index set, in one server step. *)
RunScript(i) ==
  /\ scripts
  /\ Cardinality(index[i]) <= MaxUnpack
  /\ store' = [k \in Key |-> IF k \in index[i] THEN None ELSE store[k]]
  /\ index' = [index EXCEPT ![i] = {}]
  /\ torn' = {p \in torn : p[1] \notin index[i]}

EvalSha(c) ==
  /\ at[c] = "script"
  /\ RunScript(arg[c])
  /\ Return(c)
  /\ counters' = [counters EXCEPT !.invalidations = @ + 1]
  /\ ret' = None
  /\ UNCHANGED <<scripts, sha>>

(* Mutant: a failure takes back a count that was never made. *)
EvalRaisesUncounting(c) ==
  /\ at[c] = "script"
  /\ ~ scripts \/ Cardinality(index[arg[c]]) > MaxUnpack
  /\ Return(c)
  /\ counters' = [counters EXCEPT !.invalidations = @ - 1]
  /\ UNCHANGED <<server, sha, ret, torn>>

(* NOSCRIPT, or "too many results to unpack": the call raises, nothing has *)
(* been deleted, and the digest is kept for the next call.                 *)
EvalRaises(c) ==
  /\ at[c] = "script"
  /\ ~ scripts \/ Cardinality(index[arg[c]]) > MaxUnpack
  /\ Return(c)
  /\ UNCHANGED <<server, sha, counters, ret, torn>>

(* The connection dies before the script ran, or before its answer. *)
EvalLost(c, ran) ==
  /\ at[c] = "script"
  /\ IF ran THEN RunScript(arg[c]) ELSE UNCHANGED <<store, index, torn>>
  /\ Return(c)
  /\ UNCHANGED <<scripts, sha, counters, ret>>

-----------------------------------------------------------------------------
Expire(k) ==
  /\ k \in Expiring
  /\ store[k] # None
  /\ store' = [store EXCEPT ![k] = None]
  /\ UNCHANGED <<index, scripts, sha, callers, counters, ret, torn>>

InPipeline == {c \in Caller : at[c] = "pipeline"}

(* The server restarts, with or without its data. *)
ServerRestart ==
  /\ scripts' = FALSE
  /\ \/ /\ CutShort(InPipeline)
        /\ UNCHANGED <<store, index>>
     \/ /\ Leave(InPipeline)
        /\ torn' = {}
        /\ store' = [k \in Key |-> None]
        /\ index' = [i \in Index |-> {}]
  /\ UNCHANGED <<sha, counters, ret>>

(* The process dies and _lifespan makes a new RedisBackend. *)
ProcessRestart ==
  /\ CutShort(Caller)
  /\ sha' = FALSE
  /\ counters' = NoCounts
  /\ ret' = None
  /\ UNCHANGED server

-----------------------------------------------------------------------------
Calling == calls < MaxCalls /\ calls' = calls + 1 /\ UNCHANGED <<losses, restarts>>
Losing == losses < MaxLosses /\ losses' = losses + 1 /\ UNCHANGED <<calls, restarts>>
Restarting ==
  restarts < MaxRestarts /\ restarts' = restarts + 1 /\ UNCHANGED <<calls, losses>>

Next ==
  \/ \E c \in Caller, k \in Key : Calling /\ (Get(c, k) \/ Delete(c, k))
  \/ \E c \in Caller, k \in Key, v \in Value :
       Calling /\ (Set(c, k, v) \/ PipelineSet(c, k, v))
  \/ \E c \in Caller, i \in Index : Calling /\ StartDel(c, i)
  \/ \E c \in Caller : Calling /\ Flush(c)
  \/ \E c \in Caller : UNCHANGED bounds /\ (\/ PipelineSadd(c) \/ PipelineEnd(c)
                                            \/ LoadScript(c) \/ EvalSha(c)
                                            \/ EvalRaises(c))
  \/ \E c \in Caller : Losing /\ (\/ PipelineLost(c) \/ LoadLost(c)
                                \/ \E ran \in BOOLEAN : EvalLost(c, ran))
  \/ \E k \in Key : UNCHANGED bounds /\ Expire(k)
  \/ Losing /\ ProcessRestart
  \/ Restarting /\ ServerRestart

Spec == Init /\ [][Next]_vars

-----------------------------------------------------------------------------
Adding(k, i) == \E c \in InPipeline : arg[c] = k /\ i \in ToSet(todo[c])

Unreachable(k, i) == Adding(k, i) \/ <<k, i>> \in torn

(* An entry an invalidation would not find is being stored at this moment, *)
(* or was left behind by a pipeline that lost its connection; no order of  *)
(* concurrent stores, deletions, expiries and restarts strands one else.   *)
IndexedUnlessTorn ==
  \A k \in Key : (store[k] # None /\ RuleOf[k] # None) =>
    \A i \in ToSet(IndexesOf(k)) : k \in index[i] \/ Unreachable(k, i)

(* The digest the process caches is good unless the server restarted: the  *)
(* only way an invalidation can fail for want of its script.               *)
DigestGoodUntilRestart ==
  \A c \in Caller : (sha \/ at[c] = "script") /\ restarts = 0 => scripts

(* backend.py promises "payload + rule index + tag indexes, atomically":   *)
(* the Protocol, reading a pipeline as a store at its SET.  Two callers do *)
(* not get that, because an invalidation between the SET and a SADD misses *)
(* an entry others already read.                                           *)
Protocol == INSTANCE CacheBackend WITH
  live <- store,
  TagsOf <- [k \in Key |-> ToSet(TagSeq[k])],
  counters <- [counters EXCEPT !.sets = @ + Cardinality(InPipeline)]

ImplementsProtocol == Protocol!Spec

(* Pipelines cut short: stores that are never counted. *)
Cut ==
  /\ InPipeline' \subseteq InPipeline /\ InPipeline' # InPipeline
  /\ \E S \in SUBSET Key : store' = Protocol!Without(S)
  /\ UNCHANGED <<counters, ret>>

Declared(i) ==
  {k \in Key : IF i.kind = "rule_index" THEN RuleOf[k] = i.name
                                        ELSE i.name \in ToSet(TagSeq[k])}

(* A deletion that leaves some of the entries it should take out. *)
Misses ==
  \E i \in Index : \E S \in SUBSET Declared(i) :
    /\ store' = Protocol!Without(S)
    /\ counters' = [counters EXCEPT !.invalidations = @ + 1] /\ ret' = None
    /\ UNCHANGED InPipeline
    /\ \A k \in Declared(i) : store'[k] # None => Unreachable(k, i)

(* A new process over the old store. *)
Reset == UNCHANGED store /\ counters' = NoCounts /\ ret' = None

(* What RedisBackend does promise any number of callers: each step is one  *)
(* of the Protocol, except a pipeline cut short, a restart of the process, *)
(* and a deletion that leaves entries whose store another caller has not   *)
(* finished, or whose pipeline was lost.                                   *)
StepsAsPromised ==
  [][[Protocol!Next]_(Protocol!backendVars) \/ Cut \/ Misses \/ Reset]_vars

(* What makes these inductive: an index set has no key but those whose     *)
(* rule or tag it stands for, and neither has a pipeline that may yet add  *)
(* to it after a deletion has emptied it.                                  *)
MembersBelong ==
  /\ \A i \in Index : \A k \in index[i] : RuleOf[k] # None /\ i \in ToSet(IndexesOf(k))
  /\ \A c \in InPipeline : /\ arg[c] \in Key /\ RuleOf[arg[c]] # None
                           /\ todo[c] # <<>> /\ ToSet(todo[c]) \subseteq ToSet(IndexesOf(arg[c]))

CallsWellFormed ==
  \A c \in Caller : /\ at[c] \in {"load", "script"} => arg[c] \in Index
                    /\ at[c] # "pipeline" => todo[c] = <<>>

IInv == /\ TypeOK /\ IndexedUnlessTorn /\ DigestGoodUntilRestart
        /\ MembersBelong /\ CallsWellFormed

(* "SMEMBERS the index set -> DEL all member keys -> DEL the index set     *)
(* itself": an invalidation the server answers leaves its index set empty. *)
DeletionClearsIndex ==
  [][\A c \in Caller :
       (at[c] = "script" /\ at'[c] = "idle" /\ scripts /\ losses' = losses)
         => index'[arg[c]] = {}]_vars
=============================================================================
