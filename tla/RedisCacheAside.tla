--------------------------- MODULE RedisCacheAside ---------------------------
(***************************************************************************)
(* The request path over RedisBackend: CacheAside with the store and the   *)
(* deletions of its tasks taken apart into the commands the Redis server   *)
(* runs, any of which may be the last one that arrives.  The client comes  *)
(* from redis.asyncio.from_url and sends every command once.               *)
(*                                                                         *)
(* One backend serves the whole process: live, counters and ret are the    *)
(* store, counters and ret of RedisBackend, and its callers are the tasks. *)
(***************************************************************************)
EXTENDS CacheAside

CONSTANTS
  TagSeq,            \* key -> its rendered tags, in template order
  MaxUnpack,         \* as in RedisBackend
  MaxServerRestarts, \* bound on restarts of the Redis server
  MaxLosses          \* bound on lost connections

ASSUME RedisCacheAsideAssumption ==
  /\ None \notin Tag
  /\ TagSeq \in [Key -> Seq(Tag)]
  /\ \A k \in Key : /\ {TagSeq[k][i] : i \in DOMAIN TagSeq[k]} = TagsOf[k]
                    /\ RuleOf[k] = None => TagSeq[k] = <<>>
  /\ MaxUnpack \in Nat /\ MaxServerRestarts \in Nat /\ MaxLosses \in Nat

VARIABLES
  index, scripts, sha, at, arg, todo, torn, \* as in RedisBackend
  serverRestarts, losses,
  \* history, read by properties only
  missed    \* keys whose superseded entry a deletion left in the store,
            \* because it was not in the index set

redisOnly == <<index, scripts, sha, at, arg, todo, torn>>
bounds == <<serverRestarts, losses>>
redisVars == <<vars, redisOnly, bounds, missed>>

Redis == INSTANCE RedisBackend WITH
  Caller <- Task, Value <- Payload, store <- live,
  calls <- 0, restarts <- serverRestarts,
  MaxCalls <- 0, MaxRestarts <- MaxServerRestarts

RedisInit ==
  /\ Init
  /\ index = [i \in Redis!Index |-> {}]
  /\ scripts = FALSE /\ sha = FALSE
  /\ at = [t \in Task |-> "idle"]
  /\ arg = [t \in Task |-> None]
  /\ todo = [t \in Task |-> <<>>]
  /\ torn = {} /\ missed = {}
  /\ serverRestarts = 0 /\ losses = 0

(* A step of CacheAside that sends Redis one command, or none. *)
AsBefore == UNCHANGED <<redisOnly, bounds, missed>>

Lose == losses < MaxLosses /\ losses' = losses + 1 /\ UNCHANGED serverRestarts

-----------------------------------------------------------------------------
(* set_with_indexes, in the place of Fill and FillFails.                   *)

Stored(r) ==
  /\ tainted' = IF r \in outrun THEN tainted \cup {key[r]} ELSE tainted \ {key[r]}
  /\ missed' = missed \ {key[r]}

Forget(r) ==
  /\ got' = [got EXCEPT ![r] = None]
  /\ outrun' = outrun \ {r}

FillSet(r) ==
  /\ pc[r] = "fill"
  /\ key[r] \notin Unrenderable
  /\ Redis!PipelineSet(r, key[r], got[r])
  /\ Goto(r, "indexing")
  /\ Stored(r) /\ Forget(r)
  /\ UNCHANGED <<postgres, conns, key, mut, pos, stats, restarts, bounds>>

FillSadd(r) ==
  /\ Redis!PipelineSadd(r)
  /\ UNCHANGED <<postgres, conns, pc, tasks, stats, restarts, history, bounds, missed>>

FillEnd(r) ==
  /\ Redis!PipelineEnd(r)
  /\ Goto(r, "done")
  /\ UNCHANGED <<postgres, conns, tasks, stats, restarts, history, bounds, missed>>

(* Mutant: the error of the pipeline is swallowed, since the payload is    *)
(* there to be returned.                                                   *)
FillLostSwallowed(r) ==
  /\ Lose
  /\ Redis!PipelineLost(r)
  /\ Goto(r, "done")
  /\ UNCHANGED <<postgres, conns, tasks, stats, restarts, history, missed>>

FillLost(r) ==
  /\ Lose
  /\ Redis!PipelineLost(r)
  /\ Raise(r, "internal", "failed")
  /\ UNCHANGED <<postgres, conns, tasks, requests, restarts, history, missed>>

(* Before the SET: render_template raises, or there is no connection. *)
FillRaises(r) ==
  /\ pc[r] = "fill"
  /\ IF key[r] \in Unrenderable THEN UNCHANGED bounds ELSE Lose
  /\ Raise(r, "internal", "failed")
  /\ Forget(r)
  /\ UNCHANGED <<backend, redisOnly, postgres, conns, key, mut, pos, requests, restarts,
                 tainted, missed>>

-----------------------------------------------------------------------------
(* del_by_rule and del_by_tag, in the place of Invalidate and              *)
(* InvalidateFails.                                                        *)

IndexOf(target) ==
  IF target.by = "rule" THEN Redis!RuleIndex(target.of) ELSE Redis!TagIndex(target.of)

DeleteStart(w) ==
  /\ pc[w] = "invalidate"
  /\ Current(w).by # "unrenderable"
  /\ Redis!StartDel(w, IndexOf(Current(w)))
  /\ UNCHANGED <<postgres, conns, pc, tasks, stats, restarts, history, bounds, missed>>

DeleteLoad(w) ==
  /\ Redis!LoadScript(w)
  /\ UNCHANGED <<postgres, conns, pc, tasks, stats, restarts, history, bounds, missed>>

Stale(k) == live[k] # None /\ \E d \in Datum : Superseded(live[k], k, d)

(* The script goes by: what it removes and what gets away. *)
Pass(w) ==
  LET i == arg[w]
      Away == {k \in Covered(Current(w)) \ index[i] : Stale(k)}
  IN  /\ outrun' = outrun \cup {r \in Reader : /\ pc[r] = "fill"
                                               /\ key[r] \in Covered(Current(w))
                                               /\ \E d \in ReadsOf[key[r]] : got[r][d] # db[d]}
      /\ tainted' = tainted \ index[i]
      /\ missed' = (missed \ index[i]) \cup {k \in Away : Redis!Unreachable(k, i)}

DeleteEval(w) ==
  /\ Redis!EvalSha(w)
  /\ Pass(w)
  /\ pos' = [pos EXCEPT ![w] = @ + 1]
  /\ Goto(w, IF pos[w] = Len(Targets[mut[w]]) THEN "done" ELSE "invalidate")
  /\ UNCHANGED <<postgres, conns, key, got, mut, stats, restarts, bounds>>

(* NOSCRIPT, or an index set too large to unpack. *)
DeleteRaises(w) ==
  /\ Redis!EvalRaises(w)
  /\ Raise(w, "internal", "failed")
  /\ UNCHANGED <<postgres, conns, tasks, requests, restarts, history, bounds, missed>>

DeleteLost(w) ==
  /\ Lose
  /\ Raise(w, "internal", "failed")
  /\ \/ Redis!LoadLost(w) /\ UNCHANGED <<history, missed>>
     \/ Redis!EvalLost(w, FALSE) /\ UNCHANGED <<history, missed>>
     \/ Redis!EvalLost(w, TRUE) /\ Pass(w)
  /\ UNCHANGED <<postgres, conns, tasks, requests, restarts>>

(* render_template raises. *)
DeleteUnrenderable(w) ==
  /\ pc[w] = "invalidate"
  /\ Current(w).by = "unrenderable"
  /\ Raise(w, "internal", "failed")
  /\ UNCHANGED <<backend, postgres, conns, tasks, requests, restarts, history>>
  /\ AsBefore

-----------------------------------------------------------------------------
(* The tasks whose pipeline a server restart cuts get an error. *)
ServerRestart ==
  /\ serverRestarts < MaxServerRestarts
  /\ serverRestarts' = serverRestarts + 1
  /\ Redis!ServerRestart
  /\ LET Cut == Redis!InPipeline IN
       /\ pc' = [t \in Task |-> IF t \in Cut THEN "failed" ELSE pc[t]]
       /\ errors' = [errors EXCEPT !.internal = @ + Cardinality(Cut)]
  /\ UNCHANGED <<postgres, conns, tasks, requests, restarts, history, losses, missed>>

(* The index sets outlive the process, and so does what is torn. *)
ProcessRestart ==
  /\ Restart
  /\ Redis!ProcessRestart
  /\ UNCHANGED <<bounds, missed>>

RedisQueryStep(r) ==
  \/ AsBefore /\ (\/ Acquire(r) \/ AcquireFails(r) \/ Lookup(r) \/ LookupFails(r)
                  \/ Select(r) \/ SelectFails(r))
  \/ FillSet(r) \/ FillSadd(r) \/ FillEnd(r) \/ FillLost(r) \/ FillRaises(r)

RedisMutationStep(w) ==
  \/ AsBefore /\ (\/ Acquire(w) \/ AcquireFails(w) \/ Update(w) \/ Commit(w)
                  \/ TransactionFails(w))
  \/ DeleteStart(w) \/ DeleteLoad(w) \/ DeleteEval(w) \/ DeleteRaises(w)
  \/ DeleteLost(w) \/ DeleteUnrenderable(w)

RedisNext ==
  \/ \E r \in Reader, k \in Key : BeginQuery(r, k) /\ AsBefore
  \/ \E r \in Reader : RedisQueryStep(r)
  \/ \E w \in Writer, m \in Mutation : BeginMutation(w, m) /\ AsBefore
  \/ \E w \in Writer : RedisMutationStep(w)
  \/ \E k \in Key : Expire(k) /\ AsBefore
  \/ ServerRestart
  \/ ProcessRestart
  \/ Finished /\ AsBefore

RedisSpec == RedisInit /\ [][RedisNext]_redisVars

-----------------------------------------------------------------------------
(* On Redis an out-of-date entry has the three causes of StaleExplained    *)
(* and one more: a deletion ran between the SET and the SADD of the entry, *)
(* or after a pipeline that never got to its SADD.                         *)
RedisStaleExplained ==
  \A k \in Key, d \in Datum :
    (live[k] # None /\ Superseded(live[k], k, d)) =>
       k \in tainted \/ k \in missed \/ Explained(k, d)
=============================================================================
