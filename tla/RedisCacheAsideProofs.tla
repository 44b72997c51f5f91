------------------------ MODULE RedisCacheAsideProofs ------------------------
(***************************************************************************)
(* For any number of queries and mutations, lost connections and restarts  *)
(* of either process: what is out of date on Redis has one of the four     *)
(* causes RedisStaleExplained names, no connection is held between two     *)
(* commands, and /stats adds up.  The commands keep what                   *)
(* RedisBackendProofs shows of them, and the payloads in flight are        *)
(* treated as in CacheAsideProofs.                                         *)
(***************************************************************************)
EXTENDS RedisCacheAside, CacheAsideProofs, FiniteSetTheorems

RB == INSTANCE RedisBackendProofs WITH
  Caller <- Task, Value <- Payload, store <- live,
  calls <- 0, restarts <- serverRestarts,
  MaxCalls <- 0, MaxRestarts <- MaxServerRestarts

(* A task waits for Redis at the place its pc says, and a deletion is that *)
(* of its current target.                                                  *)
Linked ==
  /\ \A t \in Task : at[t] = "pipeline" => t \in Reader /\ pc[t] = "indexing"
  /\ \A w \in Writer : at[w] \in {"load", "script"} =>
       /\ pc[w] = "invalidate" /\ Current(w).by # "unrenderable"
       /\ arg[w] = IndexOf(Current(w))

RInv == /\ TypeOK /\ WellFormed /\ Linked /\ RB!Reachable
        /\ InFlightExplained /\ RedisStaleExplained

-----------------------------------------------------------------------------
(* Redis and RB are two instances of the same actions.                     *)

LEMMA CommandsAssumption == RB!RedisAssumption
<1>1. IsFiniteSet(Task)
  BY CacheAsideAssumption, FS_Union DEF Task
<1> QED  BY <1>1, CacheAsideAssumption, RedisCacheAsideAssumption
            DEF RB!RedisAssumption, RB!IsFiniteSet, IsFiniteSet, Payload

LEMMA SameIndexes ==
  /\ Redis!Index = RB!Index
  /\ \A k \in Key : Redis!IndexesOf(k) = RB!IndexesOf(k)
  /\ Redis!InPipeline = RB!InPipeline
<1>1. /\ \A r : Redis!RuleIndex(r) = RB!RuleIndex(r)
      /\ \A t : Redis!TagIndex(t) = RB!TagIndex(t)
  BY DEF Redis!RuleIndex, RB!RuleIndex, Redis!TagIndex, RB!TagIndex
<1> QED  BY <1>1 DEF Redis!Index, RB!Index, Redis!IndexesOf, RB!IndexesOf, Redis!InPipeline,
                     RB!InPipeline

LEMMA SameStores ==
  ASSUME NEW t \in Task
  PROVE  /\ \A k \in Key, v \in Payload : Redis!PipelineSet(t, k, v) => RB!PipelineSet(t, k, v)
         /\ Redis!PipelineSadd(t) => RB!PipelineSadd(t)
         /\ Redis!PipelineEnd(t) => RB!PipelineEnd(t)
         /\ Redis!PipelineLost(t) => RB!PipelineLost(t)
BY SameIndexes
   DEF Redis!PipelineSet, RB!PipelineSet, Redis!PipelineSadd, RB!PipelineSadd,
       Redis!PipelineEnd, RB!PipelineEnd, Redis!PipelineLost, RB!PipelineLost, Redis!Call,
       RB!Call, Redis!Sadd, RB!Sadd, Redis!Return, RB!Return, Redis!Leave, RB!Leave,
       Redis!CutShort, RB!CutShort, Redis!Unsent, RB!Unsent, Redis!ToSet, RB!ToSet,
       Redis!server, RB!server, Redis!callers, RB!callers

LEMMA SameDeletions ==
  ASSUME NEW t \in Task
  PROVE  /\ \A i \in Redis!Index : Redis!StartDel(t, i) => RB!StartDel(t, i)
         /\ Redis!LoadScript(t) => RB!LoadScript(t)
         /\ Redis!LoadLost(t) => RB!LoadLost(t)
         /\ Redis!EvalSha(t) => RB!EvalSha(t)
         /\ Redis!EvalRaises(t) => RB!EvalRaises(t)
         /\ \A ran \in BOOLEAN : Redis!EvalLost(t, ran) => RB!EvalLost(t, ran)
BY DEF Redis!StartDel, RB!StartDel, Redis!LoadScript, RB!LoadScript, Redis!LoadLost,
       RB!LoadLost, Redis!EvalSha, RB!EvalSha, Redis!EvalRaises, RB!EvalRaises,
       Redis!EvalLost, RB!EvalLost, Redis!RunScript, RB!RunScript, Redis!Cardinality,
       RB!Cardinality, Redis!Call, RB!Call, Redis!Return, RB!Return, Redis!Leave, RB!Leave,
       Redis!server, RB!server, Redis!callers, RB!callers

LEMMA SameRestarts ==
  /\ Redis!ProcessRestart => RB!ProcessRestart
  /\ Redis!ServerRestart => RB!ServerRestart
BY SameIndexes
   DEF Redis!ProcessRestart, RB!ProcessRestart, Redis!ServerRestart, RB!ServerRestart,
       Redis!CutShort, RB!CutShort, Redis!Unsent, RB!Unsent, Redis!Leave, RB!Leave,
       Redis!ToSet, RB!ToSet, Redis!server, RB!server, Redis!callers, RB!callers,
       Redis!NoCounts, RB!NoCounts

LEMMA SameReach ==
  \A k \in Key : \A i : Redis!Unreachable(k, i) <=> RB!Unreachable(k, i)
BY SameIndexes DEF Redis!Unreachable, RB!Unreachable, Redis!Adding, RB!Adding, Redis!ToSet, RB!ToSet

-----------------------------------------------------------------------------
(* Frames: what a step of one task does to the rest.                       *)

LEMMA LinkedStays ==
  ASSUME Linked, NEW t \in Task, pc[t] \notin {"indexing", "invalidate"},
         UNCHANGED <<at, arg>>,
         \A u \in Task \ {t} : pc'[u] = pc[u],
         \A w \in Writer \ {t} : mut'[w] = mut[w] /\ pos'[w] = pos[w]
  PROVE  Linked'
<1>1. \A w \in Writer : w \in Task
  BY DEF Task
<1> QED  BY <1>1 DEF Linked, Current

LEMMA LinkedLeaves ==
  ASSUME Linked, NEW C \in SUBSET Task, Redis!Leave(C),
         \A u \in Task \ C : pc'[u] = pc[u],
         \A w \in Writer \ C : mut'[w] = mut[w] /\ pos'[w] = pos[w]
  PROVE  Linked'
<1>1. \A u \in Task : at'[u] = (IF u \in C THEN "idle" ELSE at[u])
                     /\ arg'[u] = (IF u \in C THEN None ELSE arg[u])
  BY DEF Redis!Leave
<1>2. \A w \in Writer : w \in Task
  BY DEF Task
<1> QED  BY <1>1, <1>2 DEF Linked, Current

(* Entries may go, and be known to be out of date. *)
LEMMA RedisStaleFrame ==
  ASSUME RedisStaleExplained, db' = db,
         \A k \in Key, d \in Datum : Explained(k, d) => Explained(k, d)',
         \A k \in Key : live'[k] # None =>
           /\ live'[k] = live[k]
           /\ k \in tainted => k \in tainted'
           /\ k \in missed => k \in missed'
  PROVE  RedisStaleExplained'
BY DEF RedisStaleExplained, Superseded

LEMMA RedisQuiet ==
  ASSUME TypeOK, WellFormed, InFlightExplained, RedisStaleExplained,
         UNCHANGED <<db, committed, pos, tainted, missed>>,
         \A w \in committed : mut'[w] = mut[w],
         \A k \in Key : live'[k] \in {live[k], None},
         \A r \in Reader : pc'[r] = "fill" =>
           /\ pc[r] = "fill" /\ got'[r] = got[r] /\ key'[r] = key[r]
           /\ r \in outrun => r \in outrun'
  PROVE  InFlightExplained' /\ RedisStaleExplained'
<1>1. \A k \in Key, d \in Datum : Explained(k, d) => Explained(k, d)'
  BY ExplanationLasts
<1>2. RedisStaleExplained'
  BY <1>1, RedisStaleFrame
<1> QED  BY <1>1, <1>2, InFlightFrame

-----------------------------------------------------------------------------
(* The steps that are those of CacheAside.                                 *)

AsideQuery(r) ==
  \/ Acquire(r) \/ AcquireFails(r) \/ Lookup(r) \/ LookupFails(r)
  \/ Select(r) \/ SelectFails(r)

AsideMutation(w) ==
  \/ Acquire(w) \/ AcquireFails(w) \/ Update(w) \/ Commit(w) \/ TransactionFails(w)

Aside ==
  \/ \E r \in Reader, k \in Key : BeginQuery(r, k)
  \/ \E r \in Reader : AsideQuery(r)
  \/ \E w \in Writer, m \in Mutation : BeginMutation(w, m)
  \/ \E w \in Writer : AsideMutation(w) \/ DeleteUnrenderable(w)
  \/ \E k \in Key : Expire(k)
  \/ UNCHANGED vars

LEMMA AsideNext == Aside => [Next]_vars
<1>1. ASSUME NEW w \in Writer, DeleteUnrenderable(w) PROVE InvalidateFails(w)
  BY <1>1 DEF DeleteUnrenderable, InvalidateFails, backend, history
<1> QED  BY <1>1 DEF Aside, AsideQuery, AsideMutation, Next, QueryStep, MutationStep

LEMMA AsideTyped == TypeOK /\ WellFormed /\ Aside => TypeOK' /\ WellFormed'
BY AsideNext, NextTyped DEF Typed

LEMMA AsideLinked == TypeOK /\ Linked /\ Aside /\ AsBefore => Linked'
<1> SUFFICES ASSUME TypeOK, Linked, Aside, AsBefore PROVE Linked'
  OBVIOUS
<1>1. UNCHANGED <<at, arg>>
  BY DEF AsBefore, redisOnly
<1>2. ASSUME NEW r \in Reader, (\E k \in Key : BeginQuery(r, k)) \/ AsideQuery(r) PROVE Linked'
  <2>1. /\ r \in Task /\ pc[r] \notin {"indexing", "invalidate"} /\ UNCHANGED <<mut, pos>>
        /\ \A u \in Task \ {r} : pc'[u] = pc[u]
    BY <1>2 DEF BeginQuery, AsideQuery, Acquire, AcquireFails, Lookup, LookupFails, Select,
           SelectFails, Raise, Goto, tasks, TypeOK, Task
  <2> QED  BY <1>1, <2>1, LinkedStays
<1>3. ASSUME NEW w \in Writer, NEW m \in Mutation, BeginMutation(w, m) PROVE Linked'
  <2>1. /\ w \in Task /\ pc[w] \notin {"indexing", "invalidate"} /\ UNCHANGED pos
        /\ \A u \in Task \ {w} : pc'[u] = pc[u]
        /\ \A u \in Writer \ {w} : mut'[u] = mut[u]
    BY <1>3 DEF BeginMutation, Goto, TypeOK, Task
  <2> QED  BY <1>1, <2>1, LinkedStays
<1>4. ASSUME NEW w \in Writer, AsideMutation(w) PROVE Linked'
  <2>1. /\ w \in Task /\ pc[w] \notin {"indexing", "invalidate"} /\ UNCHANGED <<mut, pos>>
        /\ \A u \in Task \ {w} : pc'[u] = pc[u]
    BY <1>4 DEF AsideMutation, Acquire, AcquireFails, Update, Commit, TransactionFails,
           Raise, Goto, tasks, TypeOK, Task
  <2> QED  BY <1>1, <2>1, LinkedStays
<1>5. ASSUME NEW w \in Writer, DeleteUnrenderable(w) PROVE Linked'
  <2>1. /\ w \in Task /\ Current(w).by = "unrenderable" /\ pc[w] = "invalidate"
        /\ UNCHANGED <<mut, pos>> /\ \A u \in Task \ {w} : pc'[u] = pc[u]
    BY <1>5 DEF DeleteUnrenderable, Raise, Goto, tasks, TypeOK, Task
  <2>2. at[w] \notin {"pipeline", "load", "script"}
    BY <2>1 DEF Linked
  <2>3. \A u \in Writer : u \in Task
    BY DEF Task
  <2> QED  BY <1>1, <2>1, <2>2, <2>3 DEF Linked, Current
<1>6. ASSUME UNCHANGED <<pc, mut, pos>> PROVE Linked'
  BY <1>1, <1>6 DEF Linked, Current
<1>7. CASE (\E k \in Key : Expire(k)) \/ UNCHANGED vars
  BY <1>6, <1>7 DEF Expire, vars, tasks
<1> QED  BY <1>2, <1>3, <1>4, <1>5, <1>7 DEF Aside

LEMMA AsideCauses ==
  TypeOK /\ WellFormed /\ InFlightExplained /\ RedisStaleExplained /\ Aside /\ AsBefore
    => InFlightExplained' /\ RedisStaleExplained'
<1> SUFFICES ASSUME TypeOK, WellFormed, InFlightExplained, RedisStaleExplained, Aside, AsBefore
             PROVE  InFlightExplained' /\ RedisStaleExplained'
  OBVIOUS
<1>0. missed' = missed
  BY DEF AsBefore
<1>1. ASSUME NEW r \in Reader, (\E k \in Key : BeginQuery(r, k)) \/ (AsideQuery(r) /\ ~ Select(r))
      PROVE  InFlightExplained' /\ RedisStaleExplained'
  <2>1. UNCHANGED <<db, committed, pos, mut, tainted, live, got, outrun>>
    BY <1>1 DEF AsideQuery, BeginQuery, Acquire, AcquireFails, Lookup, LookupFails, SelectFails,
           Backend!Get, backend, postgres, tasks, history
  <2>2. \A q \in Reader : pc'[q] = "fill" => pc[q] = "fill" /\ key'[q] = key[q]
    BY <1>1 DEF AsideQuery, BeginQuery, Acquire, AcquireFails, Lookup, LookupFails, SelectFails,
           Raise, Goto, tasks, TypeOK, Task
  <2> QED  BY <1>0, <2>1, <2>2, RedisQuiet
<1>2. ASSUME NEW r \in Reader, Select(r) PROVE InFlightExplained' /\ RedisStaleExplained'
  <2>1. UNCHANGED <<db, committed, pos, mut, tainted, live>>
    BY <1>2 DEF Select, backend, postgres, history
  <2>2. RedisStaleExplained'
    BY <1>0, <2>1, ExplanationLasts, RedisStaleFrame
  <2> QED  BY <1>2, <2>2, SelectInFlight
<1>3. ASSUME NEW w \in Writer, NEW m \in Mutation, BeginMutation(w, m)
      PROVE  InFlightExplained' /\ RedisStaleExplained'
  <2>1. UNCHANGED <<db, committed, pos, tainted, live, got, key, outrun>>
    BY <1>3 DEF BeginMutation, backend, postgres, history
  <2>2. \A u \in committed : mut'[u] = mut[u]
    BY <1>3 DEF BeginMutation, TypeOK, WellFormed
  <2>3. \A q \in Reader : pc'[q] = "fill" => pc[q] = "fill"
    BY <1>3 DEF BeginMutation, Goto, TypeOK, Task
  <2> QED  BY <1>0, <2>1, <2>2, <2>3, RedisQuiet
<1>4. ASSUME NEW w \in Writer, AsideMutation(w) \/ DeleteUnrenderable(w)
      PROVE  InFlightExplained' /\ RedisStaleExplained'
  <2>1. /\ UNCHANGED <<pos, mut, tainted, live, got, key, outrun>>
        /\ UNCHANGED <<db, committed>> \/ (pc[w] = "commit" /\ Apply(w))
    BY <1>4 DEF AsideMutation, DeleteUnrenderable, Acquire, AcquireFails, Update, Commit,
           TransactionFails, backend, postgres, tasks, history
  <2>2. w \in Task /\ w \notin Reader
    BY Constants DEF Task
  <2>3. \A q \in Reader : pc'[q] = "fill" => pc[q] = "fill"
    BY <1>4, <2>2 DEF AsideMutation, DeleteUnrenderable, Acquire, AcquireFails, Update, Commit,
           TransactionFails, Raise, Goto, TypeOK, Task
  <2>4. CASE UNCHANGED <<db, committed>>
    BY <1>0, <2>1, <2>3, <2>4, RedisQuiet
  <2>5. CASE pc[w] = "commit" /\ Apply(w)
    <3>1. \A k \in Key, d \in Datum : Explained(k, d) => Explained(k, d)'
      BY <2>1, <2>5, ExplanationLasts DEF Apply
    <3>2. \A k \in Key, d \in Datum : db'[d] # db[d] => Explained(k, d)'
      BY <2>1, <2>5, ApplyExplains
    <3>3. RedisStaleExplained'
      BY <1>0, <2>1, <3>1, <3>2 DEF RedisStaleExplained, Superseded
    <3> QED  BY <2>1, <2>3, <2>5, <3>3, ApplyInFlight
  <2> QED  BY <2>1, <2>4, <2>5
<1>5. ASSUME NEW k \in Key, Expire(k) PROVE InFlightExplained' /\ RedisStaleExplained'
  BY <1>0, <1>5, RedisQuiet DEF Expire, Backend!Drop, Backend!Without, postgres, tasks, history
<1>6. CASE UNCHANGED vars
  BY <1>0, <1>6, RedisQuiet DEF vars, backend, postgres, tasks, history
<1> QED  BY <1>1, <1>2, <1>3, <1>4, <1>5, <1>6 DEF Aside

(* To the server they are expiries, or nothing. *)
LEMMA AsideCommands ==
  TypeOK /\ WellFormed /\ Aside /\ AsBefore => RB!Commands
<1> SUFFICES ASSUME TypeOK, WellFormed, Aside, AsBefore PROVE RB!Commands
  OBVIOUS
<1>1. UNCHANGED <<index, scripts, sha, at, arg, todo, torn>>
  BY DEF AsBefore, redisOnly
<1>2. CASE live' = live
  <2>1. counters' \in RB!Counts /\ ret' \in Payload \cup {None}
    BY AsideTyped DEF TypeOK, Backend!TypeOK, Backend!CacheCounters, RB!Counts
  <2> QED  BY <1>1, <1>2, <2>1 DEF RB!Commands, RB!server, RB!callers
<1>3. ASSUME NEW k \in Key, Expire(k) PROVE RB!Commands
  <2>1. RB!Expire(k)
    <3>1. live' = [live EXCEPT ![k] = None]
      BY <1>3 DEF Expire, Backend!Drop, Backend!Without, TypeOK, Backend!TypeOK
    <3> QED  BY <1>1, <1>3, <3>1 DEF Expire, Backend!Drop, RB!Expire, RB!callers
  <2> QED  BY <2>1 DEF RB!Commands
<1>4. (\E k \in Key : Expire(k)) \/ live' = live
  BY DEF Aside, AsideQuery, AsideMutation, BeginQuery, BeginMutation, Acquire, AcquireFails,
         Lookup, LookupFails, Select, SelectFails, Update, Commit, TransactionFails,
         DeleteUnrenderable, Backend!Get, backend, vars
<1> QED  BY <1>2, <1>3, <1>4

-----------------------------------------------------------------------------
(* The steps of a store.                                                   *)

Store(r) == FillSet(r) \/ FillSadd(r) \/ FillEnd(r) \/ FillLost(r) \/ FillRaises(r)

(* A task waiting in a pipeline is a query that is storing. *)
LEMMA Piped ==
  ASSUME RInv, NEW t \in Task, at[t] = "pipeline"
  PROVE  t \in Reader /\ pc[t] = "indexing" /\ key[t] \in Key
BY DEF RInv, Linked, WellFormed

LEMMA StoreCommands ==
  ASSUME RInv, NEW r \in Reader, Store(r) PROVE RB!Commands
<1> r \in Task
  BY DEF Task
<1>1. CASE FillSet(r)
  <2>1. key[r] \in Key /\ got[r] \in Payload
    BY <1>1 DEF FillSet, RInv, WellFormed
  <2>2. RB!PipelineSet(r, key[r], got[r])
    BY <1>1, <2>1, SameStores DEF FillSet
  <2> QED  BY <2>1, <2>2 DEF RB!Commands
<1>2. CASE FillSadd(r) \/ FillEnd(r) \/ FillLost(r)
  <2>1. RB!PipelineSadd(r) \/ RB!PipelineEnd(r) \/ RB!PipelineLost(r)
    BY <1>2, SameStores DEF FillSadd, FillEnd, FillLost
  <2> QED  BY <2>1 DEF RB!Commands
<1>3. CASE FillRaises(r)
  <2>1. UNCHANGED <<live, counters, ret, index, scripts, sha, at, arg, todo, torn>>
    BY <1>3 DEF FillRaises, backend, redisOnly
  <2>2. counters \in RB!Counts /\ ret \in Payload \cup {None}
    BY DEF RInv, TypeOK, Backend!TypeOK, Backend!CacheCounters, RB!Counts
  <2> QED  BY <2>1, <2>2 DEF RB!Commands, RB!server, RB!callers
<1> QED  BY <1>1, <1>2, <1>3 DEF Store

(* The places change and little else of what WellFormed reads. *)
LEMMA FormFrame ==
  ASSUME WellFormed, UNCHANGED <<key, mut, pos, committed>>,
         \A r \in Reader : pc'[r] = "fill" => pc[r] = "fill" /\ got'[r] = got[r],
         \A t \in Task : pc[t] = "idle" => pc'[t] = "idle",
         \A w \in Writer : pc'[w] \in {"idle", "acquire", "update", "commit", "invalidate"}
                             => pc'[w] = pc[w]
  PROVE  WellFormed'
<1>1. Reader \subseteq Task /\ Writer \subseteq Task
  BY DEF Task
<1> QED  BY <1>1 DEF WellFormed

LEMMA StoreTyped ==
  ASSUME RInv, NEW r \in Reader, Store(r), Backend!TypeOK' PROVE TypeOK' /\ WellFormed'
<1> r \in Task /\ r \notin Writer /\ TypeOK /\ WellFormed
  BY Constants DEF Task, RInv
<1>1. /\ UNCHANGED <<db, lock, committed, conns, key, mut, pos, requests, restarts>>
      /\ tainted' \subseteq Key /\ outrun' \subseteq Reader
      /\ got' \in [Reader -> Payload \cup {None}]
      /\ \A q \in Reader : pc'[q] = "fill" => got'[q] = got[q]
  <2>1. CASE FillSet(r) \/ FillRaises(r)
    <3>1. pc'[r] # "fill"
      BY <2>1 DEF FillSet, FillRaises, Raise, Goto, TypeOK
    <3>2. key[r] \in Key
      BY <2>1 DEF FillSet, FillRaises, WellFormed
    <3> QED  BY <2>1, <3>1, <3>2 DEF FillSet, FillRaises, Stored, Forget, TypeOK, postgres, stats
  <2>2. CASE FillSadd(r) \/ FillEnd(r) \/ FillLost(r)
    BY <2>2 DEF FillSadd, FillEnd, FillLost, TypeOK, postgres, tasks, stats, history
  <2> QED  BY <2>1, <2>2 DEF Store
<1>2. pc[r] \in {"fill", "indexing"}
  BY Piped DEF Store, FillSet, FillSadd, FillEnd, FillLost, FillRaises, Redis!PipelineSadd,
       Redis!PipelineEnd, Redis!PipelineLost
<1>3. /\ pc' \in [Task -> Places] /\ errors' \in [violation : Nat, internal : Nat]
      /\ \A t \in Task : pc'[t] = pc[t] \/ (t = r /\ pc'[t] \in {"indexing", "done", "failed"})
  <2>1. CASE FillSet(r) \/ FillEnd(r)
    BY <2>1 DEF FillSet, FillEnd, Goto, TypeOK, Places, stats
  <2>2. CASE FillSadd(r)
    BY <2>2 DEF FillSadd, TypeOK, stats
  <2>3. CASE FillLost(r) \/ FillRaises(r)
    BY <2>3 DEF FillLost, FillRaises, Raise, Goto, TypeOK, Places
  <2> QED  BY <2>1, <2>2, <2>3 DEF Store
<1>4. TypeOK'
  BY <1>1, <1>3 DEF TypeOK
<1>5. WellFormed'
  <2>1. \A t \in Task : pc[t] = "idle" => pc'[t] = "idle"
    BY <1>2, <1>3
  <2>2. \A q \in Reader : pc'[q] = "fill" => pc[q] = "fill" /\ got'[q] = got[q]
    BY <1>1, <1>3 DEF Task
  <2>3. \A w \in Writer : pc'[w] = pc[w]
    BY <1>3 DEF Task
  <2> QED  BY <1>1, <2>1, <2>2, <2>3, FormFrame
<1> QED  BY <1>4, <1>5

LEMMA StoreLinked ==
  ASSUME RInv, NEW r \in Reader, Store(r) PROVE Linked'
<1> r \in Task /\ r \notin Writer /\ TypeOK /\ Linked /\ RB!TypeOK
  BY Constants DEF Task, RInv, RB!Reachable
<1>1. CASE FillSet(r)
  <2>1. /\ pc' = [pc EXCEPT ![r] = "indexing"] /\ UNCHANGED <<mut, pos>>
        /\ at' = [at EXCEPT ![r] = "pipeline"]
        /\ \A u \in Writer : arg'[u] = arg[u]
    BY <1>1 DEF FillSet, Goto, Redis!PipelineSet, RB!TypeOK
  <2>2. Writer \subseteq Task
    BY DEF Task
  <2> QED  BY <2>1, <2>2 DEF Linked, Current, TypeOK, RB!TypeOK
<1>2. CASE FillSadd(r)
  BY <1>2 DEF FillSadd, Redis!PipelineSadd, tasks, Linked, Current
<1>3. CASE FillEnd(r) \/ FillLost(r)
  <2>1. Redis!Leave({r})
    BY <1>3 DEF FillEnd, FillLost, Redis!PipelineEnd, Redis!PipelineLost, Redis!Return,
                Redis!CutShort
  <2>2. /\ \A u \in Task \ {r} : pc'[u] = pc[u]
        /\ UNCHANGED <<mut, pos>>
    BY <1>3 DEF FillEnd, FillLost, Raise, Goto, TypeOK, tasks
  <2>3. {r} \in SUBSET Task
    OBVIOUS
  <2> HIDE DEF Redis!Leave
  <2> QED  BY <2>1, <2>2, <2>3, LinkedLeaves
<1>4. CASE FillRaises(r)
  <2>1. /\ pc[r] = "fill" /\ UNCHANGED <<at, arg, mut, pos>>
        /\ \A u \in Task \ {r} : pc'[u] = pc[u]
    BY <1>4 DEF FillRaises, Raise, Goto, TypeOK, redisOnly
  <2> QED  BY <2>1, LinkedStays
<1> QED  BY <1>1, <1>2, <1>3, <1>4 DEF Store

(* The payload a SET brings in was explained in flight. *)
LEMMA StoreCauses ==
  ASSUME RInv, NEW r \in Reader, Store(r)
  PROVE  InFlightExplained' /\ RedisStaleExplained'
<1> /\ r \in Task /\ TypeOK /\ WellFormed /\ InFlightExplained /\ RedisStaleExplained
  BY DEF Task, RInv
<1>1. CASE FillSet(r)
  <2>1. /\ UNCHANGED <<db, committed, pos, mut, key>>
        /\ live' = [live EXCEPT ![key[r]] = got[r]]
        /\ tainted' = IF r \in outrun THEN tainted \cup {key[r]} ELSE tainted \ {key[r]}
        /\ missed' = missed \ {key[r]}
        /\ pc[r] = "fill" /\ pc' = [pc EXCEPT ![r] = "indexing"]
        /\ got' = [got EXCEPT ![r] = None] /\ outrun' = outrun \ {r}
    BY <1>1 DEF FillSet, Redis!PipelineSet, Stored, Forget, Goto, postgres
  <2>2. \A k \in Key, d \in Datum : Explained(k, d) => Explained(k, d)'
    BY <2>1, ExplanationLasts
  <2>3. InFlightExplained'
    <3>1. \A q \in Reader : pc'[q] = "fill" =>
            /\ pc[q] = "fill" /\ got'[q] = got[q] /\ key'[q] = key[q]
            /\ q \in outrun => q \in outrun'
      BY <2>1 DEF TypeOK, Task
    <3> QED  BY <2>1, <2>2, <3>1, InFlightFrame
  <2>4. RedisStaleExplained'
    <3>1. ASSUME NEW k \in Key, NEW d \in Datum, live'[k] # None, Superseded(live[k], k, d)',
                 k = key[r]
          PROVE  k \in tainted' \/ Explained(k, d)'
      <4>1. live'[k] = got[r]
        BY <2>1, <3>1 DEF TypeOK, Backend!TypeOK
      <4>2. Superseded(got[r], key[r], d)
        BY <2>1, <3>1, <4>1 DEF Superseded
      <4>3. r \in outrun \/ Explained(k, d)
        BY <2>1, <3>1, <4>2 DEF InFlightExplained
      <4> QED  BY <2>1, <2>2, <3>1, <4>3
    <3>2. ASSUME NEW k \in Key, NEW d \in Datum, live'[k] # None, Superseded(live[k], k, d)',
                 k # key[r]
          PROVE  k \in tainted' \/ k \in missed' \/ Explained(k, d)'
      <4>1. live'[k] = live[k] /\ Superseded(live[k], k, d)
        BY <2>1, <3>2 DEF TypeOK, Backend!TypeOK, Superseded
      <4>2. k \in tainted \/ k \in missed \/ Explained(k, d)
        BY <3>2, <4>1 DEF RedisStaleExplained
      <4> QED  BY <2>1, <2>2, <3>2, <4>2
    <3> QED  BY <3>1, <3>2 DEF RedisStaleExplained
  <2> QED  BY <2>3, <2>4
<1>2. CASE FillSadd(r) \/ FillEnd(r) \/ FillLost(r) \/ FillRaises(r)
  <2>1. /\ UNCHANGED <<db, committed, pos, mut, key, tainted, missed, live>>
    BY <1>2 DEF FillSadd, FillEnd, FillLost, FillRaises, Redis!PipelineSadd, Redis!PipelineEnd,
         Redis!PipelineLost, postgres, tasks, history, backend
  <2>2. \A q \in Reader : pc'[q] = "fill" =>
          /\ pc[q] = "fill" /\ got'[q] = got[q]
          /\ q \in outrun => q \in outrun'
    BY <1>2 DEF FillSadd, FillEnd, FillLost, FillRaises, Forget, Raise, Goto, tasks, history,
         TypeOK, Task
  <2> QED  BY <2>1, <2>2, RedisQuiet
<1> QED  BY <1>1, <1>2 DEF Store

-----------------------------------------------------------------------------
(* The steps of a deletion.                                                *)

Deletion(w) ==
  DeleteStart(w) \/ DeleteLoad(w) \/ DeleteEval(w) \/ DeleteRaises(w) \/ DeleteLost(w)

(* What a mutation is deleting, and the index set that stands for it. *)
LEMMA Deleting ==
  ASSUME RInv, NEW w \in Writer, pc[w] = "invalidate", Current(w).by # "unrenderable"
  PROVE  /\ mut[w] \in Mutation /\ pos[w] \in 1 .. Len(Targets[mut[w]])
         /\ Covered(Current(w)) \in SUBSET Key
         /\ IndexOf(Current(w)) \in RB!Index
         /\ \A k \in Covered(Current(w)) :
              RuleOf[k] # None /\ IndexOf(Current(w)) \in RB!ToSet(RB!IndexesOf(k))
<1>1. mut[w] \in Mutation /\ pos[w] \in 1 .. Len(Targets[mut[w]])
  BY Constants DEF RInv, WellFormed, TypeOK
<1>2. Current(w) \in Target
  BY <1>1, Constants DEF Current
<1>3. Covered(Current(w)) \in SUBSET Key
  BY DEF Covered
<1>4. CASE Current(w).by = "rule"
  <2>1. Current(w).of \in Rule /\ IndexOf(Current(w)) = RB!RuleIndex(Current(w).of)
    BY <1>2, <1>4 DEF Target, IndexOf, Redis!RuleIndex, RB!RuleIndex
  <2>2. ASSUME NEW k \in Covered(Current(w))
        PROVE  RuleOf[k] # None /\ IndexOf(Current(w)) \in RB!ToSet(RB!IndexesOf(k))
    <3>1. k \in Key /\ RuleOf[k] = Current(w).of /\ RuleOf[k] # None
      BY <1>4, <2>1, <2>2, CacheAsideAssumption DEF Covered
    <3> QED  BY <2>1, <3>1, CommandsAssumption, RB!IndexesOfKey
  <2> QED  BY <1>1, <1>3, <2>1, <2>2 DEF RB!Index
<1>5. CASE Current(w).by = "tag"
  <2>1. Current(w).of \in Tag /\ IndexOf(Current(w)) = RB!TagIndex(Current(w).of)
    BY <1>2, <1>5 DEF Target, IndexOf, Redis!TagIndex, RB!TagIndex
  <2>2. ASSUME NEW k \in Covered(Current(w))
        PROVE  RuleOf[k] # None /\ IndexOf(Current(w)) \in RB!ToSet(RB!IndexesOf(k))
    <3>1. k \in Key /\ Current(w).of \in TagsOf[k]
      BY <1>5, <2>2 DEF Covered
    <3>2. Current(w).of \in RB!ToSet(TagSeq[k])
      BY <3>1, RedisCacheAsideAssumption DEF RB!ToSet
    <3>3. RuleOf[k] # None
      <4>1. RB!ToSet(<<>>) = {}
        BY DEF RB!ToSet
      <4> QED  BY <3>1, <3>2, <4>1, RedisCacheAsideAssumption
    <3> QED  BY <2>1, <3>1, <3>2, <3>3, CommandsAssumption, RB!IndexesOfKey
  <2> QED  BY <1>1, <1>3, <2>1, <2>2 DEF RB!Index
<1>6. Current(w).by \in {"rule", "tag"}
  BY <1>2 DEF Target
<1> QED  BY <1>4, <1>5, <1>6

LEMMA InScript ==
  ASSUME RInv, NEW w \in Writer, at[w] \in {"load", "script"}
  PROVE  /\ pc[w] = "invalidate" /\ Current(w).by # "unrenderable"
         /\ arg[w] = IndexOf(Current(w))
BY DEF RInv, Linked

LEMMA DeletionCommands ==
  ASSUME RInv, NEW w \in Writer, Deletion(w) PROVE RB!Commands
<1> w \in Task
  BY DEF Task
<1>1. CASE DeleteStart(w)
  <2>1. IndexOf(Current(w)) \in RB!Index /\ Redis!Index = RB!Index
    BY <1>1, Deleting, SameIndexes DEF DeleteStart
  <2>2. RB!StartDel(w, IndexOf(Current(w)))
    BY <1>1, <2>1, SameDeletions DEF DeleteStart
  <2> QED  BY <2>1, <2>2 DEF RB!Commands
<1>2. CASE DeleteLoad(w) \/ DeleteEval(w) \/ DeleteRaises(w) \/ DeleteLost(w)
  <2>1. \/ RB!LoadScript(w) \/ RB!EvalSha(w) \/ RB!EvalRaises(w) \/ RB!LoadLost(w)
        \/ \E ran \in BOOLEAN : RB!EvalLost(w, ran)
    BY <1>2, SameDeletions DEF DeleteLoad, DeleteEval, DeleteRaises, DeleteLost
  <2> QED  BY <2>1 DEF RB!Commands
<1> QED  BY <1>1, <1>2 DEF Deletion

LEMMA PassTyped ==
  ASSUME RInv, NEW w \in Writer, Pass(w) PROVE outrun' \subseteq Reader /\ tainted' \subseteq Key
BY DEF Pass, RInv, TypeOK

LEMMA DeletionTyped ==
  ASSUME RInv, NEW w \in Writer, Deletion(w), Backend!TypeOK' PROVE TypeOK' /\ WellFormed'
<1> w \in Task /\ w \notin Reader /\ TypeOK /\ WellFormed
  BY Constants DEF Task, RInv
<1>1. /\ UNCHANGED <<db, lock, committed, conns, key, mut, got, requests, restarts>>
      /\ pc[w] = "invalidate"
  BY InScript DEF Deletion, DeleteStart, DeleteLoad, DeleteEval, DeleteRaises, DeleteLost,
                  Redis!LoadScript,
       Redis!EvalSha, Redis!EvalRaises, Redis!LoadLost, Redis!EvalLost, postgres, tasks, stats
<1>2. outrun' \subseteq Reader /\ tainted' \subseteq Key
  BY PassTyped DEF Deletion, DeleteStart, DeleteLoad, DeleteEval, DeleteRaises, DeleteLost,
                   TypeOK, history
<1>3. mut[w] \in Mutation /\ pos[w] \in 1 .. Len(Targets[mut[w]]) /\ Len(Targets[mut[w]]) \in Nat
  BY <1>1, Constants DEF WellFormed, TypeOK
<1>4. CASE DeleteEval(w)
  <2>1. /\ pos' = [pos EXCEPT ![w] = @ + 1] /\ errors' = errors
        /\ pc' = [pc EXCEPT ![w] = IF pos[w] = Len(Targets[mut[w]]) THEN "done" ELSE "invalidate"]
    BY <1>4 DEF DeleteEval, Goto, stats
  <2>2. TypeOK'
    BY <1>1, <1>2, <2>1 DEF TypeOK, Places
  <2>3. WellFormed'
    <3>1. pc'[w] = "invalidate" => pos'[w] <= Len(Targets[mut[w]])
      BY <1>3, <2>1 DEF TypeOK
    <3>2. /\ \A t \in Task \ {w} : pc'[t] = pc[t]
          /\ \A u \in Writer \ {w} : pos'[u] = pos[u]
          /\ pc'[w] \in {"done", "invalidate"}
      BY <2>1 DEF TypeOK
    <3>3. Reader \subseteq Task /\ Writer \subseteq Task
      BY DEF Task
    <3> QED  BY <1>1, <1>3, <3>1, <3>2, <3>3 DEF WellFormed
  <2> QED  BY <2>2, <2>3
<1>5. CASE DeleteStart(w) \/ DeleteLoad(w) \/ DeleteRaises(w) \/ DeleteLost(w)
  <2>1. /\ pos' = pos /\ pc' \in [Task -> Places] /\ errors' \in [violation : Nat, internal : Nat]
        /\ \A t \in Task : pc'[t] = pc[t] \/ (t = w /\ pc'[t] = "failed")
    <3>1. CASE DeleteStart(w) \/ DeleteLoad(w)
      BY <3>1 DEF DeleteStart, DeleteLoad, TypeOK, stats, tasks
    <3>2. CASE DeleteRaises(w) \/ DeleteLost(w)
      <4>1. Raise(w, "internal", "failed") /\ pos' = pos
        BY <3>2 DEF DeleteRaises, DeleteLost, tasks
      <4>2. pc' = [pc EXCEPT ![w] = "failed"]
        BY <4>1 DEF Raise, Goto
      <4>3. \A t \in Task : pc'[t] = pc[t] \/ (t = w /\ pc'[t] = "failed")
        BY <4>2 DEF TypeOK
      <4> QED  BY <4>1, <4>3, RaiseTyped DEF Places
    <3> QED  BY <1>5, <3>1, <3>2
  <2>2. TypeOK'
    BY <1>1, <1>2, <2>1 DEF TypeOK
  <2>3. WellFormed'
    <3>1. /\ \A q \in Reader : pc'[q] = pc[q]
          /\ \A t \in Task : pc[t] = "idle" => pc'[t] = "idle"
          /\ \A u \in Writer : pc'[u] \in {pc[u], "failed"}
      BY <1>1, <2>1 DEF Task
    <3> QED  BY <1>1, <2>1, <3>1, FormFrame
  <2> QED  BY <2>2, <2>3
<1> QED  BY <1>4, <1>5 DEF Deletion

LEMMA DeletionLinked ==
  ASSUME RInv, NEW w \in Writer, Deletion(w) PROVE Linked'
<1> w \in Task /\ w \notin Reader /\ TypeOK /\ Linked /\ RB!TypeOK
  BY Constants DEF Task, RInv, RB!Reachable
<1>0. Writer \subseteq Task
  BY DEF Task
<1>1. CASE DeleteStart(w)
  <2>1. /\ UNCHANGED <<pc, mut, pos>>
        /\ pc[w] = "invalidate" /\ Current(w).by # "unrenderable"
        /\ at' = [at EXCEPT ![w] = IF sha THEN "script" ELSE "load"]
        /\ arg' = [arg EXCEPT ![w] = IndexOf(Current(w))]
    BY <1>1 DEF DeleteStart, Redis!StartDel, tasks
  <2> QED  BY <1>0, <2>1 DEF Linked, Current, RB!TypeOK
<1>2. CASE DeleteLoad(w)
  <2>1. /\ UNCHANGED <<pc, mut, pos, arg>>
        /\ at[w] = "load" /\ at' = [at EXCEPT ![w] = "script"]
    BY <1>2 DEF DeleteLoad, Redis!LoadScript, tasks
  <2> QED  BY <1>0, <2>1 DEF Linked, Current, RB!TypeOK
<1>3. CASE DeleteEval(w) \/ DeleteRaises(w) \/ DeleteLost(w)
  <2>1. Redis!Leave({w})
    BY <1>3 DEF DeleteEval, DeleteRaises, DeleteLost, Redis!EvalSha, Redis!EvalRaises,
                Redis!EvalLost,
         Redis!LoadLost, Redis!Return
  <2>2. /\ \A u \in Task \ {w} : pc'[u] = pc[u]
        /\ \A u \in Writer \ {w} : mut'[u] = mut[u] /\ pos'[u] = pos[u]
    BY <1>3 DEF DeleteEval, DeleteRaises, DeleteLost, Raise, Goto, TypeOK, tasks
  <2>3. {w} \in SUBSET Task
    OBVIOUS
  <2> QED  BY <2>1, <2>2, <2>3, LinkedLeaves
<1> QED  BY <1>1, <1>2, <1>3 DEF Deletion

(* The script takes out what is in the index set: a superseded entry of    *)
(* the target that stays was not reachable, and is missed from now on.     *)
LEMMA PassCauses ==
  ASSUME RInv, NEW w \in Writer, pc[w] = "invalidate", Current(w).by # "unrenderable",
         arg[w] = IndexOf(Current(w)), Pass(w), UNCHANGED <<db, key, got>>,
         \A k \in Key : live'[k] = IF k \in index[arg[w]] THEN None ELSE live[k],
         \A r \in Reader : pc'[r] = pc[r],
         \A k \in Key \ Covered(Current(w)), d \in Datum : Explained(k, d) => Explained(k, d)'
  PROVE  InFlightExplained' /\ RedisStaleExplained'
<1> DEFINE i == arg[w]
           keys == Covered(Current(w))
<1>1. InFlightExplained'
  <2>1. keys \in SUBSET Key /\ WellFormed /\ InFlightExplained
    BY Deleting DEF RInv
  <2> QED  BY <2>1, DeletionInFlight DEF Pass
<1>2. ASSUME NEW k \in Key, NEW d \in Datum, live'[k] # None, Superseded(live[k], k, d)'
      PROVE  k \in tainted' \/ k \in missed' \/ Explained(k, d)'
  <2>1. k \notin index[i] /\ live'[k] = live[k] /\ Superseded(live[k], k, d)
    BY <1>2 DEF Superseded
  <2>2. k \in tainted \/ k \in missed \/ Explained(k, d)
    BY <1>2, <2>1 DEF RInv, RedisStaleExplained
  <2>3. CASE k \in tainted \/ k \in missed
    BY <2>1, <2>3 DEF Pass
  <2>4. CASE Explained(k, d) /\ k \notin keys
    BY <2>4
  <2>5. CASE k \in keys
    <3>1. RuleOf[k] # None /\ i \in RB!ToSet(RB!IndexesOf(k))
      BY <2>5, Deleting
    <3>2. k \in index[i] \/ RB!Unreachable(k, i)
      BY <1>2, <2>1, <3>1 DEF RInv, RB!Reachable, RB!IndexedUnlessTorn
    <3>3. Redis!Unreachable(k, i)
      BY <2>1, <3>2, SameReach
    <3>4. Stale(k)
      BY <1>2, <2>1 DEF Stale
    <3> QED  BY <2>1, <2>5, <3>3, <3>4 DEF Pass
  <2> QED  BY <2>2, <2>3, <2>4, <2>5
<1>3. RedisStaleExplained'
  BY <1>2 DEF RedisStaleExplained
<1> QED  BY <1>1, <1>3

LEMMA DeletionCauses ==
  ASSUME RInv, NEW w \in Writer, Deletion(w)
  PROVE  InFlightExplained' /\ RedisStaleExplained'
<1> /\ w \in Task /\ w \notin Reader /\ Reader \subseteq Task
    /\ TypeOK /\ WellFormed /\ InFlightExplained /\ RedisStaleExplained
  BY Constants DEF Task, RInv
<1>0. UNCHANGED <<db, committed, key, got, mut>> /\ \A r \in Reader : pc'[r] = pc[r]
  BY DEF Deletion, DeleteStart, DeleteLoad, DeleteEval, DeleteRaises, DeleteLost, Raise,
         Goto, TypeOK,
       postgres, tasks
<1>1. CASE UNCHANGED <<live, pos, history, missed>>
  BY <1>0, <1>1, RedisQuiet DEF history
<1>2. CASE DeleteEval(w) \/ (DeleteLost(w) /\ Redis!EvalLost(w, TRUE) /\ Pass(w))
  <2>1. /\ pc[w] = "invalidate" /\ Current(w).by # "unrenderable" /\ arg[w] = IndexOf(Current(w))
        /\ Pass(w) /\ live' = [k \in Key |-> IF k \in index[arg[w]] THEN None ELSE live[k]]
        /\ UNCHANGED <<mut, committed>>
    BY <1>0, <1>2, InScript DEF DeleteEval, Redis!EvalSha, Redis!EvalLost, Redis!RunScript
  <2>2. \A k \in Key \ Covered(Current(w)), d \in Datum : Explained(k, d) => Explained(k, d)'
    <3>1. CASE DeleteEval(w)
      BY <2>1, <3>1, DeletionExplains DEF DeleteEval
    <3>2. CASE DeleteLost(w)
      BY <2>1, <3>2, ExplanationLasts DEF DeleteLost, tasks
    <3> QED  BY <1>2, <3>1, <3>2
  <2> QED  BY <1>0, <2>1, <2>2, PassCauses
<1>3. \/ UNCHANGED <<live, pos, history, missed>>
      \/ DeleteEval(w) \/ (DeleteLost(w) /\ Redis!EvalLost(w, TRUE) /\ Pass(w))
  BY DEF Deletion, DeleteStart, DeleteLoad, DeleteRaises, DeleteLost, Redis!StartDel,
         Redis!LoadScript,
       Redis!LoadLost, Redis!EvalRaises, Redis!EvalLost, Redis!server, tasks
<1> QED  BY <1>1, <1>2, <1>3

-----------------------------------------------------------------------------
(* Restarts.                                                               *)

LEMMA ServerRestartTyped ==
  ASSUME RInv, ServerRestart, Backend!TypeOK' PROVE TypeOK' /\ WellFormed' /\ Linked'
<1> DEFINE Cut == Redis!InPipeline
<1> TypeOK /\ WellFormed /\ Linked
  BY DEF RInv
<1>1. /\ UNCHANGED <<db, lock, committed, conns, key, got, mut, pos, requests, restarts, outrun, tainted>>
      /\ pc' = [t \in Task |-> IF t \in Cut THEN "failed" ELSE pc[t]]
      /\ errors' = [errors EXCEPT !.internal = @ + Cardinality(Cut)]
  BY DEF ServerRestart, postgres, tasks, history
<1>2. /\ Cut \in SUBSET Task
      /\ \A t \in Cut : t \in Reader /\ pc[t] = "indexing"
  BY DEF Redis!InPipeline, Linked
<1>3. Cardinality(Cut) \in Nat
  <2>1. IsFiniteSet(Task)
    BY CacheAsideAssumption, FS_Union DEF Task
  <2> QED  BY <1>2, <2>1, FS_Subset, FS_CardinalityType
<1>4. TypeOK'
  <2>1. errors' \in [violation : Nat, internal : Nat]
    BY <1>1, <1>3 DEF TypeOK
  <2>2. pc' \in [Task -> Places]
    BY <1>1 DEF TypeOK, Places
  <2> QED  BY <1>1, <2>1, <2>2 DEF TypeOK
<1>5. /\ \A q \in Reader : pc'[q] = "fill" => pc[q] = "fill"
      /\ \A t \in Task : pc[t] = "idle" => pc'[t] = "idle"
      /\ \A w \in Writer : pc'[w] = pc[w]
  BY <1>1, <1>2, Constants DEF Task
<1>6. WellFormed'
  BY <1>1, <1>5, FormFrame
<1>7. Linked'
  <2>1. Redis!Leave(Cut)
    BY DEF ServerRestart, Redis!ServerRestart, Redis!CutShort
  <2>2. \A u \in Task \ Cut : pc'[u] = pc[u]
    BY <1>1
  <2> QED  BY <1>1, <1>2, <2>1, <2>2, LinkedLeaves
<1> QED  BY <1>4, <1>6, <1>7

LEMMA ServerRestartCauses ==
  ASSUME RInv, ServerRestart PROVE InFlightExplained' /\ RedisStaleExplained'
<1> TypeOK /\ WellFormed /\ InFlightExplained /\ RedisStaleExplained
  BY DEF RInv
<1>1. /\ UNCHANGED <<db, committed, key, got, mut, pos, outrun, tainted, missed>>
      /\ \A q \in Reader : pc'[q] = "fill" => pc[q] = "fill"
    BY DEF ServerRestart, postgres, tasks, history, Task
<1>2. \A k \in Key : live'[k] \in {live[k], None}
  BY DEF ServerRestart, Redis!ServerRestart
<1> QED  BY <1>1, <1>2, RedisQuiet

LEMMA ProcessRestartKeeps ==
  ASSUME RInv, ProcessRestart
  PROVE  /\ TypeOK' /\ WellFormed' /\ Linked' /\ InFlightExplained' /\ RedisStaleExplained'
<1> TypeOK /\ WellFormed /\ Linked /\ InFlightExplained /\ RedisStaleExplained
  BY DEF RInv
<1>1. TypeOK' /\ WellFormed'
  BY NextTyped DEF ProcessRestart, Next, Typed
<1>2. Linked'
  <2>1. Redis!Leave(Task) /\ Task \in SUBSET Task
    BY DEF ProcessRestart, Redis!ProcessRestart, Redis!CutShort
  <2>2. \A u \in Task \ Task : pc'[u] = pc[u]
    OBVIOUS
  <2>3. Writer \subseteq Task
    BY DEF Task
  <2> QED  BY <2>1, <2>2, <2>3, LinkedLeaves
<1>3. /\ UNCHANGED <<db, committed, mut, pos, tainted, missed>>
      /\ \A q \in Reader : pc'[q] # "fill"
  BY DEF ProcessRestart, Restart, Task
<1>4. \A k \in Key : live'[k] \in {live[k], None}
  BY DEF ProcessRestart, Restart
<1> QED  BY <1>1, <1>2, <1>3, <1>4, RedisQuiet

-----------------------------------------------------------------------------
LEMMA RedisStep ==
  ASSUME RedisNext \/ UNCHANGED redisVars
  PROVE  \/ Aside /\ AsBefore
         \/ \E r \in Reader : Store(r)
         \/ \E w \in Writer : Deletion(w)
         \/ ServerRestart \/ ProcessRestart
<1>1. UNCHANGED redisVars => Aside /\ AsBefore
  BY DEF redisVars, Aside, AsBefore
<1>2. ASSUME NEW w \in Writer, DeleteUnrenderable(w) PROVE Aside /\ AsBefore
  BY <1>2 DEF Aside, DeleteUnrenderable
<1>3. ASSUME NEW w \in Writer, RedisMutationStep(w) PROVE (Aside /\ AsBefore) \/ Deletion(w)
  BY <1>2, <1>3 DEF RedisMutationStep, Aside, AsideMutation, Deletion
<1>4. ASSUME NEW r \in Reader, RedisQueryStep(r) PROVE (Aside /\ AsBefore) \/ Store(r)
  BY <1>4 DEF RedisQueryStep, Aside, AsideQuery, Store
<1> QED  BY <1>1, <1>3, <1>4 DEF RedisNext, Aside, Finished

LEMMA RedisBounds ==
  ASSUME RInv, RedisNext \/ UNCHANGED redisVars
  PROVE  losses' \in 0 .. MaxLosses /\ serverRestarts' \in 0 .. MaxServerRestarts
<1>1. losses \in 0 .. MaxLosses /\ serverRestarts \in 0 .. MaxServerRestarts
  BY DEF RInv, RB!Reachable, RB!TypeOK
<1>2. UNCHANGED bounds \/ Lose
       \/ (serverRestarts < MaxServerRestarts /\ serverRestarts' = serverRestarts + 1 /\ losses' = losses)
  BY RedisStep DEF AsBefore, Store, Deletion, FillSet, FillSadd, FillEnd, FillLost, FillRaises,
       DeleteStart, DeleteLoad, DeleteEval, DeleteRaises, DeleteLost, ServerRestart, ProcessRestart
<1> QED  BY <1>1, <1>2, RedisCacheAsideAssumption DEF bounds, Lose

LEMMA RedisServer ==
  ASSUME RInv, RedisNext \/ UNCHANGED redisVars
  PROVE  RB!Reachable' /\ Backend!TypeOK'
<1>1. RB!Commands
  <2>1. ProcessRestart => RB!Commands
    BY SameRestarts DEF ProcessRestart, RB!Commands
  <2>2. ServerRestart => RB!Commands
    BY SameRestarts DEF ServerRestart, RB!Commands
  <2>3. TypeOK /\ WellFormed
    BY DEF RInv
  <2> QED  BY <2>1, <2>2, <2>3, RedisStep, AsideCommands, StoreCommands, DeletionCommands
<1>2. RB!Reachable'
  BY <1>1, RedisBounds, CommandsAssumption, RB!CommandsKeep DEF RInv
<1>3. Backend!TypeOK'
  BY <1>2 DEF RB!Reachable, RB!TypeOK, RB!Counts, Backend!TypeOK, Backend!CacheCounters
<1> QED  BY <1>2, <1>3

LEMMA RedisNextInv == RInv /\ [RedisNext]_redisVars => RInv'
<1> SUFFICES ASSUME RInv, RedisNext \/ UNCHANGED redisVars PROVE RInv'
  OBVIOUS
<1>1. RB!Reachable' /\ Backend!TypeOK'
  BY RedisServer
<1>2. TypeOK /\ WellFormed /\ Linked /\ InFlightExplained /\ RedisStaleExplained
  BY DEF RInv
<1>3. CASE Aside /\ AsBefore
  BY <1>1, <1>2, <1>3, AsideTyped, AsideLinked, AsideCauses DEF RInv
<1>4. ASSUME NEW r \in Reader, Store(r) PROVE RInv'
  BY <1>1, <1>4, StoreTyped, StoreLinked, StoreCauses DEF RInv
<1>5. ASSUME NEW w \in Writer, Deletion(w) PROVE RInv'
  BY <1>1, <1>5, DeletionTyped, DeletionLinked, DeletionCauses DEF RInv
<1>6. CASE ServerRestart
  BY <1>1, <1>6, ServerRestartTyped, ServerRestartCauses DEF RInv
<1>7. CASE ProcessRestart
  BY <1>1, <1>7, ProcessRestartKeeps DEF RInv
<1> QED  BY <1>3, <1>4, <1>5, <1>6, <1>7, RedisStep

LEMMA RedisInitInv == RedisInit => RInv
<1> SUFFICES ASSUME RedisInit PROVE RInv
  OBVIOUS
<1>1. TypeOK /\ WellFormed
  BY InitTyped DEF RedisInit, Typed
<1>2. Linked
  BY DEF RedisInit, Linked, Task
<1>3. RB!Reachable
  <2>1. /\ RB!Index = Redis!Index /\ 0 \in 0 .. MaxLosses /\ 0 \in 0 .. MaxServerRestarts /\ 0 \in 0 .. 0
    BY SameIndexes, RedisCacheAsideAssumption
  <2>2. RB!TypeOK
    <3>1. /\ live \in [Key -> Payload \cup {None}] /\ counters \in RB!Counts /\ ret \in Payload \cup {None}
      BY <1>1 DEF TypeOK, Backend!TypeOK, Backend!CacheCounters, RB!Counts
    <3>2. <<>> \in Seq(RB!Index)
      OBVIOUS
    <3> QED  BY <2>1, <3>1, <3>2 DEF RedisInit, RB!TypeOK
  <2>3. RB!MembersBelong
    BY <2>1 DEF RedisInit, RB!MembersBelong, RB!InPipeline
  <2>4. RB!CallsWellFormed
    BY DEF RedisInit, RB!CallsWellFormed
  <2>5. RB!IndexedUnlessTorn
    BY DEF RedisInit, Init, Backend!Init, RB!IndexedUnlessTorn
  <2> QED  BY <2>2, <2>3, <2>4, <2>5 DEF RB!Reachable
<1>4. InFlightExplained /\ RedisStaleExplained
  BY DEF RedisInit, Init, Backend!Init, Task, InFlightExplained, RedisStaleExplained
<1> QED  BY <1>1, <1>2, <1>3, <1>4 DEF RInv

(* An entry on Redis that is out of date with Postgres belongs to an       *)
(* invalidation not finished, or to a mutation that does not declare its   *)
(* key, or was selected before the deletion that should have removed it,   *)
(* or was not in the index set when that deletion ran: interceptor.py,     *)
(* invalidator.py and redis_backend.py together, whatever is lost.         *)
THEOREM RedisStaleness == RedisSpec => []RedisStaleExplained
<1>1. RInv => RedisStaleExplained
  BY DEF RInv
<1> QED  BY RedisInitInv, RedisNextInv, <1>1, PTL DEF RedisSpec

-----------------------------------------------------------------------------
(* Connections and row locks: a task at one of its commands has neither.   *)

LEMMA StorePlace ==
  ASSUME RInv, NEW r \in Reader, Store(r)
  PROVE  /\ pc[r] \in {"fill", "indexing"}
         /\ UNCHANGED <<conns, lock, mut, key>>
         /\ UNCHANGED pc \/ \E place \in {"indexing", "done", "failed"} : Goto(r, place)
<1>1. pc[r] \in {"fill", "indexing"}
  BY Piped DEF Store, FillSet, FillSadd, FillEnd, FillLost, FillRaises, Redis!PipelineSadd,
       Redis!PipelineEnd, Redis!PipelineLost, Task
<1>2. UNCHANGED <<conns, lock, mut, key>>
  BY DEF Store, FillSet, FillSadd, FillEnd, FillLost, FillRaises, postgres, tasks
<1>3. UNCHANGED pc \/ \E place \in {"indexing", "done", "failed"} : Goto(r, place)
  BY DEF Store, FillSet, FillSadd, FillEnd, FillLost, FillRaises, Raise
<1> QED  BY <1>1, <1>2, <1>3

LEMMA DeletionPlace ==
  ASSUME RInv, NEW w \in Writer, Deletion(w)
  PROVE  /\ pc[w] = "invalidate"
         /\ UNCHANGED <<conns, lock, mut, key>>
         /\ UNCHANGED pc \/ \E place \in {"invalidate", "done", "failed"} : Goto(w, place)
<1>1. pc[w] = "invalidate"
  BY InScript DEF Deletion, DeleteStart, DeleteLoad, DeleteEval, DeleteRaises, DeleteLost,
       Redis!LoadScript, Redis!EvalSha, Redis!EvalRaises, Redis!LoadLost, Redis!EvalLost
<1>2. UNCHANGED <<conns, lock, mut, key>>
  BY DEF Deletion, DeleteStart, DeleteLoad, DeleteEval, DeleteRaises, DeleteLost, postgres, tasks
<1>3. UNCHANGED pc \/ \E place \in {"invalidate", "done", "failed"} : Goto(w, place)
  BY DEF Deletion, DeleteStart, DeleteLoad, DeleteEval, DeleteRaises, DeleteLost, Raise
<1> QED  BY <1>1, <1>2, <1>3

(* The stores a restart of the server cuts short. *)
LEMMA CutStores ==
  ASSUME RInv, ServerRestart
  PROVE  /\ Redis!InPipeline \in SUBSET Reader
         /\ \A t \in Redis!InPipeline : pc[t] = "indexing"
         /\ pc' = [t \in Task |-> IF t \in Redis!InPipeline THEN "failed" ELSE pc[t]]
         /\ UNCHANGED <<conns, lock, mut, key, requests, counters>>
<1>1. \A t \in Redis!InPipeline : t \in Reader /\ pc[t] = "indexing"
  BY DEF Redis!InPipeline, RInv, Linked
<1> QED  BY <1>1 DEF ServerRestart, Redis!ServerRestart, postgres, tasks

LEMMA RedisNextHeld ==
  RInv /\ NothingHeldAcrossCacheCalls /\ [RedisNext]_redisVars => NothingHeldAcrossCacheCalls'
<1> SUFFICES ASSUME RInv, NothingHeldAcrossCacheCalls, RedisNext \/ UNCHANGED redisVars
             PROVE  NothingHeldAcrossCacheCalls'
  OBVIOUS
<1>1. Typed
  BY DEF RInv, Typed
<1>2. CASE Aside
  BY <1>1, <1>2, AsideNext, NextHeld
<1>3. ASSUME UNCHANGED <<pc, conns, lock, mut>> PROVE NothingHeldAcrossCacheCalls'
  BY <1>3 DEF NothingHeldAcrossCacheCalls
<1>4. ASSUME NEW t \in Task, NEW place \in {"indexing", "invalidate", "done", "failed"},
             Goto(t, place), pc[t] \in {"fill", "indexing", "invalidate"},
             UNCHANGED <<conns, lock, mut>>
      PROVE  NothingHeldAcrossCacheCalls'
  <2>1. place \in Places \ Busy /\ pc[t] \notin Busy
    BY <1>4 DEF Places, Busy
  <2> QED  BY <1>1, <1>4, <2>1, IdleFrame
<1>5. ASSUME NEW r \in Reader, Store(r) PROVE NothingHeldAcrossCacheCalls'
  BY <1>3, <1>4, <1>5, StorePlace DEF Task
<1>6. ASSUME NEW w \in Writer, Deletion(w) PROVE NothingHeldAcrossCacheCalls'
  BY <1>3, <1>4, <1>6, DeletionPlace DEF Task
<1>7. CASE ServerRestart
  <2>1. /\ \A t \in Redis!InPipeline : pc[t] = "indexing"
        /\ pc' = [t \in Task |-> IF t \in Redis!InPipeline THEN "failed" ELSE pc[t]]
        /\ UNCHANGED <<conns, lock, mut>>
    BY <1>7, CutStores
  <2>2. \A t \in Task : pc'[t] \in Busy <=> pc[t] \in Busy
    BY <2>1 DEF Busy
  <2>3. conns' = {t \in Task : pc'[t] \in {"select", "update", "commit"}}
    BY <2>1, <2>2 DEF Busy, NothingHeldAcrossCacheCalls
  <2>4. \A d \in Datum : lock[d] # None => lock[d] \in Task /\ lock[d] \notin Redis!InPipeline
    BY <1>1, <2>1 DEF Typed, TypeOK, Task, NothingHeldAcrossCacheCalls
  <2>5. \A d \in Datum : lock'[d] # None => pc'[lock'[d]] = "commit" /\ d \in Rows[mut'[lock'[d]]]
    BY <2>1, <2>4 DEF NothingHeldAcrossCacheCalls
  <2> QED  BY <2>3, <2>5 DEF NothingHeldAcrossCacheCalls
<1>8. CASE ProcessRestart
  BY <1>1, <1>8, NextHeld DEF ProcessRestart, Next
<1> QED  BY <1>2, <1>5, <1>6, <1>7, <1>8, RedisStep

(* Nor does a task wait for a Redis command, of a pipeline or of a         *)
(* deletion that loads its script first, with a connection of the pool or  *)
(* a row lock in its hands, whatever the server does.                      *)
THEOREM RedisPoolFree == RedisSpec => []NothingHeldAcrossCacheCalls
<1>1. RedisInit => NothingHeldAcrossCacheCalls
  BY DEF RedisInit, Init, NothingHeldAcrossCacheCalls
<1> QED  BY <1>1, RedisInitInv, RedisNextInv, RedisNextHeld, PTL DEF RedisSpec

-----------------------------------------------------------------------------
(* /stats over Redis.                                                      *)

RTally == RInv /\ OnlyCached /\ Tallied

LEMMA Adding ==
  ASSUME RTally PROVE TallyInv
BY DEF RTally, RInv, TallyInv, Typed

LEMMA StoreTally ==
  ASSUME RTally, NEW r \in Reader, Store(r) PROVE OnlyCached' /\ Tallied'
<1> r \in Task
  BY DEF Task
<1>1. TallyInv /\ Typed /\ Tallied /\ OnlyCached /\ RInv
  BY Adding DEF TallyInv, RTally
<1>2. pc[r] \in {"fill", "indexing"} /\ UNCHANGED key
  BY <1>1, StorePlace
<1>3. OnlyCached'
  <2>1. \A t \in Reader : t # r => pc'[t] = pc[t]
    BY <1>1, StorePlace DEF Typed, TypeOK, Goto, Task
  <2> QED  BY <1>1, <1>2, <2>1 DEF OnlyCached, Cached
<1> SUFFICES Tallied'
  BY <1>3
<1>4. CASE FillSet(r)
  <2>1. Goto(r, "indexing") /\ UNCHANGED <<stats, counters>>
    BY <1>4 DEF FillSet, Redis!PipelineSet
  <2> QED  BY <1>1, <1>2, <2>1, QuietTally DEF AfterMiss, Awaiting
<1>5. CASE FillSadd(r)
  BY <1>1, <1>5 DEF FillSadd, Redis!PipelineSadd, Tallied, Unserved, Broken, Found, NotFound,
                    Filled, stats, tasks, Cached
<1>6. CASE FillEnd(r)
  BY <1>1, <1>2, <1>6, StoredTally DEF FillEnd, Redis!PipelineEnd
<1>7. CASE FillLost(r) \/ FillRaises(r)
  <2>1. Raise(r, "internal", "failed") /\ UNCHANGED <<requests, counters>>
    BY <1>7 DEF FillLost, FillRaises, Redis!PipelineLost, backend
  <2> QED  BY <1>1, <1>2, <2>1, RaiseTally DEF AfterMiss, Awaiting
<1> QED  BY <1>4, <1>5, <1>6, <1>7 DEF Store

LEMMA DeletionTally ==
  ASSUME RTally, NEW w \in Writer, Deletion(w) PROVE OnlyCached' /\ Tallied'
<1> w \in Task /\ w \notin Reader
  BY Constants DEF Task
<1>1. TallyInv /\ Typed /\ Tallied /\ OnlyCached /\ RInv
  BY Adding DEF TallyInv, RTally
<1>2. pc[w] = "invalidate" /\ UNCHANGED key
  BY <1>1, DeletionPlace
<1>3. OnlyCached'
  <2>1. \A t \in Reader : pc'[t] = pc[t]
    BY <1>1, DeletionPlace DEF Typed, TypeOK, Goto, Task
  <2> QED  BY <1>1, <1>2, <2>1 DEF OnlyCached, Cached
<1> SUFFICES Tallied'
  BY <1>3
<1>4. CASE DeleteStart(w) \/ DeleteLoad(w)
  <2>1. UNCHANGED <<pc, key, stats, counters>>
    BY <1>4 DEF DeleteStart, DeleteLoad, Redis!StartDel, Redis!LoadScript, tasks
  <2> QED  BY <1>1, <2>1 DEF Tallied, Unserved, Broken, Found, NotFound, Filled, stats, Cached
<1>5. CASE DeleteEval(w)
  <2>1. PICK place \in {"done", "invalidate"} : Goto(w, place)
    BY <1>5 DEF DeleteEval
  <2>2. PICK n : counters' = [counters EXCEPT !.invalidations = n]
    BY <1>5 DEF DeleteEval, Redis!EvalSha
  <2>3. UNCHANGED stats
    BY <1>5 DEF DeleteEval
  <2> QED  BY <1>1, <1>2, <2>1, <2>2, <2>3, DeletedTally
<1>6. CASE DeleteRaises(w) \/ DeleteLost(w)
  <2>1. Raise(w, "internal", "failed") /\ UNCHANGED <<requests, counters>>
    BY <1>6 DEF DeleteRaises, DeleteLost, Redis!EvalRaises, Redis!LoadLost, Redis!EvalLost
  <2> QED  BY <1>1, <1>2, <2>1, RaiseTally DEF Awaiting
<1> QED  BY <1>4, <1>5, <1>6 DEF Deletion

(* Every store that a restart cuts short is one failure. *)
LEMMA ServerRestartTally ==
  ASSUME RTally, ServerRestart PROVE OnlyCached' /\ Tallied'
<1> DEFINE Cut == Redis!InPipeline
<1> TallyInv
  BY Adding
<1>1. /\ Cut \in SUBSET Task /\ Cut \subseteq Reader /\ \A t \in Cut : pc[t] = "indexing"
      /\ pc' = [t \in Task |-> IF t \in Cut THEN "failed" ELSE pc[t]]
      /\ UNCHANGED <<key, requests, counters>>
  BY CutStores DEF RTally, Task
<1>2. errors' = [errors EXCEPT !.internal = @ + Cardinality(Cut)]
  BY DEF ServerRestart
<1> HIDE DEF Cut
<1>3. OnlyCached'
  BY <1>1 DEF TallyInv, OnlyCached, Task, Cached
<1>4. Unserved' = Unserved /\ Found' = Found
  BY <1>1 DEF Unserved, Found
<1>5. NotFound' = NotFound /\ Filled' = Filled
  <2>1. NotFound' = NotFound
    BY <1>1 DEF NotFound, AfterMiss, Cached, Task
  <2> QED  BY <1>1, <2>1 DEF Filled, NotFound, Task
<1>6. Broken' = Broken \cup Cut /\ Broken \cap Cut = {}
  BY <1>1 DEF Broken
<1>7. /\ Cardinality(Broken') = Cardinality(Broken) + Cardinality(Cut)
      /\ Cardinality(Cut) \in Nat
  <2>1. IsFiniteSet(Task)
    BY CacheAsideAssumption, FS_Union DEF Task
  <2>2. IsFiniteSet(Broken) /\ IsFiniteSet(Cut) /\ Cardinality(Broken \cap Cut) = 0
    BY <1>1, <1>6, <2>1, Parts, FS_Subset, FS_EmptySet
  <2>3. Cardinality(Broken \cup Cut) =
          Cardinality(Broken) + Cardinality(Cut) - Cardinality(Broken \cap Cut)
    BY <2>2, FS_Union
  <2> QED  BY <1>6, <2>2, <2>3, FS_CardinalityType
<1>8. errors'.violation + errors'.internal = errors.violation + errors.internal + Cardinality(Cut)
  BY <1>2, <1>7 DEF TallyInv, Typed, TypeOK
<1> QED  BY <1>1, <1>3, <1>4, <1>5, <1>7, <1>8 DEF TallyInv, Tallied

LEMMA RedisNextTally == RTally /\ [RedisNext]_redisVars => RTally'
<1> SUFFICES ASSUME RTally, RedisNext \/ UNCHANGED redisVars PROVE OnlyCached' /\ Tallied'
  BY RedisNextInv DEF RTally
<1>1. TallyInv
  BY Adding
<1>2. CASE Aside
  BY <1>1, <1>2, AsideNext, NextOnlyCached, NextTallied DEF TallyInv
<1>3. CASE ProcessRestart
  BY <1>1, <1>3, NextOnlyCached, RestartTally DEF TallyInv, ProcessRestart, Next
<1> QED  BY <1>2, <1>3, RedisStep, StoreTally, DeletionTally, ServerRestartTally

(* /stats adds up over Redis as well: a store is counted when its pipeline *)
(* has ended and not before, and a call that a lost connection, a server   *)
(* restart or a missing script cuts short is one error and nothing else.   *)
THEOREM RedisTally == RedisSpec => []StatsTally
<1>1. RedisInit => RTally
  BY RedisInitInv, InitTallied DEF RedisInit, RTally
<1>2. RTally => StatsTally
  BY TallyMeaning DEF RTally
<1> QED  BY <1>1, <1>2, RedisNextTally, PTL DEF RedisSpec
=============================================================================
