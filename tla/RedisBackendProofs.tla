------------------------- MODULE RedisBackendProofs -------------------------
(***************************************************************************)
(* For any number of callers, keys, rules and tags, and any number of      *)
(* losses and restarts: only a pipeline cut short leaves an entry its      *)
(* deletions cannot find, and every step of RedisBackend is one the        *)
(* CacheBackend Protocol allows or one of the named exceptions.            *)
(***************************************************************************)
EXTENDS RedisBackend, FiniteSetTheorems, TLAPS

LEMMA Constants ==
  /\ IsFiniteSet(Caller)
  /\ None \notin Value /\ None \notin Rule
  /\ \A k \in Key : /\ RuleOf[k] \in Rule \cup {None}
                    /\ TagSeq[k] \in Seq(Tag)
                    /\ RuleOf[k] = None => TagSeq[k] = <<>>
  /\ MaxCalls \in Nat /\ MaxLosses \in Nat /\ MaxRestarts \in Nat
BY RedisAssumption

(* A queue of commands: its first and the others. *)
LEMMA Queue ==
  ASSUME NEW S, NEW s \in Seq(S), s # <<>>
  PROVE  /\ Head(s) \in S /\ Tail(s) \in Seq(S)
         /\ Head(s) \in ToSet(s)
         /\ ToSet(s) = {Head(s)} \cup ToSet(Tail(s))
         /\ Len(s) > 1 => Tail(s) # <<>>
         /\ Len(s) = 1 => ToSet(s) = {Head(s)}
         /\ Len(s) # 0
<1>1. Len(s) \in Nat \ {0} /\ DOMAIN s = 1 .. Len(s)
  OBVIOUS
<1>2. DOMAIN Tail(s) = 1 .. (Len(s) - 1) /\ \A i \in DOMAIN Tail(s) : Tail(s)[i] = s[i + 1]
  OBVIOUS
<1>3. ToSet(s) \subseteq {Head(s)} \cup ToSet(Tail(s))
  <2>1. ASSUME NEW i \in DOMAIN s PROVE s[i] \in {Head(s)} \cup ToSet(Tail(s))
    <3>1. CASE i = 1
      BY <3>1
    <3>2. CASE i # 1
      <4>1. i - 1 \in DOMAIN Tail(s) /\ Tail(s)[i - 1] = s[i]
        BY <1>1, <1>2, <3>2
      <4> QED  BY <4>1 DEF ToSet
    <3> QED  BY <3>1, <3>2
  <2> QED  BY <2>1 DEF ToSet
<1>4. {Head(s)} \cup ToSet(Tail(s)) \subseteq ToSet(s)
  <2>1. 1 \in DOMAIN s /\ Head(s) = s[1]
    BY <1>1
  <2>2. \A i \in DOMAIN Tail(s) : i + 1 \in DOMAIN s
    BY <1>1, <1>2
  <2> QED  BY <1>2, <2>1, <2>2 DEF ToSet
<1>5. Len(s) = 1 => ToSet(Tail(s)) = {}
  BY <1>2 DEF ToSet
<1>6. Head(s) \in S /\ Tail(s) \in Seq(S)
  OBVIOUS
<1>7. Len(s) > 1 => Tail(s) # <<>>
  <2>1. Len(Tail(s)) = Len(s) - 1
    OBVIOUS
  <2> DEFINE rest == Tail(s)
  <2>2. rest \in Seq(S) /\ Len(rest) = Len(s) - 1
    BY <2>1
  <2> HIDE DEF rest
  <2>3. rest = <<>> => Len(rest) = 0
    BY <2>2
  <2>4. Len(s) > 1 => rest # <<>>
    BY <1>1, <2>2, <2>3
  <2> QED  BY <2>4 DEF rest
<1> QED  BY <1>1, <1>3, <1>4, <1>5, <1>6, <1>7

LEMMA NoQueue == ToSet(<<>>) = {}
<1>1. DOMAIN <<>> = {}
  OBVIOUS
<1> QED  BY <1>1 DEF ToSet

LEMMA Prefixed ==
  ASSUME NEW S, NEW a \in S, NEW s \in Seq(S)
  PROVE  /\ <<a>> \o s \in Seq(S) /\ Len(<<a>> \o s) = 1 + Len(s)
         /\ (<<a>> \o s)[1] = a
         /\ \A i \in 1 .. Len(s) : (<<a>> \o s)[i + 1] = s[i]
<1>1. <<a>> \in Seq(S) /\ Len(<<a>>) = 1 /\ Len(s) \in Nat /\ <<a>>[1] = a
  OBVIOUS
<1>2. Len(<<a>> \o s) = 1 + Len(s) /\ <<a>> \o s \in Seq(S)
  BY <1>1
<1>3. (<<a>> \o s)[1] = a
  BY <1>1
<1>4. ASSUME NEW i \in 1 .. Len(s) PROVE (<<a>> \o s)[i + 1] = s[i]
  BY <1>1
<1> QED  BY <1>2, <1>3, <1>4

(* The index sets of a key are those of its rule and of its tags. *)
LEMMA IndexesOfKey ==
  ASSUME NEW k \in Key, RuleOf[k] # None
  PROVE  /\ IndexesOf(k) \in Seq(Index) /\ IndexesOf(k) # <<>>
         /\ ToSet(IndexesOf(k)) = {RuleIndex(RuleOf[k])}
                                    \cup {TagIndex(t) : t \in ToSet(TagSeq[k])}
<1> DEFINE head == <<RuleIndex(RuleOf[k])>>
           tags == [i \in DOMAIN TagSeq[k] |-> TagIndex(TagSeq[k][i])]
<1>1. RuleOf[k] \in Rule /\ TagSeq[k] \in Seq(Tag)
  BY Constants
<1>2. RuleIndex(RuleOf[k]) \in Index
  BY <1>1 DEF Index
<1>3. head \in Seq(Index) /\ Len(head) = 1 /\ head[1] = RuleIndex(RuleOf[k])
  BY <1>2
<1>4. DOMAIN TagSeq[k] = 1 .. Len(TagSeq[k]) /\ Len(TagSeq[k]) \in Nat
  BY <1>1
<1>5. \A i \in DOMAIN TagSeq[k] : TagIndex(TagSeq[k][i]) \in Index
  BY <1>1, <1>4 DEF Index
<1>6. tags \in Seq(Index) /\ Len(tags) = Len(TagSeq[k])
      /\ \A i \in DOMAIN TagSeq[k] : tags[i] = TagIndex(TagSeq[k][i])
  BY <1>4, <1>5
<1>7. IndexesOf(k) = head \o tags
  BY DEF IndexesOf
<1>8. /\ head \o tags \in Seq(Index) /\ Len(head \o tags) = 1 + Len(TagSeq[k])
      /\ (head \o tags)[1] = RuleIndex(RuleOf[k])
      /\ \A i \in 1 .. Len(TagSeq[k]) : (head \o tags)[i + 1] = tags[i]
  BY <1>2, <1>6, Prefixed
<1> HIDE DEF head, tags
<1>9. DOMAIN (head \o tags) = 1 .. (1 + Len(TagSeq[k]))
  BY <1>8
<1>10. ToSet(head \o tags) \subseteq {RuleIndex(RuleOf[k])} \cup {TagIndex(t) : t \in ToSet(TagSeq[k])}
  <2>1. ASSUME NEW i \in DOMAIN (head \o tags), i # 1
        PROVE  /\ i - 1 \in DOMAIN TagSeq[k]
               /\ (head \o tags)[i] = TagIndex(TagSeq[k][i - 1])
    <3>1. i - 1 \in 1 .. Len(TagSeq[k]) /\ (i - 1) + 1 = i
      BY <2>1, <1>9, <1>4
    <3> QED  BY <3>1, <1>4, <1>6, <1>8
  <2> QED  BY <2>1, <1>8 DEF ToSet
<1>11. {TagIndex(t) : t \in ToSet(TagSeq[k])} \subseteq ToSet(head \o tags)
  <2>1. ASSUME NEW i \in DOMAIN TagSeq[k]
        PROVE  i + 1 \in DOMAIN (head \o tags) /\ (head \o tags)[i + 1] = TagIndex(TagSeq[k][i])
    BY <1>4, <1>6, <1>8, <1>9
  <2> QED  BY <2>1 DEF ToSet
<1>12. RuleIndex(RuleOf[k]) \in ToSet(head \o tags) /\ head \o tags # <<>>
  <2>1. 1 \in DOMAIN (head \o tags)
    BY <1>9, <1>4
  <2> QED  BY <2>1, <1>8 DEF ToSet
<1> QED  BY <1>7, <1>8, <1>10, <1>11, <1>12

(* The keys a deletion of i declares are those indexed under i. *)
LEMMA DeclaredIndexed ==
  ASSUME NEW k \in Key, NEW i \in Index
  PROVE  k \in Declared(i) <=> (RuleOf[k] # None /\ i \in ToSet(IndexesOf(k)))
<1>1. ASSUME NEW r \in Rule, i = RuleIndex(r)
      PROVE  k \in Declared(i) <=> (RuleOf[k] # None /\ i \in ToSet(IndexesOf(k)))
  <2>1. i.kind = "rule_index" /\ i.name = r
    BY <1>1 DEF RuleIndex
  <2>2. k \in Declared(i) <=> RuleOf[k] = r
    BY <2>1 DEF Declared
  <2>3. \A t : TagIndex(t) # i
    BY <2>1 DEF TagIndex
  <2>4. \A q : RuleIndex(q) = i => q = r
    BY <2>1 DEF RuleIndex
  <2> QED  BY <1>1, <2>2, <2>3, <2>4, IndexesOfKey, Constants
<1>2. ASSUME NEW t \in Tag, i = TagIndex(t)
      PROVE  k \in Declared(i) <=> (RuleOf[k] # None /\ i \in ToSet(IndexesOf(k)))
  <2>1. i.kind # "rule_index" /\ i.name = t
    BY <1>2 DEF TagIndex
  <2>2. k \in Declared(i) <=> t \in ToSet(TagSeq[k])
    BY <2>1 DEF Declared
  <2>3. \A r : RuleIndex(r) # i
    BY <2>1 DEF RuleIndex
  <2>4. \A u : TagIndex(u) = i => u = t
    BY <2>1 DEF TagIndex
  <2>5. RuleOf[k] = None => t \notin ToSet(TagSeq[k])
    BY Constants, NoQueue
  <2> QED  BY <1>2, <2>2, <2>3, <2>4, <2>5, IndexesOfKey
<1> QED  BY <1>1, <1>2 DEF Index

-----------------------------------------------------------------------------
(* Steps that leave the pipelines and the index sets alone.                *)
LEMMA CountersTyped ==
  ASSUME counters \in Counts
  PROVE  /\ [counters EXCEPT !.hits = @ + 1] \in Counts
         /\ [counters EXCEPT !.misses = @ + 1] \in Counts
         /\ [counters EXCEPT !.sets = @ + 1] \in Counts
         /\ [counters EXCEPT !.invalidations = @ + 1] \in Counts
         /\ NoCounts \in Counts
BY DEF Counts, NoCounts

LEMMA InitInv == Init => IInv
<1> SUFFICES ASSUME Init PROVE IInv
  OBVIOUS
<1>1. NoCounts \in Counts /\ <<>> \in Seq(Index)
  BY DEF NoCounts, Counts
<1>2. todo \in [Caller -> Seq(Index)] /\ counters \in Counts
  BY <1>1 DEF Init
<1>3. TypeOK
  <2>1. calls \in 0 .. MaxCalls /\ losses \in 0 .. MaxLosses /\ restarts \in 0 .. MaxRestarts
    BY Constants DEF Init
  <2>2. /\ store \in [Key -> Value \cup {None}] /\ index \in [Index -> SUBSET Key]
        /\ at \in [Caller -> {"idle", "pipeline", "load", "script"}]
        /\ arg \in [Caller -> Key \cup Index \cup {None}]
    BY DEF Init
  <2> QED  BY <1>2, <2>1, <2>2 DEF Init, TypeOK
<1>4. IndexedUnlessTorn /\ DigestGoodUntilRestart /\ CallsWellFormed
  BY DEF Init, IndexedUnlessTorn, DigestGoodUntilRestart, CallsWellFormed
<1>5. MembersBelong
  BY DEF Init, MembersBelong, InPipeline
<1> QED  BY <1>3, <1>4, <1>5 DEF IInv

(* The calls that end, or none. *)
LEMMA LeaveTyped ==
  ASSUME TypeOK, NEW C \in SUBSET Caller, Leave(C)
  PROVE  /\ at' \in [Caller -> {"idle", "pipeline", "load", "script"}]
         /\ arg' \in [Caller -> Key \cup Index \cup {None}]
         /\ todo' \in [Caller -> Seq(Index)]
         /\ InPipeline' = InPipeline \ C
         /\ \A c \in Caller \ C : at'[c] = at[c] /\ arg'[c] = arg[c] /\ todo'[c] = todo[c]
         /\ \A c \in C : at'[c] = "idle" /\ todo'[c] = <<>>
BY DEF TypeOK, Leave, InPipeline

(* The next SADD of a pipeline. *)
LEMMA SaddTyped ==
  ASSUME TypeOK, MembersBelong, NEW c \in InPipeline, Sadd(c)
  PROVE  /\ c \in Caller /\ arg[c] \in Key /\ Head(todo[c]) \in Index
         /\ Head(todo[c]) \in ToSet(todo[c])
         /\ ToSet(todo[c]) = {Head(todo[c])} \cup ToSet(Tail(todo[c]))
         /\ Tail(todo[c]) \in Seq(Index)
         /\ Len(todo[c]) > 1 => Tail(todo[c]) # <<>>
         /\ Len(todo[c]) = 1 => ToSet(todo[c]) = {Head(todo[c])}
         /\ index' \in [Index -> SUBSET Key]
         /\ \A i \in Index : index'[i] = IF i = Head(todo[c]) THEN index[i] \cup {arg[c]}
                                                            ELSE index[i]
         /\ torn' \subseteq Key \X Index
<1>1. /\ c \in Caller /\ arg[c] \in Key /\ todo[c] \in Seq(Index) /\ todo[c] # <<>>
      /\ index \in [Index -> SUBSET Key] /\ torn \subseteq Key \X Index
  BY DEF TypeOK, MembersBelong, InPipeline
<1>2. Head(todo[c]) \in Index
  BY <1>1, Queue
<1> QED  BY <1>1, <1>2, Queue DEF Sadd

(* The script takes out the members of its index set. *)
LEMMA ScriptTyped ==
  ASSUME TypeOK, NEW i \in Index, RunScript(i)
  PROVE  /\ store' \in [Key -> Value \cup {None}]
         /\ \A k \in Key : store'[k] = IF k \in index[i] THEN None ELSE store[k]
         /\ index' \in [Index -> SUBSET Key]
         /\ index'[i] = {} /\ \A j \in Index : j # i => index'[j] = index[j]
         /\ torn' \subseteq Key \X Index
         /\ torn' = {p \in torn : p[1] \notin index[i]}
BY DEF TypeOK, RunScript

-----------------------------------------------------------------------------
(* Next without its bounds, for any module that takes these actions: what  *)
(* is not a command leaves the server and the calls alone.                 *)
Commands ==
  \/ \E c \in Caller, k \in Key : Get(c, k) \/ Delete(c, k)
  \/ \E c \in Caller, k \in Key, v \in Value : Set(c, k, v) \/ PipelineSet(c, k, v)
  \/ \E c \in Caller, i \in Index : StartDel(c, i)
  \/ \E c \in Caller : \/ Flush(c) \/ PipelineSadd(c) \/ PipelineEnd(c) \/ PipelineLost(c)
                       \/ LoadScript(c) \/ LoadLost(c) \/ EvalSha(c) \/ EvalRaises(c)
  \/ \E c \in Caller, ran \in BOOLEAN : EvalLost(c, ran)
  \/ \E k \in Key : Expire(k)
  \/ ProcessRestart \/ ServerRestart
  \/ UNCHANGED <<server, sha, callers, torn>> /\ counters' \in Counts /\ ret' \in Value \cup {None}

Reachable == TypeOK /\ MembersBelong /\ CallsWellFormed /\ IndexedUnlessTorn

LEMMA NextCommands == TypeOK /\ [Next]_vars => Commands
BY DEF Next, Commands, vars, TypeOK

LEMMA BoundsKept ==
  ASSUME TypeOK, [Next]_vars
  PROVE  calls' \in 0 .. MaxCalls /\ losses' \in 0 .. MaxLosses /\ restarts' \in 0 .. MaxRestarts
<1>1. calls \in 0 .. MaxCalls /\ losses \in 0 .. MaxLosses /\ restarts \in 0 .. MaxRestarts
  BY DEF TypeOK
<1>2. UNCHANGED bounds \/ Calling \/ Losing \/ Restarting
  BY DEF Next, vars
<1> QED  BY <1>1, <1>2, Constants DEF bounds, Calling, Losing, Restarting

LEMMA TypeStep ==
  ASSUME Reachable, Commands,
         calls' \in 0 .. MaxCalls, losses' \in 0 .. MaxLosses, restarts' \in 0 .. MaxRestarts
  PROVE  TypeOK'
<1> USE CountersTyped
<1>0. /\ TypeOK /\ MembersBelong /\ CallsWellFormed
      /\ calls' \in 0 .. MaxCalls /\ losses' \in 0 .. MaxLosses /\ restarts' \in 0 .. MaxRestarts
  BY DEF Reachable
<1>1. ASSUME NEW c \in Caller, NEW k \in Key, Get(c, k) \/ Delete(c, k)
      PROVE  TypeOK'
  <2>1. CASE Get(c, k)
    <3>1. counters' \in Counts /\ ret' \in Value \cup {None}
      BY <1>0, <2>1 DEF Get, TypeOK
    <3> QED  BY <1>0, <1>1, <2>1, <3>1 DEF Get, server, callers, TypeOK
  <2>2. CASE Delete(c, k)
    BY <1>0, <1>1, <2>2 DEF Delete, callers, TypeOK
  <2> QED  BY <1>1, <2>1, <2>2
<1>2. ASSUME NEW c \in Caller, NEW k \in Key, NEW v \in Value, Set(c, k, v)
      PROVE  TypeOK'
  BY <1>0, <1>2 DEF Call, Set, server, callers, TypeOK
<1>3. ASSUME NEW c \in Caller, NEW k \in Key, NEW v \in Value, PipelineSet(c, k, v)
      PROVE  TypeOK'
  <2>1. IndexesOf(k) \in Seq(Index)
    BY <1>0, <1>3, IndexesOfKey DEF PipelineSet
  <2> QED  BY <1>0, <1>3, <2>1 DEF Call, PipelineSet, TypeOK
<1>4. ASSUME NEW c \in Caller, NEW i \in Index, StartDel(c, i)
      PROVE  TypeOK'
  BY <1>0, <1>4 DEF Call, StartDel, server, TypeOK
<1>5. ASSUME NEW c \in Caller, Flush(c) PROVE TypeOK'
  BY <1>0, <1>5 DEF Call, Flush, callers, TypeOK
<1>6. ASSUME NEW c \in Caller, PipelineSadd(c) PROVE TypeOK'
  BY <1>0, <1>6, SaddTyped DEF PipelineSadd, InPipeline, TypeOK
<1>7. ASSUME NEW c \in Caller, PipelineEnd(c) PROVE TypeOK'
  BY <1>0, <1>7, SaddTyped, LeaveTyped DEF PipelineEnd, Return, InPipeline, TypeOK
<1>8. ASSUME NEW c \in Caller, LoadScript(c) PROVE TypeOK'
  BY <1>0, <1>8 DEF LoadScript, TypeOK
<1>9. ASSUME NEW c \in Caller, EvalSha(c) PROVE TypeOK'
  BY <1>0, <1>9, ScriptTyped, LeaveTyped DEF EvalSha, Return, CallsWellFormed, TypeOK
<1>10. ASSUME NEW c \in Caller, EvalRaises(c) PROVE TypeOK'
  BY <1>0, <1>10, LeaveTyped DEF EvalRaises, Return, server, TypeOK
<1>11. ASSUME NEW C \in SUBSET Caller, CutShort(C)
       PROVE  torn' \subseteq Key \X Index
  <2>1. ASSUME NEW c \in C, NEW p \in Unsent(c) PROVE p \in Key \X Index
    <3>1. CASE c \in InPipeline
      <4>1. arg[c] \in Key /\ ToSet(todo[c]) \subseteq Index
        BY <1>0, <3>1 DEF MembersBelong, TypeOK, ToSet, InPipeline
      <4> QED  BY <4>1 DEF Unsent
    <3>2. CASE c \notin InPipeline
      BY <1>0, <3>2, NoQueue DEF CallsWellFormed, InPipeline, Unsent
    <3> QED  BY <3>1, <3>2
  <2> QED  BY <1>0, <1>11, <2>1 DEF CutShort, TypeOK
<1>12. ASSUME NEW c \in Caller, PipelineLost(c) PROVE TypeOK'
  <2>1. CASE CutShort({c}) /\ UNCHANGED index
    <3>1. {c} \in SUBSET Caller /\ Leave({c})
      BY <2>1 DEF CutShort
    <3>2. torn' \subseteq Key \X Index
      BY <1>11, <2>1, <3>1
    <3> QED  BY <1>0, <1>12, <2>1, <3>1, <3>2, LeaveTyped DEF PipelineLost, TypeOK
  <2>2. CASE Sadd(c) /\ Return(c)
    BY <1>0, <1>12, <2>2, SaddTyped, LeaveTyped
       DEF PipelineLost, Return, InPipeline, TypeOK
  <2> QED  BY <1>0, <1>12, <2>1, <2>2 DEF PipelineLost
<1>13. ASSUME NEW c \in Caller, LoadLost(c) PROVE TypeOK'
  <2>1. Leave({c}) /\ {c} \in SUBSET Caller
    BY <1>13 DEF LoadLost, Return
  <2>2. /\ at' \in [Caller -> {"idle", "pipeline", "load", "script"}]
        /\ arg' \in [Caller -> Key \cup Index \cup {None}]
        /\ todo' \in [Caller -> Seq(Index)]
    BY <1>0, <2>1, LeaveTyped
  <2>3. scripts' \in BOOLEAN /\ sha' \in BOOLEAN
    BY <1>0, <1>13, Zenon DEF LoadLost, server, TypeOK
  <2> QED  BY <1>0, <1>13, <2>2, <2>3 DEF LoadLost, TypeOK
<1>14. ASSUME NEW c \in Caller, NEW ran \in BOOLEAN, EvalLost(c, ran) PROVE TypeOK'
  BY <1>0, <1>14, ScriptTyped, LeaveTyped DEF EvalLost, Return, CallsWellFormed, TypeOK
<1>15. ASSUME NEW k \in Key, Expire(k) PROVE TypeOK'
  BY <1>0, <1>15 DEF Expire, callers, TypeOK
<1>16. CASE ProcessRestart
  <2>1. Caller \in SUBSET Caller /\ Leave(Caller) /\ CutShort(Caller)
    BY <1>16 DEF ProcessRestart, CutShort
  <2>2. torn' \subseteq Key \X Index
    BY <1>11, <2>1
  <2>3. /\ at' \in [Caller -> {"idle", "pipeline", "load", "script"}]
        /\ arg' \in [Caller -> Key \cup Index \cup {None}]
        /\ todo' \in [Caller -> Seq(Index)]
    BY <1>0, <2>1, LeaveTyped
  <2>4. counters' \in Counts
    BY <1>0, <1>16 DEF ProcessRestart, TypeOK
  <2>5. scripts' \in BOOLEAN /\ sha' \in BOOLEAN
    BY <1>0, <1>16, Zenon DEF ProcessRestart, server, TypeOK
  <2> QED  BY <1>0, <1>16, <2>2, <2>3, <2>4, <2>5 DEF ProcessRestart, server, TypeOK
<1>17. CASE ServerRestart
  <2>1. InPipeline \in SUBSET Caller
    BY DEF InPipeline
  <2>2. torn' \subseteq Key \X Index
    BY <1>11, <1>17, <2>1 DEF ServerRestart
  <2>3. Leave(InPipeline)
    BY <1>0, <1>17 DEF ServerRestart, CutShort
  <2>4. store' \in [Key -> Value \cup {None}] /\ index' \in [Index -> SUBSET Key]
    BY <1>0, <1>17 DEF ServerRestart, TypeOK
  <2>5. /\ at' \in [Caller -> {"idle", "pipeline", "load", "script"}]
        /\ arg' \in [Caller -> Key \cup Index \cup {None}]
        /\ todo' \in [Caller -> Seq(Index)]
    BY <1>0, <2>1, <2>3, LeaveTyped
  <2>6. scripts' \in BOOLEAN /\ sha' \in BOOLEAN
    BY <1>0, <1>17, Zenon DEF ServerRestart, server, TypeOK
  <2> QED  BY <1>0, <1>17, <2>2, <2>4, <2>5, <2>6 DEF ServerRestart, TypeOK
<1>18. CASE UNCHANGED <<server, sha, callers, torn>> /\ counters' \in Counts /\ ret' \in Value \cup {None}
  BY <1>0, <1>18 DEF server, callers, TypeOK
<1> QED  BY <1>1, <1>2, <1>3, <1>4, <1>5, <1>6, <1>7, <1>8, <1>9, <1>10, <1>12, <1>13,
            <1>14, <1>15, <1>16, <1>17, <1>18 DEF Commands

(* Index sets and pipelines.                                               *)
LEMMA FormStep ==
  ASSUME Reachable, Commands
  PROVE  MembersBelong' /\ CallsWellFormed'
<1>0. TypeOK /\ MembersBelong /\ CallsWellFormed
  BY DEF Reachable
<1>1. CASE UNCHANGED <<index, callers>>
  BY <1>0, <1>1 DEF callers, MembersBelong, CallsWellFormed, InPipeline
<1>2. ASSUME NEW c \in Caller, NEW k \in Key, NEW v \in Value, PipelineSet(c, k, v)
      PROVE  MembersBelong' /\ CallsWellFormed'
  <2>1. RuleOf[k] # None /\ IndexesOf(k) # <<>>
    BY <1>2, IndexesOfKey DEF PipelineSet
  <2>2. /\ UNCHANGED index
        /\ \A d \in Caller : d # c => at'[d] = at[d] /\ arg'[d] = arg[d] /\ todo'[d] = todo[d]
        /\ at'[c] = "pipeline" /\ arg'[c] = k /\ todo'[c] = IndexesOf(k)
    BY <1>0, <1>2 DEF PipelineSet, TypeOK
  <2> QED  BY <1>0, <2>1, <2>2 DEF MembersBelong, CallsWellFormed, InPipeline
<1>3. ASSUME NEW c \in Caller, NEW i \in Index, StartDel(c, i)
      PROVE  MembersBelong' /\ CallsWellFormed'
  <2>1. /\ UNCHANGED <<index, todo>> /\ at'[c] # "pipeline" /\ arg'[c] = i /\ todo[c] = <<>>
        /\ \A d \in Caller : d # c => at'[d] = at[d] /\ arg'[d] = arg[d]
    BY <1>0, <1>3 DEF StartDel, Call, server, TypeOK, CallsWellFormed
  <2> QED  BY <1>0, <2>1 DEF MembersBelong, CallsWellFormed, InPipeline
<1>4. ASSUME NEW c \in Caller, Flush(c) PROVE MembersBelong' /\ CallsWellFormed'
  BY <1>0, <1>4 DEF Flush, callers, MembersBelong, CallsWellFormed, InPipeline
<1>5. ASSUME NEW c \in InPipeline, Sadd(c)
      PROVE  \A i \in Index : \A k \in index'[i] : RuleOf[k] # None /\ i \in ToSet(IndexesOf(k))
  <2>1. RuleOf[arg[c]] # None /\ Head(todo[c]) \in ToSet(IndexesOf(arg[c]))
    BY <1>0, <1>5, SaddTyped DEF MembersBelong
  <2>2. \A i \in Index : index'[i] = IF i = Head(todo[c]) THEN index[i] \cup {arg[c]} ELSE index[i]
    BY <1>0, <1>5, SaddTyped
  <2> QED  BY <1>0, <2>1, <2>2 DEF MembersBelong
<1>6. ASSUME NEW C \in SUBSET Caller, Leave(C),
             \A i \in Index : \A k \in index'[i] : RuleOf[k] # None /\ i \in ToSet(IndexesOf(k))
      PROVE  MembersBelong' /\ CallsWellFormed'
  BY <1>0, <1>6, LeaveTyped DEF MembersBelong, CallsWellFormed, InPipeline
<1>7. ASSUME NEW c \in Caller, PipelineSadd(c) PROVE MembersBelong' /\ CallsWellFormed'
  <2>1. c \in InPipeline /\ Sadd(c)
    BY <1>7 DEF PipelineSadd, InPipeline
  <2>2. /\ UNCHANGED <<at, arg>> /\ todo'[c] = Tail(todo[c]) /\ Tail(todo[c]) # <<>>
        /\ ToSet(Tail(todo[c])) \subseteq ToSet(todo[c])
        /\ \A d \in Caller : d # c => todo'[d] = todo[d]
    BY <1>0, <1>7, <2>1, SaddTyped DEF PipelineSadd, TypeOK
  <2>3. \A d \in InPipeline : todo'[d] # <<>> /\ ToSet(todo'[d]) \subseteq ToSet(IndexesOf(arg[d]))
    BY <1>0, <2>2 DEF MembersBelong, InPipeline
  <2>4. \A d \in Caller : at[d] # "pipeline" => todo'[d] = <<>>
    BY <1>0, <2>1, <2>2 DEF CallsWellFormed, InPipeline
  <2>5. MembersBelong'
    BY <1>0, <1>5, <2>1, <2>2, <2>3 DEF MembersBelong, InPipeline
  <2> QED  BY <1>0, <2>2, <2>4, <2>5 DEF CallsWellFormed
<1>9. ASSUME NEW c \in Caller, PipelineEnd(c) PROVE MembersBelong' /\ CallsWellFormed'
  BY <1>5, <1>6, <1>9 DEF PipelineEnd, Return, InPipeline
<1>10. ASSUME NEW c \in Caller, PipelineLost(c) PROVE MembersBelong' /\ CallsWellFormed'
  <2>1. CASE CutShort({c}) /\ UNCHANGED index
    BY <1>0, <1>6, <2>1 DEF CutShort, MembersBelong
  <2>2. CASE Sadd(c) /\ Return(c)
    BY <1>5, <1>6, <1>10, <2>2 DEF PipelineLost, Return, InPipeline
  <2> QED  BY <1>10, <2>1, <2>2 DEF PipelineLost
<1>11. ASSUME NEW c \in Caller, LoadScript(c) PROVE MembersBelong' /\ CallsWellFormed'
  <2>1. UNCHANGED <<index, arg, todo>> /\ at[c] = "load"
        /\ at' = [at EXCEPT ![c] = "script"]
    BY <1>11 DEF LoadScript
  <2> QED  BY <1>0, <2>1 DEF TypeOK, MembersBelong, CallsWellFormed, InPipeline
<1>12. ASSUME NEW c \in Caller, LoadLost(c) \/ EvalRaises(c)
       PROVE  MembersBelong' /\ CallsWellFormed'
  <2>1. UNCHANGED index /\ Leave({c})
    BY <1>12 DEF LoadLost, EvalRaises, server, Return
  <2> QED  BY <1>0, <1>6, <2>1 DEF MembersBelong
<1>13. ASSUME NEW c \in Caller, NEW ran \in BOOLEAN, EvalSha(c) \/ EvalLost(c, ran)
       PROVE  MembersBelong' /\ CallsWellFormed'
  <2>1. at[c] = "script" /\ Leave({c}) /\ (UNCHANGED index \/ RunScript(arg[c]))
    BY <1>13 DEF EvalSha, EvalLost, Return
  <2>2. \A i \in Index : index'[i] \subseteq index[i]
    BY <1>0, <2>1, ScriptTyped DEF CallsWellFormed
  <2> QED  BY <1>0, <1>6, <2>1, <2>2 DEF MembersBelong
<1>14. CASE ProcessRestart
  BY <1>0, <1>6, <1>14 DEF ProcessRestart, CutShort, server, MembersBelong
<1>15. CASE ServerRestart
  <2>1. InPipeline \in SUBSET Caller /\ Leave(InPipeline)
    BY <1>15 DEF ServerRestart, CutShort, InPipeline
  <2>2. \A i \in Index : index'[i] \subseteq index[i]
    BY <1>0, <1>15 DEF ServerRestart
  <2> QED  BY <1>0, <1>6, <2>1, <2>2 DEF MembersBelong
<1>16. ASSUME NEW c \in Caller, NEW k \in Key, Get(c, k) \/ Delete(c, k)
       PROVE  UNCHANGED <<index, callers>>
  BY <1>16 DEF Get, Delete, server
<1>17. ASSUME NEW c \in Caller, NEW k \in Key, NEW v \in Value, Set(c, k, v)
       PROVE  UNCHANGED <<index, callers>>
  BY <1>17 DEF Set
<1>18. ASSUME NEW k \in Key, Expire(k) PROVE UNCHANGED <<index, callers>>
  BY <1>18 DEF Expire
<1>19. UNCHANGED <<server, sha, callers, torn>> => UNCHANGED <<index, callers>>
  BY DEF server
<1> QED  BY <1>1, <1>2, <1>3, <1>4, <1>7, <1>9, <1>10, <1>11, <1>12, <1>13, <1>14, <1>15,
            <1>16, <1>17, <1>18, <1>19 DEF Commands

(* Only a restart of the server takes the script away.                     *)
LEMMA DigestStep ==
  ASSUME IInv, [Next]_vars
  PROVE  DigestGoodUntilRestart'
<1>0. TypeOK /\ DigestGoodUntilRestart
  BY DEF IInv
<1>1. ASSUME UNCHANGED restarts, scripts => scripts', sha' => sha \/ scripts',
             \A c \in Caller : at'[c] = "script" => at[c] = "script" \/ sha \/ scripts'
      PROVE  DigestGoodUntilRestart'
  BY <1>0, <1>1 DEF DigestGoodUntilRestart
<1>2. CASE UNCHANGED <<restarts, scripts, sha, at>>
  BY <1>1, <1>2
<1>3. ASSUME NEW c \in Caller, UNCHANGED <<restarts, scripts, sha>>,
             at'[c] = "script" => at[c] = "script" \/ sha,
             \A d \in Caller : d # c => at'[d] = at[d]
      PROVE  DigestGoodUntilRestart'
  BY <1>1, <1>3
<1>4. ASSUME NEW C \in SUBSET Caller, UNCHANGED restarts, scripts => scripts', sha' => sha, Leave(C)
      PROVE  DigestGoodUntilRestart'
  <2>1. \A c \in Caller : at'[c] = "script" => at[c] = "script"
    BY <1>0, <1>4, LeaveTyped
  <2> QED  BY <1>1, <1>4, <2>1
<1>5. ASSUME NEW c \in Caller, NEW k \in Key, Calling, Get(c, k) \/ Delete(c, k)
      PROVE  DigestGoodUntilRestart'
  BY <1>2, <1>5 DEF Calling, Get, Delete, server, callers
<1>6. ASSUME NEW c \in Caller, NEW k \in Key, NEW v \in Value, Calling, Set(c, k, v)
      PROVE  DigestGoodUntilRestart'
  BY <1>2, <1>6 DEF Calling, Set, callers
<1>7. ASSUME NEW c \in Caller, NEW k \in Key, NEW v \in Value, Calling, PipelineSet(c, k, v)
      PROVE  DigestGoodUntilRestart'
  <2>1. at'[c] = "pipeline" /\ \A d \in Caller : d # c => at'[d] = at[d]
    BY <1>0, <1>7 DEF PipelineSet, TypeOK
  <2> QED  BY <1>3, <1>7, <2>1 DEF Calling, PipelineSet
<1>8. ASSUME NEW c \in Caller, NEW i \in Index, Calling, StartDel(c, i)
      PROVE  DigestGoodUntilRestart'
  <2>1. at'[c] = (IF sha THEN "script" ELSE "load") /\ \A d \in Caller : d # c => at'[d] = at[d]
    BY <1>0, <1>8 DEF StartDel, TypeOK
  <2> QED  BY <1>3, <1>8, <2>1 DEF Calling, StartDel, server
<1>9. ASSUME NEW c \in Caller, Calling, Flush(c) PROVE DigestGoodUntilRestart'
  BY <1>2, <1>9 DEF Calling, Flush, callers
<1>10. ASSUME NEW c \in Caller, UNCHANGED bounds, PipelineSadd(c) PROVE DigestGoodUntilRestart'
  BY <1>2, <1>10 DEF PipelineSadd, bounds
<1>11. ASSUME NEW c \in Caller, UNCHANGED restarts, LoadScript(c) PROVE DigestGoodUntilRestart'
  BY <1>1, <1>11 DEF LoadScript
<1>12. ASSUME NEW c \in Caller, NEW ran \in BOOLEAN, UNCHANGED restarts,
              \/ PipelineEnd(c) \/ EvalSha(c) \/ EvalRaises(c)
              \/ PipelineLost(c) \/ LoadLost(c) \/ EvalLost(c, ran)
       PROVE  DigestGoodUntilRestart'
  <2>1. Leave({c}) /\ UNCHANGED sha
    BY <1>12 DEF PipelineEnd, EvalSha, EvalRaises, PipelineLost, CutShort, LoadLost, EvalLost,
         Return, server
  <2>2. scripts => scripts'
    BY <1>12 DEF PipelineEnd, EvalSha, EvalRaises, PipelineLost, LoadLost, EvalLost, server
  <2> QED  BY <1>4, <1>12, <2>1, <2>2
<1>13. ASSUME NEW k \in Key, UNCHANGED bounds, Expire(k) PROVE DigestGoodUntilRestart'
  BY <1>2, <1>13 DEF Expire, callers, bounds
<1>14. CASE Losing /\ ProcessRestart
  <2>1. Leave(Caller) /\ ~ sha' /\ UNCHANGED <<scripts, restarts>>
    BY <1>14 DEF ProcessRestart, CutShort, server, Losing
  <2> QED  BY <1>4, <2>1
<1>15. CASE Restarting
  BY <1>0, <1>15, Constants DEF Restarting, TypeOK, DigestGoodUntilRestart
<1>16. CASE UNCHANGED vars
  BY <1>2, <1>16 DEF vars, server, callers, bounds
<1> QED  BY <1>5, <1>6, <1>7, <1>8, <1>9, <1>10, <1>11, <1>12, <1>13, <1>14, <1>15, <1>16
         DEF Next, bounds, Losing

(* The key k is found under i by a deletion, or excused.                   *)
LEMMA IndexedStep ==
  ASSUME Reachable, Commands
  PROVE  IndexedUnlessTorn'
<1> DEFINE Found(k, i) == k \in index[i] \/ Unreachable(k, i)
           Kept(k, i) == k \in index'[i] \/ Adding(k, i)' \/ <<k, i>> \in torn'
<1>0. TypeOK /\ MembersBelong /\ CallsWellFormed /\ IndexedUnlessTorn
  BY DEF Reachable
<1>a. \A k \in Key : RuleOf[k] # None => ToSet(IndexesOf(k)) \subseteq Index
  BY IndexesOfKey DEF ToSet
<1>b. ASSUME \A k \in Key : store'[k] # None /\ RuleOf[k] # None =>
               \/ \A i \in ToSet(IndexesOf(k)) : Kept(k, i)
               \/ store[k] # None /\ \A i \in Index : Found(k, i) => Kept(k, i)
      PROVE  IndexedUnlessTorn'
  <2>1. ASSUME NEW k \in Key, store'[k] # None, RuleOf[k] # None, NEW i \in ToSet(IndexesOf(k))
        PROVE  Kept(k, i)
    BY <1>0, <1>a, <1>b, <2>1 DEF IndexedUnlessTorn
  <2> QED  BY <2>1 DEF IndexedUnlessTorn, Unreachable
<1>1. ASSUME UNCHANGED <<index, callers, torn>>,
             \A k \in Key : store'[k] # None /\ RuleOf[k] # None => store[k] # None
      PROVE  IndexedUnlessTorn'
  <2>1. \A k \in Key, i \in Index : Found(k, i) => Kept(k, i)
    BY <1>1 DEF Unreachable, Adding, InPipeline, callers
  <2> QED  BY <1>1, <1>b, <2>1
<1>2. ASSUME NEW c \in Caller, NEW k \in Key, Get(c, k) \/ Delete(c, k) \/ Expire(k)
      PROVE  IndexedUnlessTorn'
  BY <1>0, <1>1, <1>2 DEF Get, Delete, Expire, server, TypeOK
<1>3. ASSUME NEW c \in Caller, NEW k \in Key, NEW v \in Value, Set(c, k, v)
      PROVE  IndexedUnlessTorn'
  BY <1>0, <1>1, <1>3 DEF Set, TypeOK
<1>4. CASE UNCHANGED <<server, sha, callers, torn>>
  BY <1>1, <1>4 DEF server
<1>5. ASSUME NEW c \in Caller, NEW k \in Key, NEW v \in Value, PipelineSet(c, k, v)
      PROVE  IndexedUnlessTorn'
  <2>1. /\ c \notin InPipeline /\ UNCHANGED <<index, torn>>
        /\ \A j \in Key : j # k => store'[j] = store[j]
        /\ \A d \in Caller : d # c => at'[d] = at[d] /\ arg'[d] = arg[d] /\ todo'[d] = todo[d]
        /\ at'[c] = "pipeline" /\ arg'[c] = k /\ todo'[c] = IndexesOf(k)
    BY <1>0, <1>5 DEF PipelineSet, Call, InPipeline, TypeOK
  <2>2. \A i \in ToSet(IndexesOf(k)) : Kept(k, i)
    BY <2>1 DEF Adding, InPipeline
  <2>3. \A j \in Key, i \in Index : Found(j, i) => Kept(j, i)
    BY <2>1 DEF Unreachable, Adding, InPipeline
  <2> QED  BY <1>b, <2>1, <2>2, <2>3
<1>6. ASSUME NEW c \in InPipeline, Sadd(c), UNCHANGED store,
             \A d \in Caller : d # c => at'[d] = at[d] /\ arg'[d] = arg[d] /\ todo'[d] = todo[d],
             \/ ToSet(todo[c]) = {Head(todo[c])}
             \/ at'[c] = at[c] /\ arg'[c] = arg[c] /\ todo'[c] = Tail(todo[c])
      PROVE  IndexedUnlessTorn'
  <2>1. ASSUME NEW k \in Key, NEW i \in Index, Found(k, i) PROVE Kept(k, i)
    <3>1. CASE k = arg[c] /\ i = Head(todo[c])
      BY <1>0, <1>6, <3>1, SaddTyped
    <3>2. CASE ~ (k = arg[c] /\ i = Head(todo[c])) /\ (k \in index[i] \/ <<k, i>> \in torn)
      <4>1. k \in index[i] => k \in index'[i]
        BY <1>0, <1>6, SaddTyped
      <4> QED  BY <1>6, <3>2, <4>1 DEF Sadd
    <3>3. ASSUME NEW d \in InPipeline, arg[d] = k, i \in ToSet(todo[d]), ~ (k = arg[c] /\ i = Head(todo[c]))
          PROVE  Kept(k, i)
      <4>1. CASE d # c
        BY <1>6, <3>3, <4>1 DEF Adding, InPipeline
      <4>2. CASE d = c
        <5>1. i \in ToSet(Tail(todo[c])) /\ ToSet(todo[c]) # {Head(todo[c])}
          BY <1>0, <1>6, <3>3, <4>2, SaddTyped
        <5> QED  BY <1>6, <3>3, <4>2, <5>1 DEF Adding, InPipeline
      <4> QED  BY <4>1, <4>2
    <3> QED  BY <2>1, <3>1, <3>2, <3>3 DEF Unreachable, Adding
  <2> QED  BY <1>6, <1>b, <2>1
<1>7. ASSUME NEW c \in Caller, PipelineSadd(c) PROVE IndexedUnlessTorn'
  <2>1. c \in InPipeline /\ Sadd(c) /\ UNCHANGED <<store, at, arg>>
    BY <1>7 DEF PipelineSadd, InPipeline
  <2>2. todo'[c] = Tail(todo[c]) /\ \A d \in Caller : d # c => todo'[d] = todo[d]
    BY <1>0, <1>7 DEF PipelineSadd, TypeOK
  <2> QED  BY <1>6, <2>1, <2>2
<1>8. ASSUME NEW c \in InPipeline, Sadd(c), Return(c), Len(todo[c]) = 1, UNCHANGED store
      PROVE  IndexedUnlessTorn'
  <2>1. {c} \in SUBSET Caller /\ Leave({c})
    BY <1>8 DEF Return, InPipeline
  <2>2. \A d \in Caller : d # c => at'[d] = at[d] /\ arg'[d] = arg[d] /\ todo'[d] = todo[d]
    BY <1>0, <2>1, LeaveTyped
  <2> QED  BY <1>0, <1>6, <1>8, <2>2, SaddTyped
<1>9. ASSUME NEW c \in Caller, PipelineEnd(c) PROVE IndexedUnlessTorn'
  BY <1>8, <1>9 DEF PipelineEnd, InPipeline
<1>10. ASSUME NEW C \in SUBSET Caller, CutShort(C), UNCHANGED <<store, index>>
       PROVE  IndexedUnlessTorn'
  <2>1. Leave(C)
    BY <1>10 DEF CutShort
  <2>2. \A d \in Caller \ C : at'[d] = at[d] /\ arg'[d] = arg[d] /\ todo'[d] = todo[d]
    BY <1>0, <2>1, LeaveTyped
  <2>3. ASSUME NEW k \in Key, NEW i \in Index, Found(k, i) PROVE Kept(k, i)
    <3>1. CASE k \in index[i] \/ <<k, i>> \in torn
      BY <1>10, <3>1 DEF CutShort
    <3>2. ASSUME NEW d \in InPipeline, arg[d] = k, i \in ToSet(todo[d]) PROVE Kept(k, i)
      <4>1. CASE d \notin C
        BY <2>2, <3>2, <4>1 DEF Adding, InPipeline
      <4>2. CASE d \in C
        BY <1>10, <3>2, <4>2 DEF CutShort, Unsent
      <4> QED  BY <4>1, <4>2
    <3> QED  BY <2>3, <3>1, <3>2 DEF Unreachable, Adding
  <2> QED  BY <1>10, <1>b, <2>3
<1>11. ASSUME NEW c \in Caller, PipelineLost(c) PROVE IndexedUnlessTorn'
  <2>1. CASE CutShort({c}) /\ UNCHANGED index
    BY <1>10, <1>11, <2>1 DEF PipelineLost
  <2>2. CASE Len(todo[c]) = 1 /\ Sadd(c) /\ Return(c)
    BY <1>8, <1>11, <2>2 DEF PipelineLost, InPipeline
  <2> QED  BY <1>11, <2>1, <2>2 DEF PipelineLost
<1>12. ASSUME UNCHANGED <<index, torn>>,
              \A k \in Key : store'[k] # None => store[k] # None,
              \A d \in InPipeline : at'[d] = at[d] /\ arg'[d] = arg[d] /\ todo'[d] = todo[d]
       PROVE  IndexedUnlessTorn'
  <2>1. \A k \in Key, i \in Index : Found(k, i) => Kept(k, i)
    BY <1>12 DEF Unreachable, Adding, InPipeline
  <2> QED  BY <1>12, <1>b, <2>1
<1>13. ASSUME NEW c \in Caller, NEW i \in Index, StartDel(c, i) PROVE IndexedUnlessTorn'
  <2>1. UNCHANGED <<store, index, torn, todo>> /\ c \notin InPipeline
        /\ \A d \in Caller : d # c => at'[d] = at[d] /\ arg'[d] = arg[d]
    BY <1>0, <1>13 DEF StartDel, Call, server, InPipeline, TypeOK
  <2> QED  BY <1>12, <2>1 DEF InPipeline
<1>14. ASSUME NEW c \in Caller, LoadScript(c) PROVE IndexedUnlessTorn'
  <2>1. UNCHANGED <<store, index, torn, arg, todo>> /\ c \notin InPipeline
        /\ \A d \in Caller : d # c => at'[d] = at[d]
    BY <1>0, <1>14 DEF LoadScript, InPipeline, TypeOK
  <2> QED  BY <1>12, <2>1 DEF InPipeline
<1>15. ASSUME NEW c \in Caller, Leave({c}), at[c] # "pipeline"
       PROVE  \A d \in InPipeline : at'[d] = at[d] /\ arg'[d] = arg[d] /\ todo'[d] = todo[d]
  BY <1>0, <1>15, LeaveTyped DEF InPipeline
<1>16. ASSUME NEW c \in Caller, LoadLost(c) \/ EvalRaises(c) PROVE IndexedUnlessTorn'
  <2>1. UNCHANGED <<store, index, torn>> /\ Leave({c}) /\ at[c] # "pipeline"
    BY <1>16 DEF LoadLost, EvalRaises, server, Return
  <2> QED  BY <1>12, <1>15, <2>1
<1>17. ASSUME NEW c \in Caller, NEW ran \in BOOLEAN, EvalSha(c) \/ EvalLost(c, ran) PROVE IndexedUnlessTorn'
  <2>1. Leave({c}) /\ at[c] # "pipeline" /\ arg[c] \in Index
        /\ (UNCHANGED <<store, index, torn>> \/ RunScript(arg[c]))
    BY <1>0, <1>17 DEF EvalSha, EvalLost, Return, CallsWellFormed
  <2>2. CASE UNCHANGED <<store, index, torn>>
    BY <1>12, <1>15, <2>1, <2>2
  <2>3. CASE RunScript(arg[c])
    <3>1. ASSUME NEW k \in Key, store'[k] # None, NEW i \in Index, Found(k, i)
          PROVE  Kept(k, i)
      <4>1. k \notin index[arg[c]] /\ store[k] # None
        BY <1>0, <2>1, <2>3, <3>1, ScriptTyped
      <4>2. CASE k \in index[i]
        BY <1>0, <2>1, <2>3, <4>1, <4>2, ScriptTyped
      <4>3. CASE <<k, i>> \in torn
        BY <1>0, <2>1, <2>3, <4>1, <4>3, ScriptTyped
      <4>4. CASE Adding(k, i)
        BY <1>15, <2>1, <4>4 DEF Adding, InPipeline
      <4> QED  BY <3>1, <4>2, <4>3, <4>4 DEF Unreachable
    <3>2. \A k \in Key : store'[k] # None => store[k] # None
      BY <1>0, <2>1, <2>3, ScriptTyped
    <3> QED  BY <1>b, <3>1, <3>2
  <2> QED  BY <2>1, <2>2, <2>3
<1>18. ASSUME \A k \in Key : store'[k] = None PROVE IndexedUnlessTorn'
  BY <1>18 DEF IndexedUnlessTorn
<1>19. ASSUME NEW c \in Caller, Flush(c) PROVE IndexedUnlessTorn'
  BY <1>18, <1>19 DEF Flush
<1>20. CASE ProcessRestart
  BY <1>10, <1>20 DEF ProcessRestart, server
<1>21. CASE ServerRestart
  <2>1. InPipeline \in SUBSET Caller
    BY DEF InPipeline
  <2>2. CASE CutShort(InPipeline) /\ UNCHANGED <<store, index>>
    BY <1>10, <2>1, <2>2
  <2>3. CASE store' = [k \in Key |-> None]
    BY <1>18, <2>3
  <2> QED  BY <1>21, <2>2, <2>3 DEF ServerRestart
<1>22. ASSUME NEW k \in Key, Expire(k) PROVE IndexedUnlessTorn'
  BY <1>0, <1>1, <1>22 DEF Expire, TypeOK
<1> QED  BY <1>2, <1>3, <1>4, <1>5, <1>7, <1>9, <1>11, <1>13, <1>14, <1>16, <1>17, <1>19,
            <1>20, <1>21, <1>22 DEF Commands

LEMMA CommandsKeep ==
  ASSUME Reachable, Commands,
         calls' \in 0 .. MaxCalls, losses' \in 0 .. MaxLosses, restarts' \in 0 .. MaxRestarts
  PROVE  Reachable'
BY TypeStep, FormStep, IndexedStep DEF Reachable

LEMMA NextInv == IInv /\ [Next]_vars => IInv'
BY NextCommands, BoundsKept, CommandsKeep, DigestStep DEF IInv, Reachable

(* The state always has its types. *)
THEOREM Typed == Spec => []TypeOK
<1>1. IInv => TypeOK
  BY DEF IInv
<1> QED  BY InitInv, NextInv, <1>1, PTL DEF Spec

(* redis_backend.py:79-99 and 104-112: whatever the order of stores,       *)
(* deletions, losses and restarts, an entry is in all its index sets       *)
(* unless its pipeline is not finished or was cut short.                   *)
THEOREM Indexing == Spec => []IndexedUnlessTorn
<1>1. IInv => IndexedUnlessTorn
  BY DEF IInv
<1> QED  BY InitInv, NextInv, <1>1, PTL DEF Spec

(* The digest _ensure_lua_loaded caches is good until the server restarts, *)
(* however many callers load the script at once.                           *)
THEOREM Digest == Spec => []DigestGoodUntilRestart
<1>1. IInv => DigestGoodUntilRestart
  BY DEF IInv
<1> QED  BY InitInv, NextInv, <1>1, PTL DEF Spec

-----------------------------------------------------------------------------
(* The Protocol's counters: pipelines under way are counted already.       *)
Counted(counts, n) == [counts EXCEPT !.sets = @ + n]

LEMMA CountedLater ==
  ASSUME NEW a \in Counts, NEW n \in Nat
  PROVE  /\ Counted([a EXCEPT !.hits = @ + 1], n) = [Counted(a, n) EXCEPT !.hits = @ + 1]
         /\ Counted([a EXCEPT !.misses = @ + 1], n) = [Counted(a, n) EXCEPT !.misses = @ + 1]
         /\ Counted([a EXCEPT !.sets = @ + 1], n) = [Counted(a, n) EXCEPT !.sets = @ + 1]
         /\ Counted(a, n + 1) = [Counted(a, n) EXCEPT !.sets = @ + 1]
         /\ Counted([a EXCEPT !.sets = @ + 1], n) = Counted(a, n + 1)
<1>1. /\ Counted([a EXCEPT !.hits = @ + 1], n) = [Counted(a, n) EXCEPT !.hits = @ + 1]
      /\ Counted([a EXCEPT !.misses = @ + 1], n) = [Counted(a, n) EXCEPT !.misses = @ + 1]
  BY DEF Counts, Counted
<1>2. (a.sets + 1) + n = (a.sets + n) + 1 /\ a.sets + (n + 1) = (a.sets + n) + 1
  BY DEF Counts
<1>3. Counted([a EXCEPT !.sets = @ + 1], n) = [a EXCEPT !.sets = (a.sets + 1) + n]
  BY DEF Counts, Counted
<1>4. Counted(a, n + 1) = [a EXCEPT !.sets = a.sets + (n + 1)]
  BY DEF Counts, Counted
<1>5. [Counted(a, n) EXCEPT !.sets = @ + 1] = [a EXCEPT !.sets = (a.sets + n) + 1]
  BY DEF Counts, Counted
<1> QED  BY <1>1, <1>2, <1>3, <1>4, <1>5

(* How many pipelines there are when one starts and when one ends. *)
LEMMA Pipelines ==
  /\ Cardinality(InPipeline) \in Nat
  /\ \A c \in Caller \ InPipeline :
       Cardinality(InPipeline \cup {c}) = Cardinality(InPipeline) + 1
  /\ \A c \in InPipeline :
       /\ Cardinality(InPipeline \ {c}) \in Nat
       /\ Cardinality(InPipeline) = Cardinality(InPipeline \ {c}) + 1
<1>1. IsFiniteSet(InPipeline)
  <2>1. InPipeline \subseteq Caller
    BY DEF InPipeline
  <2> QED  BY <2>1, Constants, FS_Subset
<1>2. ASSUME NEW c \in InPipeline
      PROVE  /\ Cardinality(InPipeline \ {c}) \in Nat
             /\ Cardinality(InPipeline) = Cardinality(InPipeline \ {c}) + 1
  <2>1. IsFiniteSet(InPipeline \ {c}) /\ Cardinality(InPipeline \ {c}) = Cardinality(InPipeline) - 1
    BY <1>1, FS_RemoveElement
  <2> QED  BY <1>1, <2>1, FS_CardinalityType
<1> QED  BY <1>1, <1>2, FS_CardinalityType, FS_AddElement

LEMMA PromisedStep ==
  ASSUME IInv, [Next]_vars
  PROVE  [Protocol!Next]_(Protocol!backendVars) \/ Cut \/ Misses \/ Reset
<1> DEFINE n == Cardinality(InPipeline)
           m == Cardinality(InPipeline')
           Promised == [Protocol!Next]_(Protocol!backendVars) \/ Cut \/ Misses \/ Reset
<1>0. /\ TypeOK /\ MembersBelong /\ CallsWellFormed /\ IndexedUnlessTorn
      /\ counters \in Counts /\ store \in [Key -> Value \cup {None}] /\ n \in Nat
  BY Pipelines DEF IInv, TypeOK
<1>a. ASSUME UNCHANGED <<store, ret>>, Counted(counters', m) = Counted(counters, n) PROVE Promised
  BY <1>a DEF Protocol!backendVars, Counted
<1>b. ASSUME UNCHANGED <<counters, ret, InPipeline>>, NEW S \in SUBSET Key,
             \A k \in Key : store'[k] = IF k \in S THEN None ELSE store[k],
             store' \in [Key -> Value \cup {None}]
      PROVE  Promised
  <2>1. store' = Protocol!Without(S)
    BY <1>b DEF Protocol!Without
  <2>2. Protocol!Drop(S)
    BY <1>b, <2>1 DEF Protocol!Drop
  <2> QED  BY <2>2 DEF Protocol!Next
<1>c. ASSUME NEW k \in Key, NEW v \in Value, store' = [store EXCEPT ![k] = v], ret' = None,
             Counted(counters', m) = [Counted(counters, n) EXCEPT !.sets = @ + 1]
      PROVE  Promised
  <2>1. Protocol!Without({}) = store
    BY <1>0 DEF Protocol!Without
  <2>2. Protocol!Write(k, v)
    BY <1>c, <2>1 DEF Protocol!Write, Counted
  <2> QED  BY <2>2 DEF Protocol!Next
<1>d. UNCHANGED callers => UNCHANGED InPipeline
  BY DEF callers, InPipeline
<1>1. ASSUME NEW c \in Caller, NEW k \in Key, Get(c, k) PROVE Promised
  <2>1. UNCHANGED <<store, InPipeline>>
    BY <1>1, <1>d DEF Get, server
  <2>2. Counted(counters', m) = IF store[k] = None
                                THEN [Counted(counters, n) EXCEPT !.misses = @ + 1]
                                ELSE [Counted(counters, n) EXCEPT !.hits = @ + 1]
    BY <1>0, <1>1, <2>1, CountedLater DEF Get
  <2>3. Protocol!Get(k)
    BY <1>1, <2>1, <2>2 DEF Get, Protocol!Get, Counted
  <2> QED  BY <2>3 DEF Protocol!Next
<1>2. ASSUME NEW c \in Caller, NEW k \in Key, Delete(c, k) PROVE Promised
  <2>1. UNCHANGED <<counters, ret, InPipeline>> /\ store' = [store EXCEPT ![k] = None]
    BY <1>2, <1>d DEF Delete
  <2>2. {k} \in SUBSET Key /\ store' \in [Key -> Value \cup {None}]
        /\ \A j \in Key : store'[j] = IF j \in {k} THEN None ELSE store[j]
    BY <1>0, <2>1
  <2> QED  BY <1>b, <2>1, <2>2
<1>3. ASSUME NEW c \in Caller, NEW k \in Key, NEW v \in Value, Set(c, k, v) PROVE Promised
  <2>1. UNCHANGED InPipeline /\ counters' = [counters EXCEPT !.sets = @ + 1]
    BY <1>3, <1>d DEF Set
  <2> QED  BY <1>0, <1>3, <1>c, <2>1, CountedLater DEF Set
<1>4. ASSUME NEW c \in Caller, Flush(c) PROVE Promised
  <2>1. UNCHANGED <<counters, ret, InPipeline>> /\ store' = [k \in Key |-> None]
    BY <1>4, <1>d DEF Flush
  <2> QED  BY <1>b, <2>1
<1>5. ASSUME NEW c \in Caller, NEW k \in Key, NEW v \in Value, PipelineSet(c, k, v) PROVE Promised
  <2>1. InPipeline' = InPipeline \cup {c} /\ c \notin InPipeline
    BY <1>0, <1>5 DEF PipelineSet, Call, InPipeline, TypeOK
  <2>2. m = n + 1
    BY <2>1, Pipelines
  <2>3. Counted(counters', m) = [Counted(counters, n) EXCEPT !.sets = @ + 1]
    <3>1. counters' = counters
      BY <1>5 DEF PipelineSet
    <3>2. Counted(counters, n + 1) = [Counted(counters, n) EXCEPT !.sets = @ + 1]
      BY <1>0, CountedLater
    <3> HIDE DEF n, m
    <3> QED  BY <2>2, <3>1, <3>2
  <2> QED  BY <1>5, <1>c, <2>3 DEF PipelineSet
<1>6. ASSUME UNCHANGED <<store, ret, counters, InPipeline>> PROVE Promised
  BY <1>6, <1>a
<1>7. ASSUME NEW c \in Caller, NEW i \in Index, StartDel(c, i) PROVE Promised
  BY <1>0, <1>6, <1>7 DEF StartDel, Call, server, InPipeline, TypeOK
<1>8. ASSUME NEW c \in Caller, PipelineSadd(c) PROVE Promised
  BY <1>6, <1>8 DEF PipelineSadd, InPipeline
<1>9. ASSUME NEW c \in Caller, LoadScript(c) PROVE Promised
  BY <1>0, <1>6, <1>9 DEF LoadScript, InPipeline, TypeOK
<1>10. ASSUME NEW C \in SUBSET Caller, Leave(C) PROVE InPipeline' = InPipeline \ C
  BY <1>0, <1>10, LeaveTyped
<1>11. ASSUME NEW c \in Caller, PipelineEnd(c) PROVE Promised
  <2>1. c \in InPipeline /\ InPipeline' = InPipeline \ {c}
    BY <1>10, <1>11 DEF PipelineEnd, Return, InPipeline
  <2>2. m \in Nat /\ n = m + 1
    BY <2>1, Pipelines
  <2>3. Counted(counters', m) = Counted(counters, n)
    BY <1>0, <1>11, <2>2, CountedLater DEF PipelineEnd
  <2> QED  BY <1>11, <1>a, <2>3 DEF PipelineEnd
<1>12. ASSUME NEW c \in Caller, PipelineLost(c) PROVE Promised
  <2>1. c \in InPipeline /\ InPipeline' = InPipeline \ {c} /\ UNCHANGED <<store, counters, ret>>
    BY <1>10, <1>12 DEF PipelineLost, CutShort, Return, InPipeline
  <2>2. store' = Protocol!Without({})
    BY <1>0, <2>1 DEF Protocol!Without
  <2> QED  BY <2>1, <2>2 DEF Cut
<1>13. ASSUME NEW c \in Caller, LoadLost(c) \/ EvalRaises(c) PROVE Promised
  <2>1. UNCHANGED <<store, counters, ret>> /\ Leave({c}) /\ c \notin InPipeline
    BY <1>13 DEF LoadLost, EvalRaises, Return, server, InPipeline
  <2> QED  BY <1>6, <1>10, <2>1
<1>14. ASSUME NEW c \in Caller, NEW ran \in BOOLEAN, EvalSha(c) \/ EvalLost(c, ran)
       PROVE  /\ arg[c] \in Index /\ UNCHANGED InPipeline
              /\ index[arg[c]] \in SUBSET Key
  <2>1. Leave({c}) /\ at[c] = "script"
    BY <1>14 DEF EvalSha, EvalLost, Return
  <2> QED  BY <1>0, <1>10, <2>1 DEF CallsWellFormed, InPipeline, TypeOK
<1>15. ASSUME NEW c \in Caller, NEW ran \in BOOLEAN, EvalLost(c, ran) PROVE Promised
  <2>1. UNCHANGED <<counters, ret>> /\ (UNCHANGED store \/ RunScript(arg[c]))
    BY <1>15 DEF EvalLost
  <2> QED  BY <1>0, <1>6, <1>14, <1>15, <1>b, <2>1, ScriptTyped
<1>16. ASSUME NEW c \in Caller, EvalSha(c) PROVE Promised
  <2> DEFINE i == arg[c]
  <2>1. /\ RunScript(i) /\ i \in Index /\ UNCHANGED InPipeline /\ ret' = None
        /\ counters' = [counters EXCEPT !.invalidations = @ + 1]
    BY <1>14, <1>16 DEF EvalSha
  <2>2. index[i] \in SUBSET Declared(i)
    BY <1>0, <1>14, <1>16, DeclaredIndexed DEF MembersBelong
  <2>3. store' = Protocol!Without(index[i])
    BY <1>0, <2>1, ScriptTyped DEF Protocol!Without
  <2>4. ASSUME NEW k \in Declared(i), store'[k] # None PROVE Unreachable(k, i)
    <3>1. k \in Key /\ RuleOf[k] # None /\ i \in ToSet(IndexesOf(k))
      BY <2>1, <2>4, DeclaredIndexed DEF Declared
    <3>2. k \notin index[i] /\ store[k] # None
      BY <1>0, <2>1, <2>4, <3>1, ScriptTyped
    <3> QED  BY <1>0, <3>1, <3>2 DEF IndexedUnlessTorn
  <2> QED  BY <2>1, <2>2, <2>3, <2>4 DEF Misses
<1>17. ASSUME ProcessRestart PROVE Promised
  BY <1>17 DEF ProcessRestart, server, Reset
<1>18. ASSUME ServerRestart PROVE Promised
  <2>1. Leave(InPipeline) /\ InPipeline \in SUBSET Caller /\ UNCHANGED <<counters, ret>>
        /\ (UNCHANGED store \/ store' = [k \in Key |-> None])
    BY <1>18 DEF ServerRestart, CutShort, InPipeline
  <2>2. InPipeline' = {}
    BY <1>10, <2>1
  <2>3. \E S \in SUBSET Key : store' = Protocol!Without(S)
    <3>1. UNCHANGED store => store' = Protocol!Without({})
      BY <1>0 DEF Protocol!Without
    <3>2. store' = [k \in Key |-> None] => store' = Protocol!Without(Key)
      BY DEF Protocol!Without
    <3> QED  BY <2>1, <3>1, <3>2
  <2>4. CASE InPipeline = {}
    BY <1>6, <1>b, <2>1, <2>2, <2>4
  <2>5. CASE InPipeline # {}
    BY <2>1, <2>2, <2>3, <2>5 DEF Cut
  <2> QED  BY <2>4, <2>5
<1>19. ASSUME UNCHANGED vars PROVE Promised
  BY <1>6, <1>19, <1>d DEF vars, server
<1>20. ASSUME NEW k \in Key, Expire(k) PROVE Promised
  <2>1. UNCHANGED <<counters, ret, InPipeline>> /\ store' = [store EXCEPT ![k] = None]
    BY <1>20, <1>d DEF Expire
  <2>2. {k} \in SUBSET Key /\ store' \in [Key -> Value \cup {None}]
        /\ \A j \in Key : store'[j] = IF j \in {k} THEN None ELSE store[j]
    BY <1>0, <2>1
  <2> QED  BY <1>b, <2>1, <2>2
<1> HIDE DEF Promised
<1>21. Promised
  BY <1>1, <1>2, <1>3, <1>4, <1>5, <1>7, <1>8, <1>9, <1>11, <1>12, <1>13, <1>15, <1>16,
     <1>17, <1>18, <1>19, <1>20 DEF Next
<1> QED  BY <1>21 DEF Promised

(* backend.py: RedisBackend keeps the CacheBackend Protocol for any number *)
(* of callers, but for cut pipelines, restarts of the process, and         *)
(* deletions that leave an entry whose pipeline is not finished or was cut *)
(* short.                                                                  *)
THEOREM Promises == Spec => StepsAsPromised
<1>1. IInv /\ [Next]_vars
        => [[Protocol!Next]_(Protocol!backendVars) \/ Cut \/ Misses \/ Reset]_vars
  BY PromisedStep
<1> QED  BY InitInv, NextInv, <1>1, PTL DEF Spec, StepsAsPromised
=============================================================================
