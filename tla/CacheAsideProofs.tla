-------------------------- MODULE CacheAsideProofs --------------------------
(***************************************************************************)
(* For any number of invocations, keys, mutations and restarts: an entry   *)
(* out of date with Postgres has one of the three causes StaleExplained    *)
(* names (the proof needs the same of the payloads still in flight), and   *)
(* no task waits for the cache with a connection or a row lock.            *)
(***************************************************************************)
EXTENDS CacheAside, FiniteSetTheorems, TLAPS

LEMMA Constants ==
  /\ None \notin Key /\ None \notin Payload /\ None \notin Mutation
  /\ Reader \cap Writer = {}
  /\ \A m \in Mutation : Targets[m] \in Seq(Target) /\ Writes[m] \in SUBSET Datum
  /\ Expiring \subseteq Key
BY CacheAsideAssumption DEF Payload

-----------------------------------------------------------------------------
(* What a step that does not meddle with them leaves explained.            *)

(* An explanation lasts as long as its writer's mutation and position do. *)
LEMMA ExplanationLasts ==
  ASSUME committed \subseteq committed',
         \A w \in committed : mut'[w] = mut[w] /\ pos'[w] = pos[w]
  PROVE  \A k \in Key, d \in Datum : Explained(k, d) => Explained(k, d)'
<1> SUFFICES ASSUME NEW k \in Key, NEW d \in Datum, Explained(k, d)
             PROVE  Explained(k, d)'
  OBVIOUS
<1>1. CASE Pending(k, d)
  BY <1>1 DEF Pending, Explained, Covers
<1>2. CASE Undeclared(k, d)
  BY <1>2 DEF Undeclared, Explained, Covers
<1> QED  BY <1>1, <1>2 DEF Explained

LEMMA StaleFrame ==
  ASSUME StaleExplained, db' = db,
         \A k \in Key, d \in Datum : Explained(k, d) => Explained(k, d)',
         \A k \in Key : live'[k] # None =>
           live'[k] = live[k] /\ (k \in tainted => k \in tainted')
  PROVE  StaleExplained'
BY DEF StaleExplained, Superseded

LEMMA InFlightFrame ==
  ASSUME InFlightExplained, WellFormed, db' = db,
         \A k \in Key, d \in Datum : Explained(k, d) => Explained(k, d)',
         \A r \in Reader : pc'[r] = "fill" =>
           /\ pc[r] = "fill" /\ got'[r] = got[r] /\ key'[r] = key[r]
           /\ r \in outrun => r \in outrun'
  PROVE  InFlightExplained'
<1> SUFFICES ASSUME NEW r \in Reader, NEW d \in Datum, pc'[r] = "fill",
                    Superseded(got[r], key[r], d), r \notin outrun
             PROVE  Explained(key[r], d)'
  BY DEF InFlightExplained, Superseded
<1>1. pc[r] = "fill" /\ key[r] \in Key
  BY DEF WellFormed
<1>2. Explained(key[r], d)
  BY <1>1 DEF InFlightExplained
<1> QED  BY <1>1, <1>2

-----------------------------------------------------------------------------
(* The three steps that create or consume an explanation.                  *)

(* A commit is at once the explanation of everything it makes stale. *)
LEMMA ApplyExplains ==
  ASSUME TypeOK, WellFormed, NEW w \in Writer, pc[w] = "commit", Apply(w),
         UNCHANGED <<mut, pos>>, NEW k \in Key, NEW d \in Datum, db'[d] # db[d]
  PROVE  Explained(k, d)'
<1>1. mut[w] \in Mutation /\ pos[w] = 1
  BY DEF WellFormed
<1>2. w \in committed' /\ d \in Writes[mut[w]]
  BY DEF Apply, TypeOK
<1>3. CASE \E i \in 1 .. Len(Targets[mut[w]]) : Covers(w, i, k)
  BY <1>1, <1>2, <1>3 DEF Explained, Pending, Covers
<1>4. CASE \A i \in 1 .. Len(Targets[mut[w]]) : ~ Covers(w, i, k)
  BY <1>1, <1>2, <1>4 DEF Explained, Undeclared, Covers
<1> QED  BY <1>3, <1>4

LEMMA ApplyInFlight ==
  ASSUME TypeOK, WellFormed, InFlightExplained, NEW w \in Writer, pc[w] = "commit", Apply(w),
         UNCHANGED <<key, got, mut, pos, outrun>>,
         \A r \in Reader : pc'[r] = "fill" => pc[r] = "fill"
  PROVE  InFlightExplained'
<1>1. \A k \in Key, d \in Datum : Explained(k, d) => Explained(k, d)'
  BY ExplanationLasts DEF Apply
<1> SUFFICES ASSUME NEW r \in Reader, NEW d \in Datum, pc'[r] = "fill",
                    Superseded(got[r], key[r], d)', r \notin outrun
             PROVE  Explained(key[r], d)'
  BY DEF InFlightExplained
<1>2. pc[r] = "fill" /\ key[r] \in Key
  BY DEF WellFormed
<1>3. CASE db'[d] # db[d]
  BY <1>2, <1>3, ApplyExplains
<1>4. CASE db'[d] = db[d]
  <2>1. Explained(key[r], d)
    BY <1>2, <1>4 DEF InFlightExplained, Superseded
  <2> QED  BY <1>1, <1>2, <2>1
<1> QED  BY <1>3, <1>4

LEMMA ApplyKeeps ==
  ASSUME IInv, NEW w \in Writer, pc[w] = "commit", Apply(w),
         UNCHANGED <<live, key, got, mut, pos, outrun, tainted>>,
         \A r \in Reader : pc'[r] = "fill" => pc[r] = "fill"
  PROVE  InFlightExplained' /\ StaleExplained'
<1>1. \A k \in Key, d \in Datum : Explained(k, d) => Explained(k, d)'
  BY ExplanationLasts DEF Apply
<1>2. \A k \in Key, d \in Datum : db'[d] # db[d] => Explained(k, d)'
  BY ApplyExplains DEF IInv
<1>3. StaleExplained'
  BY <1>1, <1>2 DEF IInv, StaleExplained, Superseded
<1> QED  BY <1>3, ApplyInFlight DEF IInv

(* Deleting a target uses up the explanations of the keys it covers only:  *)
(* their payloads in flight are overtaken, their entries are gone.         *)
LEMMA DeletionInFlight ==
  ASSUME WellFormed, InFlightExplained, NEW keys \in SUBSET Key, UNCHANGED <<db, key, got>>,
         outrun' = outrun \cup {r \in Reader : /\ pc[r] = "fill" /\ key[r] \in keys
                                               /\ \E d \in ReadsOf[key[r]] : got[r][d] # db[d]},
         \A r \in Reader : pc'[r] = "fill" => pc[r] = "fill",
         \A k \in Key \ keys, d \in Datum : Explained(k, d) => Explained(k, d)'
  PROVE  InFlightExplained'
<1> SUFFICES ASSUME NEW r \in Reader, NEW d \in Datum, pc'[r] = "fill",
                    Superseded(got[r], key[r], d), r \notin outrun'
             PROVE  Explained(key[r], d)'
  BY DEF InFlightExplained, Superseded
<1>1. pc[r] = "fill" /\ key[r] \in Key
  BY DEF WellFormed
<1>2. r \notin outrun /\ key[r] \notin keys
  BY <1>1 DEF Superseded
<1>3. Explained(key[r], d)
  BY <1>1, <1>2 DEF InFlightExplained
<1> QED  BY <1>1, <1>2, <1>3

LEMMA DeletionKeeps ==
  ASSUME IInv, NEW keys \in SUBSET Key, Overtake(keys), UNCHANGED <<db, key, got>>,
         live' = [k \in Key |-> IF k \in keys THEN None ELSE live[k]],
         \A r \in Reader : pc'[r] = "fill" => pc[r] = "fill",
         \A k \in Key \ keys, d \in Datum : Explained(k, d) => Explained(k, d)'
  PROVE  InFlightExplained' /\ StaleExplained'
<1>1. StaleExplained'
  BY DEF IInv, StaleExplained, Superseded, Overtake
<1>2. InFlightExplained'
  BY DeletionInFlight DEF IInv, Overtake
<1> QED  BY <1>1, <1>2

(* A store brings in a payload that was explained in flight. *)
LEMMA StoreKeeps ==
  ASSUME IInv, NEW r \in Reader, pc[r] = "fill",
         pc' = [pc EXCEPT ![r] = "done"] \/ pc' = [pc EXCEPT ![r] = "failed"],
         got' = [got EXCEPT ![r] = None], outrun' = outrun \ {r},
         tainted' = IF r \in outrun THEN tainted \cup {key[r]} ELSE tainted \ {key[r]},
         UNCHANGED <<db, committed, key, mut, pos>>,
         live'[key[r]] = got[r],
         \A k \in Key : k # key[r] => live'[k] \in {live[k], None}
  PROVE  InFlightExplained' /\ StaleExplained'
<1>1. \A k \in Key, d \in Datum : Explained(k, d) => Explained(k, d)'
  BY ExplanationLasts
<1>2. InFlightExplained'
  <2>1. \A q \in Reader : pc'[q] = "fill" =>
           /\ pc[q] = "fill" /\ got'[q] = got[q] /\ key'[q] = key[q]
           /\ q \in outrun => q \in outrun'
    BY DEF IInv, TypeOK, Task
  <2> QED  BY <1>1, <2>1, InFlightFrame DEF IInv
<1>3. StaleExplained'
  <2> SUFFICES ASSUME NEW k \in Key, NEW d \in Datum, live'[k] # None,
                      Superseded(live'[k], k, d), k \notin tainted'
               PROVE  Explained(k, d)'
    BY DEF StaleExplained, Superseded
  <2>1. CASE k = key[r]
    BY <1>1, <2>1 DEF IInv, InFlightExplained
  <2>2. CASE k # key[r]
    BY <1>1, <2>2 DEF IInv, StaleExplained
  <2> QED  BY <2>1, <2>2
<1> QED  BY <1>2, <1>3

-----------------------------------------------------------------------------
(* Types.  TypeOK and WellFormed together, one action at a time.           *)

Typed == TypeOK /\ WellFormed

LEMMA InitTyped == Init => Typed
<1> SUFFICES ASSUME Init PROVE Typed
  OBVIOUS
<1>1. Backend!TypeOK
  BY DEF Init, Backend!Init, Backend!TypeOK, Backend!NoCounts, Backend!CacheCounters
<1>2. TypeOK
  BY <1>1, CacheAsideAssumption DEF Init, TypeOK, Places, NoErrors
<1>3. WellFormed
  BY DEF Init, WellFormed, Task
<1> QED  BY <1>2, <1>3 DEF Typed

LEMMA RaiseTyped ==
  ASSUME TypeOK, NEW t \in Task, NEW code \in {"violation", "internal"},
         NEW place \in Places, Raise(t, code, place)
  PROVE  /\ pc' \in [Task -> Places]
         /\ errors' \in [violation : Nat, internal : Nat]
BY DEF Raise, Goto, TypeOK

LEMMA AcquireTyped ==
  ASSUME Typed, NEW t \in Task, Acquire(t) PROVE Typed'
<1>1. TypeOK'
  BY DEF Typed, Acquire, TypeOK, Goto, backend, postgres, tasks, stats, history,
         Backend!TypeOK, Places
<1>2. WellFormed'
  BY Constants DEF Typed, Acquire, TypeOK, WellFormed, Goto, backend, postgres, tasks,
         stats, history, Task
<1> QED  BY <1>1, <1>2 DEF Typed

LEMMA AcquireFailsTyped ==
  ASSUME Typed, NEW t \in Task, AcquireFails(t) PROVE Typed'
<1>1. pc' \in [Task -> Places] /\ errors' \in [violation : Nat, internal : Nat]
  BY RaiseTyped DEF Typed, AcquireFails, Places
<1>2. TypeOK'
  BY <1>1 DEF Typed, AcquireFails, TypeOK, backend, postgres, tasks, history,
         Backend!TypeOK
<1>3. WellFormed'
  BY DEF Typed, AcquireFails, TypeOK, WellFormed, Raise, Goto, backend, postgres,
         tasks, history, Task
<1> QED  BY <1>2, <1>3 DEF Typed

LEMMA QueryTyped ==
  ASSUME Typed, NEW r \in Reader, NEW k \in Key,
         BeginQuery(r, k) \/ QueryStep(r)
  PROVE  Typed'
<1> r \in Task
  BY DEF Task
<1>1. CASE BeginQuery(r, k)
  <2>1. TypeOK'
    BY <1>1 DEF BeginQuery, Typed, TypeOK, Goto, Count, backend, postgres, history,
           Backend!TypeOK, Places
  <2>2. WellFormed'
    BY <1>1, Constants DEF BeginQuery, Typed, TypeOK, WellFormed, Goto, backend,
           postgres, history, Task
  <2> QED  BY <2>1, <2>2 DEF Typed
<1>2. CASE Lookup(r)
  <2>1. key[r] \in Key
    BY <1>2 DEF Lookup, Typed, WellFormed
  <2>2. Backend!TypeOK'
    <3>1. counters' \in Backend!CacheCounters
      BY <1>2 DEF Lookup, Typed, TypeOK, Backend!TypeOK, Backend!Get,
             Backend!CacheCounters
    <3> QED  BY <1>2, <2>1, <3>1 DEF Lookup, Typed, TypeOK, Backend!TypeOK, Backend!Get
  <2>3. TypeOK'
    BY <1>2, <2>2 DEF Lookup, Typed, TypeOK, Goto, postgres, tasks, stats, history, Places
  <2>4. WellFormed'
    BY <1>2, Constants DEF Lookup, Typed, TypeOK, WellFormed, Goto, postgres, tasks,
           stats, history, Task
  <2> QED  BY <2>3, <2>4 DEF Typed
<1>3. CASE LookupFails(r)
  <2>1. pc' \in [Task -> Places] /\ errors' \in [violation : Nat, internal : Nat]
    BY <1>3, RaiseTyped DEF Typed, LookupFails, Places
  <2>2. TypeOK'
    BY <1>3, <2>1 DEF LookupFails, Typed, TypeOK, backend, postgres, tasks, history,
           Backend!TypeOK
  <2>3. WellFormed'
    BY <1>3, Constants DEF LookupFails, Typed, TypeOK, WellFormed, Raise, Goto,
           postgres, tasks, history, Task
  <2> QED  BY <2>2, <2>3 DEF Typed
<1>4. CASE Select(r)
  <2>1. key[r] \in Key
    BY <1>4 DEF Select, Typed, WellFormed
  <2>2. Snapshot(key[r]) \in Payload
    BY DEF Snapshot, Payload, Typed, TypeOK
  <2>3. TypeOK'
    BY <1>4, <2>2 DEF Select, Typed, TypeOK, Release, Goto, backend, postgres, stats,
           history, Backend!TypeOK, Places
  <2>4. WellFormed'
    BY <1>4, <2>2, Constants DEF Select, Typed, TypeOK, WellFormed, Goto, postgres,
           stats, history, Task
  <2> QED  BY <2>3, <2>4 DEF Typed
<1>5. CASE SelectFails(r)
  <2>1. pc' \in [Task -> Places] /\ errors' \in [violation : Nat, internal : Nat]
    BY <1>5, RaiseTyped DEF Typed, SelectFails, Places
  <2>2. TypeOK'
    BY <1>5, <2>1 DEF SelectFails, Typed, TypeOK, Release, backend, postgres, tasks,
           history, Backend!TypeOK
  <2>3. WellFormed'
    BY <1>5, Constants DEF SelectFails, Typed, TypeOK, WellFormed, Raise, Goto,
           postgres, tasks, history, Task
  <2> QED  BY <2>2, <2>3 DEF Typed
<1>6. CASE Fill(r)
  <2>1. key[r] \in Key /\ got[r] \in Payload
    BY <1>6 DEF Fill, Typed, WellFormed
  <2>2. PICK S \in SUBSET (Key \ {key[r]}) :
          live' = [Backend!Without(S) EXCEPT ![key[r]] = got[r]]
    BY <1>6 DEF Fill, Backend!Write
  <2>3. live' \in [Key -> Payload \cup {None}]
    BY <2>1, <2>2 DEF Backend!Without, Typed, TypeOK, Backend!TypeOK
  <2>4. counters' \in Backend!CacheCounters /\ ret' = None
    BY <1>6 DEF Fill, Backend!Write, Typed, TypeOK, Backend!TypeOK, Backend!CacheCounters
  <2>5. TypeOK'
    BY <1>6, <2>1, <2>3, <2>4 DEF Fill, Typed, TypeOK, Goto, postgres, stats,
           Backend!TypeOK, Places
  <2>6. WellFormed'
    BY <1>6, Constants DEF Fill, Typed, TypeOK, WellFormed, Goto, postgres, stats, Task
  <2> QED  BY <2>5, <2>6 DEF Typed
<1>7. CASE FillFails(r)
  <2>1. key[r] \in Key /\ got[r] \in Payload
    BY <1>7 DEF FillFails, Typed, WellFormed
  <2>2. pc' \in [Task -> Places] /\ errors' \in [violation : Nat, internal : Nat]
    BY <1>7, RaiseTyped DEF Typed, FillFails, Places
  <2>3. live' \in [Key -> Payload \cup {None}] /\ tainted' \subseteq Key
    BY <1>7, <2>1 DEF FillFails, Typed, TypeOK, Backend!TypeOK
  <2>4. TypeOK'
    BY <1>7, <2>2, <2>3 DEF FillFails, Typed, TypeOK, postgres, Backend!TypeOK
  <2>5. WellFormed'
    BY <1>7, Constants DEF FillFails, Typed, TypeOK, WellFormed, Raise, Goto, postgres,
           Task
  <2> QED  BY <2>4, <2>5 DEF Typed
<1> QED
  BY <1>1, <1>2, <1>3, <1>4, <1>5, <1>6, <1>7, AcquireTyped, AcquireFailsTyped
     DEF QueryStep

LEMMA MutationTyped ==
  ASSUME Typed, NEW w \in Writer, NEW m \in Mutation,
         BeginMutation(w, m) \/ MutationStep(w)
  PROVE  Typed'
<1> w \in Task /\ w \notin Reader
  BY Constants DEF Task
<1>1. CASE BeginMutation(w, m)
  <2>1. TypeOK'
    BY <1>1 DEF BeginMutation, Typed, TypeOK, Goto, Count, backend, postgres, history,
           Backend!TypeOK, Places
  <2>2. WellFormed'
    BY <1>1 DEF BeginMutation, Typed, TypeOK, WellFormed, Goto, backend, postgres,
           history, Task
  <2> QED  BY <2>1, <2>2 DEF Typed
<1>2. CASE Update(w)
  <2>1. TypeOK'
    BY <1>2 DEF Update, Typed, TypeOK, Goto, backend, tasks, stats, history,
           Backend!TypeOK, Places
  <2>2. WellFormed'
    BY <1>2 DEF Update, Typed, TypeOK, WellFormed, Goto, tasks, history, Task
  <2> QED  BY <2>1, <2>2 DEF Typed
<1>3. ASSUME Unlock(w) PROVE lock' \in [Datum -> Writer \cup {None}]
  BY <1>3 DEF Unlock, Typed, TypeOK
<1>4. ASSUME Apply(w) PROVE db' \in [Datum -> Nat] /\ committed' = committed \cup {w}
  BY <1>4 DEF Apply, Typed, TypeOK
<1>5. CASE Commit(w)
  <2>1. TypeOK'
    BY <1>3, <1>4, <1>5 DEF Commit, Typed, TypeOK, Release, Goto, backend, tasks,
           stats, history, Backend!TypeOK, Places
  <2>2. mut[w] \in Mutation /\ pos[w] = 1
    BY <1>5 DEF Commit, Typed, WellFormed
  <2>3. Targets[mut[w]] # <<>> => 1 <= Len(Targets[mut[w]])
    BY <2>2, Constants
  <2>4. WellFormed'
    BY <1>4, <1>5, <2>2, <2>3 DEF Commit, Typed, TypeOK, WellFormed, Goto, tasks, Task
  <2> QED  BY <2>1, <2>4 DEF Typed
<1>6. CASE TransactionFails(w)
  <2>1. pc' \in [Task -> Places] /\ errors' \in [violation : Nat, internal : Nat]
    BY <1>6, RaiseTyped DEF Typed, TransactionFails, Places
  <2>2. db' \in [Datum -> Nat] /\ committed' \in SUBSET Writer
    BY <1>4, <1>6 DEF TransactionFails, Typed, TypeOK
  <2>3. TypeOK'
    BY <1>3, <1>6, <2>1, <2>2 DEF TransactionFails, Typed, TypeOK, Release, backend,
           tasks, history, Backend!TypeOK
  <2>4. committed' \subseteq committed \cup {w}
    BY <1>4, <1>6 DEF TransactionFails
  <2>5. WellFormed'
    BY <1>6, <2>4 DEF TransactionFails, Typed, TypeOK, WellFormed, Raise, Goto, tasks,
           Task
  <2> QED  BY <2>3, <2>5 DEF Typed
<1>7. CASE Invalidate(w)
  <2>1. live' \in [Key -> Payload \cup {None}] /\ ret' = None
    BY <1>7 DEF Invalidate, Backend!Invalidate, Backend!Without, Typed, TypeOK,
           Backend!TypeOK
  <2>2. counters' \in Backend!CacheCounters
    <3>1. /\ counters' = [counters EXCEPT !.invalidations = @ + 1]
          /\ counters \in Backend!CacheCounters
      BY <1>7 DEF Invalidate, Backend!Invalidate, Typed, TypeOK, Backend!TypeOK
    <3> QED  BY <3>1 DEF Backend!CacheCounters
  <2>3. outrun' \subseteq Reader /\ tainted' \subseteq Key
    BY <1>7 DEF Invalidate, Overtake, Typed, TypeOK
  <2>4. TypeOK'
    BY <1>7, <2>1, <2>2, <2>3 DEF Invalidate, Typed, TypeOK, Goto, postgres, stats,
           Backend!TypeOK, Places
  <2>5. mut[w] \in Mutation /\ pos[w] <= Len(Targets[mut[w]]) /\ pos[w] \in Nat
    BY <1>7 DEF Invalidate, Typed, TypeOK, WellFormed
  <2>6. Len(Targets[mut[w]]) \in Nat
    BY <2>5, Constants
  <2>7. WellFormed'
    BY <1>7, <2>5, <2>6 DEF Invalidate, Typed, TypeOK, WellFormed, Goto, postgres, Task
  <2> QED  BY <2>4, <2>7 DEF Typed
<1>8. CASE InvalidateFails(w)
  <2>1. pc' \in [Task -> Places] /\ errors' \in [violation : Nat, internal : Nat]
    BY <1>8, RaiseTyped DEF Typed, InvalidateFails, Places
  <2>2. /\ live' \in [Key -> Payload \cup {None}]
        /\ outrun' \subseteq Reader /\ tainted' \subseteq Key
    BY <1>8 DEF InvalidateFails, Backend!Without, Overtake, Typed, TypeOK, Backend!TypeOK
  <2>3. TypeOK'
    BY <1>8, <2>1, <2>2 DEF InvalidateFails, Typed, TypeOK, postgres, tasks,
           Backend!TypeOK
  <2>4. WellFormed'
    BY <1>8 DEF InvalidateFails, Typed, TypeOK, WellFormed, Raise, Goto, postgres,
           tasks, Task
  <2> QED  BY <2>3, <2>4 DEF Typed
<1> QED
  BY <1>1, <1>2, <1>5, <1>6, <1>7, <1>8, AcquireTyped, AcquireFailsTyped
     DEF MutationStep

LEMMA ExpireTyped == ASSUME Typed, NEW k \in Key, Expire(k) PROVE Typed'
<1>1. live' \in [Key -> Payload \cup {None}] /\ UNCHANGED <<counters, ret>>
  BY DEF Expire, Backend!Drop, Backend!Without, Typed, TypeOK, Backend!TypeOK
<1>2. TypeOK'
  BY <1>1 DEF Expire, Typed, TypeOK, postgres, tasks, stats, history, Backend!TypeOK
<1>3. WellFormed'
  BY DEF Expire, Typed, WellFormed, postgres, tasks
<1> QED  BY <1>2, <1>3 DEF Typed

LEMMA RestartTyped == ASSUME Typed, Restart PROVE Typed'
<1>1. Backend!TypeOK'
  BY DEF Restart, Typed, TypeOK, Backend!TypeOK, Backend!NoCounts, Backend!CacheCounters
<1>2. restarts' \in 0 .. MaxRestarts
  BY CacheAsideAssumption DEF Restart, Typed, TypeOK
<1>3. errors' \in [violation : Nat, internal : Nat]
  BY DEF Restart, NoErrors
<1>4. TypeOK'
  BY <1>1, <1>2, <1>3 DEF Restart, Typed, TypeOK, Places
<1>5. WellFormed'
  BY DEF Restart, Typed, TypeOK, WellFormed, Task
<1> QED  BY <1>4, <1>5 DEF Typed

LEMMA StutterTyped == ASSUME Typed, UNCHANGED vars PROVE Typed'
<1>1. TypeOK'
  BY DEF vars, Typed, TypeOK, backend, postgres, tasks, stats, history, Backend!TypeOK
<1>2. WellFormed'
  BY DEF vars, Typed, WellFormed, postgres, tasks
<1> QED  BY <1>1, <1>2 DEF Typed

LEMMA NextTyped == Typed /\ [Next]_vars => Typed'
<1> SUFFICES ASSUME Typed, [Next]_vars PROVE Typed'
  OBVIOUS
<1>1. ASSUME NEW r \in Reader, QueryStep(r) PROVE Typed'
  <2>1. pc[r] # "idle"
    BY <1>1 DEF QueryStep, Acquire, AcquireFails, Lookup, LookupFails, Select,
           SelectFails, Fill, FillFails
  <2>2. key[r] \in Key
    BY <2>1 DEF Typed, WellFormed
  <2> QED  BY <1>1, <2>2, QueryTyped
<1>2. ASSUME NEW w \in Writer, MutationStep(w) PROVE Typed'
  <2>1. pc[w] # "idle"
    BY <1>2 DEF MutationStep, Acquire, AcquireFails, Update, Commit, TransactionFails,
           Invalidate, InvalidateFails
  <2>2. mut[w] \in Mutation
    BY <2>1 DEF Typed, WellFormed
  <2> QED  BY <1>2, <2>2, MutationTyped
<1>3. CASE Finished
  BY <1>3, StutterTyped DEF Finished
<1> QED
  BY <1>1, <1>2, <1>3, QueryTyped, MutationTyped, ExpireTyped, RestartTyped,
     StutterTyped DEF Next

(* Every variable keeps its type, and every task has its key, payload,     *)
(* mutation and position when it gets to use them.                         *)
THEOREM TypeCorrect == Spec => []TypeOK
<1>1. Init => Typed
  BY InitTyped
<1>2. Typed /\ [Next]_vars => Typed'
  BY NextTyped
<1>3. Typed => TypeOK
  BY DEF Typed
<1> QED  BY <1>1, <1>2, <1>3, PTL DEF Spec

-----------------------------------------------------------------------------
(* Staleness.                                                              *)

Causes == InFlightExplained /\ StaleExplained

(* The steps that leave Postgres, the entries and the payloads alone, or   *)
(* only lose entries or payloads.                                          *)
LEMMA QuietKeeps ==
  ASSUME IInv, db' = db, committed' = committed, pos' = pos,
         \A w \in committed : mut'[w] = mut[w],
         UNCHANGED tainted,
         \A k \in Key : live'[k] \in {live[k], None},
         \A r \in Reader : pc'[r] = "fill" =>
           /\ pc[r] = "fill" /\ got'[r] = got[r] /\ key'[r] = key[r]
           /\ r \in outrun => r \in outrun'
  PROVE  Causes'
<1>1. \A k \in Key, d \in Datum : Explained(k, d) => Explained(k, d)'
  BY ExplanationLasts
<1>2. StaleExplained'
  BY <1>1, StaleFrame DEF IInv
<1>3. InFlightExplained'
  BY <1>1, InFlightFrame DEF IInv
<1> QED  BY <1>2, <1>3 DEF Causes

(* What a SELECT sees is up to date. *)
LEMMA SelectInFlight ==
  ASSUME TypeOK, WellFormed, InFlightExplained, NEW r \in Reader, Select(r)
  PROVE  InFlightExplained'
<1>1. r \in Task /\ key[r] \in Key
  BY DEF Select, WellFormed, Task
<1>2. UNCHANGED <<db, committed, pos, mut, key, outrun>>
  BY DEF Select, postgres, history
<1>3. \A k \in Key, d \in Datum : Explained(k, d) => Explained(k, d)'
  BY <1>2, ExplanationLasts
<1> SUFFICES ASSUME NEW q \in Reader, NEW d \in Datum, pc'[q] = "fill",
                    Superseded(got[q], key[q], d)', q \notin outrun'
             PROVE  Explained(key[q], d)'
  BY DEF InFlightExplained
<1>4. CASE q = r
  <2>1. Cached(key[r]) /\ got'[r] = Snapshot(key[r])
    BY <1>1, <1>4 DEF Select, Goto, TypeOK
  <2>2. ~ Superseded(got[q], key[q], d)'
    BY <1>2, <1>4, <2>1 DEF Superseded, Snapshot
  <2> QED  BY <2>2
<1>5. CASE q # r
  <2>1. pc[q] = "fill" /\ got'[q] = got[q] /\ key[q] \in Key
    BY <1>5 DEF Select, Goto, TypeOK, WellFormed, Task
  <2>2. Explained(key[q], d)
    BY <1>2, <2>1 DEF InFlightExplained, Superseded
  <2> QED  BY <1>2, <1>3, <2>1, <2>2
<1> QED  BY <1>4, <1>5

LEMMA QueryCauses ==
  ASSUME IInv, NEW r \in Reader, QueryStep(r) PROVE Causes'
<1> r \in Task
  BY DEF Task
<1>1. CASE \/ Acquire(r) \/ AcquireFails(r) \/ Lookup(r) \/ LookupFails(r)
           \/ SelectFails(r)
  <2>1. UNCHANGED <<db, committed, pos, mut, tainted, live, got, key, outrun>>
    BY <1>1 DEF Acquire, AcquireFails, Lookup, LookupFails, SelectFails, Backend!Get,
           backend, postgres, tasks, history
  <2>2. \A q \in Reader : pc'[q] = "fill" => pc[q] = "fill"
    BY <1>1 DEF Acquire, AcquireFails, Lookup, LookupFails, SelectFails, Raise, Goto,
           IInv, TypeOK, Task
  <2> QED  BY <2>1, <2>2, QuietKeeps
<1>2. CASE Select(r)
  <2>1. key[r] \in Key /\ pc[r] = "select"
    BY <1>2 DEF Select, IInv, WellFormed
  <2>2. UNCHANGED <<db, committed, pos, mut, tainted, live, key, outrun>>
    BY <1>2 DEF Select, backend, postgres, history
  <2>3. \A k \in Key, d \in Datum : Explained(k, d) => Explained(k, d)'
    BY <2>2, ExplanationLasts
  <2>4. StaleExplained'
    BY <2>2, <2>3, StaleFrame DEF IInv
  <2>5. InFlightExplained'
    BY <1>2, SelectInFlight DEF IInv
  <2> QED  BY <2>4, <2>5 DEF Causes
<1>3. CASE Fill(r)
  <2>1. key[r] \in Key /\ pc[r] = "fill"
    BY <1>3 DEF Fill, IInv, WellFormed
  <2>2. PICK S \in SUBSET (Key \ {key[r]}) :
          live' = [Backend!Without(S) EXCEPT ![key[r]] = got[r]]
    BY <1>3 DEF Fill, Backend!Write
  <2>3. live'[key[r]] = got[r]
    BY <2>1, <2>2 DEF Backend!Without
  <2>4. \A k \in Key : k # key[r] => live'[k] \in {live[k], None}
    BY <2>2 DEF Backend!Without
  <2> QED  BY <1>3, <2>1, <2>3, <2>4, StoreKeeps DEF Fill, Goto, postgres, Causes
<1>4. CASE FillFails(r)
  <2>1. key[r] \in Key /\ pc[r] = "fill"
    BY <1>4 DEF FillFails, IInv, WellFormed
  <2>2. CASE UNCHANGED <<live, tainted>>
    <3>1. \A q \in Reader : pc'[q] = "fill" =>
             /\ pc[q] = "fill" /\ got'[q] = got[q] /\ key'[q] = key[q]
             /\ q \in outrun => q \in outrun'
      BY <1>4 DEF FillFails, Raise, Goto, IInv, TypeOK, Task
    <3>2. UNCHANGED <<db, committed, pos, mut>>
      BY <1>4 DEF FillFails, postgres
    <3> QED  BY <2>2, <3>1, <3>2, QuietKeeps
  <2>3. CASE /\ live' = [live EXCEPT ![key[r]] = got[r]]
             /\ tainted' = IF r \in outrun THEN tainted \cup {key[r]}
                                           ELSE tainted \ {key[r]}
    <3>1. live'[key[r]] = got[r] /\ \A k \in Key : k # key[r] => live'[k] \in {live[k], None}
      BY <2>1, <2>3 DEF IInv, TypeOK, Backend!TypeOK
    <3> QED  BY <1>4, <2>1, <2>3, <3>1, StoreKeeps DEF FillFails, Raise, Goto, postgres,
                Causes
  <2> QED  BY <1>4, <2>2, <2>3 DEF FillFails
<1> QED  BY <1>1, <1>2, <1>3, <1>4 DEF QueryStep

(* The deletion of its current target is the last explanation w gives for  *)
(* the keys that target covers; the others keep theirs.                    *)
LEMMA DeletionExplains ==
  ASSUME TypeOK, NEW w \in Writer, pc[w] = "invalidate",
         pos' = [pos EXCEPT ![w] = @ + 1], UNCHANGED <<mut, committed>>
  PROVE  \A k \in Key \ Covered(Current(w)), d \in Datum :
           Explained(k, d) => Explained(k, d)'
<1> SUFFICES ASSUME NEW k \in Key \ Covered(Current(w)), NEW d \in Datum,
                    Explained(k, d)
             PROVE  Explained(k, d)'
  OBVIOUS
<1>1. CASE Undeclared(k, d)
  BY <1>1 DEF Undeclared, Explained, Covers
<1>2. CASE Pending(k, d)
  <2>1. PICK u \in committed : /\ d \in Writes[mut[u]]
                               /\ \E i \in pos[u] .. Len(Targets[mut[u]]) : Covers(u, i, k)
    BY <1>2 DEF Pending
  <2>2. PICK i \in pos[u] .. Len(Targets[mut[u]]) : Covers(u, i, k)
    BY <2>1
  <2>3. u \in Writer /\ pos[u] \in Nat /\ pos[w] \in Nat
    BY DEF TypeOK
  <2>4. i \in pos'[u] .. Len(Targets[mut[u]])
    <3>1. CASE u = w
      <4>1. i # pos[w]
        BY <2>2, <3>1 DEF Covers, Current
      <4>2. pos'[w] = pos[w] + 1
        BY <2>3 DEF TypeOK
      <4> QED  BY <2>2, <2>3, <3>1, <4>1, <4>2
    <3>2. CASE u # w
      BY <2>2, <2>3, <3>2 DEF TypeOK
    <3> QED  BY <3>1, <3>2
  <2> QED  BY <2>1, <2>2, <2>4 DEF Explained, Pending, Covers
<1> QED  BY <1>1, <1>2 DEF Explained

LEMMA MutationCauses ==
  ASSUME IInv, NEW w \in Writer, MutationStep(w) PROVE Causes'
<1> w \in Task /\ w \notin Reader
  BY Constants DEF Task
<1>1. \A r \in Reader : pc'[r] = pc[r]
  BY DEF MutationStep, Acquire, AcquireFails, Update, Commit, TransactionFails,
         Invalidate, InvalidateFails, Raise, Goto, IInv, TypeOK, Task
<1>2. CASE \/ Acquire(w) \/ AcquireFails(w) \/ Update(w)
           \/ TransactionFails(w) /\ UNCHANGED <<db, committed>>
  <2>1. UNCHANGED <<db, committed, pos, mut, tainted, live, got, key, outrun>>
    BY <1>2 DEF Acquire, AcquireFails, Update, TransactionFails, backend, postgres,
           tasks, history
  <2> QED  BY <1>1, <2>1, QuietKeeps
<1>3. CASE Commit(w) \/ (TransactionFails(w) /\ pc[w] = "commit" /\ Apply(w))
  <2>1. /\ UNCHANGED <<live, key, got, mut, pos, outrun, tainted>>
        /\ pc[w] = "commit" /\ Apply(w)
    BY <1>3 DEF Commit, TransactionFails, backend, tasks, history
  <2> QED  BY <1>1, <2>1, ApplyKeeps DEF Causes
<1>4. CASE Invalidate(w)
  <2>1. /\ live' = [k \in Key |-> IF k \in Covered(Current(w)) THEN None ELSE live[k]]
        /\ Covered(Current(w)) \in SUBSET Key
    BY <1>4 DEF Invalidate, Backend!Invalidate, Backend!Without, Covered
  <2>2. \A k \in Key \ Covered(Current(w)), d \in Datum :
          Explained(k, d) => Explained(k, d)'
    BY <1>4, DeletionExplains DEF IInv, Invalidate, postgres
  <2> QED  BY <1>1, <1>4, <2>1, <2>2, DeletionKeeps DEF Invalidate, postgres, Causes
<1>5. CASE InvalidateFails(w)
  <2>1. CASE UNCHANGED <<live, outrun, tainted>>
    BY <1>1, <1>5, <2>1, QuietKeeps DEF InvalidateFails, postgres, tasks
  <2>2. CASE live' = Backend!Without(Covered(Current(w))) /\ Overtake(Covered(Current(w)))
    <3>1. /\ live' = [k \in Key |-> IF k \in Covered(Current(w)) THEN None ELSE live[k]]
          /\ Covered(Current(w)) \in SUBSET Key
      BY <2>2 DEF Backend!Without, Covered
    <3>2. \A k \in Key, d \in Datum : Explained(k, d) => Explained(k, d)'
      BY <1>5, ExplanationLasts DEF InvalidateFails, postgres, tasks
    <3> QED  BY <1>1, <1>5, <2>2, <3>1, <3>2, DeletionKeeps
                DEF InvalidateFails, postgres, tasks, Causes
  <2> QED  BY <1>5, <2>1, <2>2 DEF InvalidateFails
<1>6. TransactionFails(w) => \/ UNCHANGED <<db, committed>>
                             \/ pc[w] = "commit" /\ Apply(w)
  BY DEF TransactionFails
<1>7. CASE TransactionFails(w)
  BY <1>2, <1>3, <1>6, <1>7
<1>8. CASE Commit(w)
  BY <1>3, <1>8
<1>9. CASE Acquire(w) \/ AcquireFails(w) \/ Update(w)
  BY <1>2, <1>9
<1> QED  BY <1>4, <1>5, <1>7, <1>8, <1>9 DEF MutationStep

LEMMA NextCauses == IInv /\ [Next]_vars => Causes'
<1> SUFFICES ASSUME IInv, [Next]_vars PROVE Causes'
  OBVIOUS
<1>1. ASSUME NEW r \in Reader, NEW k \in Key, BeginQuery(r, k) PROVE Causes'
  <2>1. UNCHANGED <<db, committed, pos, mut, tainted, live, got, outrun>>
    BY <1>1 DEF BeginQuery, backend, postgres, history
  <2>2. \A q \in Reader : pc'[q] = "fill" => pc[q] = "fill" /\ key'[q] = key[q]
    BY <1>1 DEF BeginQuery, Goto, IInv, TypeOK, Task
  <2> QED  BY <2>1, <2>2, QuietKeeps
<1>2. ASSUME NEW w \in Writer, NEW m \in Mutation, BeginMutation(w, m) PROVE Causes'
  <2>1. UNCHANGED <<db, committed, pos, tainted, live, got, key, outrun>>
    BY <1>2 DEF BeginMutation, backend, postgres, history
  <2>2. \A u \in committed : mut'[u] = mut[u]
    BY <1>2 DEF BeginMutation, IInv, TypeOK, WellFormed
  <2>3. \A q \in Reader : pc'[q] = "fill" => pc[q] = "fill"
    BY <1>2 DEF BeginMutation, Goto, IInv, TypeOK, Task
  <2> QED  BY <2>1, <2>2, <2>3, QuietKeeps
<1>3. ASSUME NEW k \in Key, Expire(k) PROVE Causes'
  BY <1>3, QuietKeeps DEF Expire, Backend!Drop, Backend!Without, postgres, tasks, history
<1>4. CASE Restart
  <2>1. \A q \in Reader : pc'[q] # "fill"
    BY <1>4 DEF Restart, Task
  <2>2. \A k \in Key : live'[k] \in {live[k], None}
    BY <1>4 DEF Restart
  <2> QED  BY <1>4, <2>1, <2>2, QuietKeeps DEF Restart
<1>5. CASE UNCHANGED vars
  BY <1>5, QuietKeeps DEF vars, backend, postgres, tasks, history
<1>6. CASE Finished
  BY <1>5, <1>6 DEF Finished
<1> QED  BY <1>1, <1>2, <1>3, <1>4, <1>5, <1>6, QueryCauses, MutationCauses DEF Next

LEMMA InitInv == Init => IInv
<1>1. Init => Causes
  BY DEF Init, Causes, InFlightExplained, StaleExplained, Backend!Init, Task
<1> QED  BY <1>1, InitTyped DEF IInv, Typed, Causes

LEMMA NextInv == IInv /\ [Next]_vars => IInv'
BY NextTyped, NextCauses DEF IInv, Typed, Causes

(* What is out of date in the cache is out of date for one of the three    *)
(* reasons StaleExplained gives, for every interleaving of any number of   *)
(* queries and mutations, with failures and restarts.                      *)
THEOREM Staleness == Spec => []StaleExplained
<1>1. IInv => StaleExplained
  BY DEF IInv
<1> QED  BY InitInv, NextInv, <1>1, PTL DEF Spec

(* So is what a query has selected and is about to store: between its      *)
(* SELECT and its set_with_indexes no deletion of its key is overlooked.   *)
THEOREM InFlight == Spec => []InFlightExplained
<1>1. IInv => InFlightExplained
  BY DEF IInv
<1> QED  BY InitInv, NextInv, <1>1, PTL DEF Spec

-----------------------------------------------------------------------------
(* Connections and row locks.                                              *)

Busy == {"select", "update", "commit"}

(* A step of one task that keeps the account of the pool and of the locks. *)
LEMMA HeldFrame ==
  ASSUME Typed, NothingHeldAcrossCacheCalls,
         NEW t \in Task, NEW place \in Places, Goto(t, place),
         conns' = IF place \in Busy THEN conns \cup {t} ELSE conns \ {t},
         \A d \in Datum : lock'[d] \in {lock[d], None, t},
         \A d \in Datum : lock'[d] = t /\ t # None =>
           place = "commit" /\ t \in Writer /\ d \in Rows[mut'[t]],
         \A w \in Writer \ {t} : mut'[w] = mut[w]
  PROVE  NothingHeldAcrossCacheCalls'
<1>1. /\ pc'[t] = place
      /\ \A u \in Task \ {t} : pc'[u] = pc[u]
  BY DEF Goto, Typed, TypeOK
<1>2. conns' = {u \in Task : pc'[u] \in Busy}
  <2>1. conns = {u \in Task : pc[u] \in Busy}
    BY DEF NothingHeldAcrossCacheCalls, Busy
  <2> QED  BY <1>1, <2>1
<1>3. ASSUME NEW d \in Datum, lock'[d] # None
      PROVE  pc'[lock'[d]] = "commit" /\ d \in Rows[mut'[lock'[d]]]
  <2>1. CASE lock'[d] = t
    BY <1>1, <1>3, <2>1
  <2>2. CASE lock'[d] = lock[d] /\ lock[d] # t
    <3>1. lock[d] \in Writer /\ lock[d] # None
      BY <1>3, <2>2 DEF Typed, TypeOK
    <3>2. pc[lock[d]] = "commit" /\ d \in Rows[mut[lock[d]]]
      BY <3>1 DEF NothingHeldAcrossCacheCalls
    <3> QED  BY <1>1, <2>2, <3>1, <3>2 DEF Task
  <2> QED  BY <1>3, <2>1, <2>2
<1> QED  BY <1>2, <1>3 DEF NothingHeldAcrossCacheCalls, Busy

(* A task that goes from one place without a connection to another. *)
LEMMA IdleFrame ==
  ASSUME Typed, NothingHeldAcrossCacheCalls, UNCHANGED <<conns, lock>>,
         NEW t \in Task, NEW place \in Places \ Busy, Goto(t, place), pc[t] \notin Busy,
         \A w \in Writer \ {t} : mut'[w] = mut[w]
  PROVE  NothingHeldAcrossCacheCalls'
<1>1. t \notin conns
  BY DEF NothingHeldAcrossCacheCalls, Busy
<1>2. \A d \in Datum : lock[d] = t => t = None
  BY DEF NothingHeldAcrossCacheCalls, Busy
<1> QED  BY <1>1, <1>2, HeldFrame

LEMMA QueryHeld ==
  ASSUME Typed, NothingHeldAcrossCacheCalls, NEW r \in Reader, QueryStep(r)
  PROVE  NothingHeldAcrossCacheCalls'
<1>1. r \in Task /\ r \notin Writer
  BY Constants DEF Task
<1>2. \A d \in Datum : lock[d] = r => r = None
  BY <1>1 DEF Typed, TypeOK
<1>3. CASE Acquire(r)
  BY <1>1, <1>2, <1>3, HeldFrame DEF Acquire, postgres, tasks, Busy, Places
<1>4. CASE Select(r) \/ SelectFails(r)
  <2>1. PICK place \in Places \ Busy : Goto(r, place)
    BY <1>4 DEF Select, SelectFails, Raise, Busy, Places
  <2>2. conns' = conns \ {r} /\ UNCHANGED <<lock, mut>>
    BY <1>4 DEF Select, SelectFails, Release, postgres, tasks
  <2> QED  BY <1>1, <1>2, <2>1, <2>2, HeldFrame
<1>5. CASE \/ AcquireFails(r) \/ Lookup(r) \/ LookupFails(r) \/ Fill(r) \/ FillFails(r)
  <2>1. PICK place \in Places \ Busy : Goto(r, place)
    BY <1>5 DEF AcquireFails, Lookup, LookupFails, Fill, FillFails, Raise, Busy, Places
  <2>2. pc[r] \notin Busy /\ UNCHANGED <<conns, lock, mut>>
    BY <1>5 DEF AcquireFails, Lookup, LookupFails, Fill, FillFails, postgres, tasks, Busy
  <2> QED  BY <1>1, <2>1, <2>2, IdleFrame
<1> QED  BY <1>3, <1>4, <1>5 DEF QueryStep

LEMMA MutationHeld ==
  ASSUME Typed, NothingHeldAcrossCacheCalls, NEW w \in Writer, MutationStep(w)
  PROVE  NothingHeldAcrossCacheCalls'
<1>1. w \in Task /\ w \notin Reader /\ mut[w] = mut[w]
  BY Constants DEF Task
<1>2. CASE Acquire(w)
  <2>1. \A d \in Datum : lock[d] # w \/ w = None
    BY <1>2 DEF Acquire, NothingHeldAcrossCacheCalls
  <2> QED  BY <1>1, <1>2, <2>1, HeldFrame DEF Acquire, postgres, tasks, Busy, Places
<1>3. CASE Update(w)
  <2>1. w \in conns
    BY <1>1, <1>3 DEF Update, NothingHeldAcrossCacheCalls
  <2>2. \A d \in Datum : lock[d] = w => w = None
    BY <1>3 DEF Update, NothingHeldAcrossCacheCalls
  <2>3. /\ Goto(w, "commit") /\ UNCHANGED <<conns, mut>>
        /\ lock' = [d \in Datum |-> IF d \in Rows[mut[w]] THEN w ELSE lock[d]]
    BY <1>3 DEF Update, tasks
  <2>4. /\ \A d \in Datum : lock'[d] \in {lock[d], None, w}
        /\ \A d \in Datum : lock'[d] = w /\ w # None => d \in Rows[mut'[w]]
    BY <2>2, <2>3
  <2>5. conns' = conns \cup {w} /\ "commit" \in Places /\ "commit" \in Busy
    BY <2>1, <2>3 DEF Places, Busy
  <2> QED  BY <1>1, <2>3, <2>4, <2>5, HeldFrame
<1>4. CASE Commit(w) \/ TransactionFails(w)
  <2>1. PICK place \in Places \ Busy : Goto(w, place)
    BY <1>4 DEF Commit, TransactionFails, Raise, Busy, Places
  <2>2. /\ conns' = conns \ {w} /\ UNCHANGED mut
        /\ lock' = [d \in Datum |-> IF lock[d] = w THEN None ELSE lock[d]]
    BY <1>4 DEF Commit, TransactionFails, Release, Unlock, tasks
  <2>3. /\ \A d \in Datum : lock'[d] \in {lock[d], None, w}
        /\ \A d \in Datum : lock'[d] = w => w = None
    BY <2>2
  <2> QED  BY <1>1, <2>1, <2>2, <2>3, HeldFrame
<1>5. CASE AcquireFails(w) \/ Invalidate(w) \/ InvalidateFails(w)
  <2>1. PICK place \in Places \ Busy : Goto(w, place)
    BY <1>5 DEF AcquireFails, Invalidate, InvalidateFails, Raise, Busy, Places
  <2>2. pc[w] \notin Busy /\ UNCHANGED <<conns, lock, mut>>
    BY <1>5 DEF AcquireFails, Invalidate, InvalidateFails, postgres, tasks, Busy
  <2> QED  BY <1>1, <2>1, <2>2, IdleFrame
<1> QED  BY <1>2, <1>3, <1>4, <1>5 DEF MutationStep

LEMMA NextHeld == Typed /\ NothingHeldAcrossCacheCalls /\ [Next]_vars => NothingHeldAcrossCacheCalls'
<1> SUFFICES ASSUME Typed, NothingHeldAcrossCacheCalls, [Next]_vars
             PROVE  NothingHeldAcrossCacheCalls'
  OBVIOUS
<1>1. ASSUME NEW r \in Reader, NEW k \in Key, BeginQuery(r, k)
      PROVE  NothingHeldAcrossCacheCalls'
  <2>1. PICK place \in Places \ Busy : Goto(r, place)
    BY <1>1 DEF BeginQuery, Busy, Places
  <2>2. r \in Task /\ pc[r] \notin Busy /\ UNCHANGED <<conns, lock, mut>>
    BY <1>1 DEF BeginQuery, postgres, Task, Busy
  <2> QED  BY <2>1, <2>2, IdleFrame
<1>2. ASSUME NEW w \in Writer, NEW m \in Mutation, BeginMutation(w, m)
      PROVE  NothingHeldAcrossCacheCalls'
  <2>1. Goto(w, "acquire") /\ "acquire" \in Places \ Busy
    BY <1>2 DEF BeginMutation, Busy, Places
  <2>2. w \in Task /\ pc[w] \notin Busy /\ UNCHANGED <<conns, lock>>
    BY <1>2 DEF BeginMutation, postgres, Task, Busy
  <2>3. \A u \in Writer \ {w} : mut'[u] = mut[u]
    BY <1>2 DEF BeginMutation, Typed, TypeOK
  <2> QED  BY <2>1, <2>2, <2>3, IdleFrame
<1>3. CASE Restart
  <2>1. \A t \in Task : pc'[t] \in {"idle", "lost"}
    BY <1>3 DEF Restart
  <2>2. conns' = {} /\ \A d \in Datum : lock'[d] = None
    BY <1>3 DEF Restart
  <2> QED  BY <2>1, <2>2 DEF NothingHeldAcrossCacheCalls
<1>4. CASE (\E k \in Key : Expire(k)) \/ Finished \/ UNCHANGED vars
  BY <1>4 DEF Expire, Finished, vars, postgres, tasks, NothingHeldAcrossCacheCalls
<1> QED  BY <1>1, <1>2, <1>3, <1>4, QueryHeld, MutationHeld DEF Next

(* However many queries and mutations share the pool, no task waits for    *)
(* the cache with a connection or a row lock, failures included.           *)
THEOREM PoolFree == Spec => []NothingHeldAcrossCacheCalls
<1>1. Init => NothingHeldAcrossCacheCalls
  BY DEF Init, NothingHeldAcrossCacheCalls
<1> QED  BY <1>1, InitTyped, NextTyped, NextHeld, PTL DEF Spec

-----------------------------------------------------------------------------
(* /stats.  The places of the tasks, counted: who has not been served yet  *)
(* or has been forgotten, who failed, and what came of each cache lookup.  *)

Unserved == {t \in Task : pc[t] \in {"idle", "lost"}}
Broken == {t \in Task : pc[t] \in {"failed", "unanswered"}}
Found == {t \in Task : pc[t] = "hit"}
AfterMiss == {"acquire", "select", "fill", "indexing", "done", "failed"}
Awaiting == {"get", "acquire", "select", "fill", "indexing", "update", "commit", "invalidate"}
NotFound == {r \in Reader : /\ key[r] # None /\ Cached(key[r])
                            /\ pc[r] \in AfterMiss}
Filled == {r \in NotFound : pc[r] = "done"}

Tallied ==
  /\ requests = Cardinality(Task) - Cardinality(Unserved)
  /\ errors.violation + errors.internal = Cardinality(Broken)
  /\ counters.hits = Cardinality(Found)
  /\ counters.misses = Cardinality(NotFound)
  /\ counters.sets = Cardinality(Filled)

(* Only the queries of a cached resolver consult the cache. *)
OnlyCached == \A r \in Reader : pc[r] \in {"get", "fill", "indexing"} => Cached(key[r])

TallyInv == Typed /\ OnlyCached /\ Tallied

LEMMA TallyMeaning == Tallied => StatsTally
<1>1. {t \in Task : pc[t] \in {"hit"}} = Found
  BY DEF Found
<1> QED  BY <1>1 DEF Tallied, StatsTally, Unserved, Broken, NotFound, Filled, AfterMiss

LEMMA Counting ==
  /\ Cardinality(Task) \in Nat
  /\ \A S \in SUBSET Task :
       /\ Cardinality(S) \in Nat
       /\ \A t \in Task \ S : Cardinality(S \cup {t}) = Cardinality(S) + 1
       /\ \A t \in S : Cardinality(S \ {t}) = Cardinality(S) - 1
<1>1. IsFiniteSet(Task)
  BY CacheAsideAssumption, FS_Union DEF Task
<1>2. \A S \in SUBSET Task : IsFiniteSet(S)
  BY <1>1, FS_Subset
<1> QED  BY <1>1, <1>2, FS_CardinalityType, FS_AddElement, FS_RemoveElement

LEMMA Parts ==
  /\ Unserved \in SUBSET Task /\ Broken \in SUBSET Task /\ Found \in SUBSET Task
  /\ NotFound \in SUBSET Task /\ Filled \in SUBSET Task
BY DEF Unserved, Broken, Found, NotFound, Filled, Task

(* The task moves between places the counts do not tell apart. *)
LEMMA QuietTally ==
  ASSUME Typed, Tallied, NEW t \in Task, NEW place, Goto(t, place),
         pc[t] \in Awaiting, place \in (Awaiting \ {"get"}) \cup {"done"},
         UNCHANGED <<key, stats, counters>>,
         t \in Reader => pc[t] \in AfterMiss /\ (place = "done" => ~ Cached(key[t])),
         t \in Reader => place \in AfterMiss
  PROVE  Tallied'
<1> USE DEF Typed, TypeOK, Goto
<1>1. Unserved' = Unserved /\ Broken' = Broken /\ Found' = Found
  BY DEF Unserved, Broken, Found, Awaiting
<1>2. CASE t \in Writer
  <2>1. \A r \in Reader : pc'[r] = pc[r] /\ key'[r] = key[r]
    BY <1>2, Constants DEF Task
  <2>2. NotFound' = NotFound /\ Filled' = Filled
    BY <2>1 DEF NotFound, Filled, Cached
  <2> QED  BY <1>1, <2>2 DEF Tallied, stats
<1>3. CASE t \in Reader
  <2>1. NotFound' = NotFound
    BY <1>3 DEF NotFound, AfterMiss, Cached
  <2>2. Filled' = Filled
    BY <1>3, <2>1 DEF Filled, NotFound, AfterMiss, Cached, Awaiting
  <2> QED  BY <1>1, <2>1, <2>2 DEF Tallied, stats
<1> QED  BY <1>2, <1>3 DEF Task

(* The task leaves the resolver by an exception. *)
LEMMA RaiseTally ==
  ASSUME Typed, Tallied, NEW t \in Task, NEW place \in {"failed", "unanswered"},
         NEW code \in {"violation", "internal"}, Raise(t, code, place),
         pc[t] \in Awaiting,
         UNCHANGED <<key, requests, counters>>,
         t \in Reader => \/ pc[t] = "get" /\ place = "unanswered"
                         \/ pc[t] \in AfterMiss /\ place = "failed"
  PROVE  Tallied'
<1> USE DEF Typed, TypeOK, Raise, Goto
<1>1. Unserved' = Unserved /\ Found' = Found
  BY DEF Unserved, Found, Awaiting
<1>2. Broken' = Broken \cup {t} /\ t \in Task \ Broken
  BY DEF Broken, Awaiting
<1>3. errors'.violation + errors'.internal = errors.violation + errors.internal + 1
  <2>1. CASE code = "violation"
    BY <2>1
  <2>2. CASE code = "internal"
    BY <2>2
  <2> QED  BY <2>1, <2>2
<1>4. Cardinality(Broken') = Cardinality(Broken) + 1
  BY <1>2, Counting, Parts
<1>5. NotFound' = NotFound /\ Filled' = Filled
  <2>1. CASE t \in Writer
    <3>1. \A r \in Reader : pc'[r] = pc[r]
      BY <2>1, Constants DEF Task
    <3> QED  BY <3>1 DEF NotFound, Filled, Cached
  <2>2. CASE t \in Reader
    <3>1. NotFound' = NotFound
      BY <2>2 DEF NotFound, AfterMiss, Cached
    <3> QED  BY <2>2, <3>1 DEF Filled, Awaiting
  <2> QED  BY <2>1, <2>2 DEF Task
<1> QED  BY <1>1, <1>3, <1>4, <1>5 DEF Tallied

(* A resolver is entered. *)
LEMMA BeginTally ==
  ASSUME Typed, Tallied, NEW t \in Task, NEW place \in {"get", "acquire"},
         pc[t] = "idle", Goto(t, place), Count, UNCHANGED <<errors, counters>>,
         \A r \in Reader \ {t} : key'[r] = key[r],
         t \in Reader /\ place = "acquire" => ~ Cached(key'[t])
  PROVE  Tallied'
<1> USE DEF Typed, TypeOK, Goto
<1>1. Broken' = Broken /\ Found' = Found
  BY DEF Broken, Found
<1>2. Unserved' = Unserved \ {t} /\ t \in Unserved
  BY DEF Unserved
<1>3. Cardinality(Unserved') = Cardinality(Unserved) - 1
  BY <1>2, Counting, Parts
<1>4. requests' = Cardinality(Task) - Cardinality(Unserved')
  BY <1>3, Counting, Parts DEF Tallied, Count
<1>5. NotFound' = NotFound
  BY DEF NotFound, AfterMiss, Cached, Task
<1>6. Filled' = Filled
  BY <1>5 DEF Filled, NotFound, AfterMiss, Task
<1> QED  BY <1>1, <1>4, <1>5, <1>6 DEF Tallied

LEMMA LookupTally == ASSUME TallyInv, NEW r \in Reader, Lookup(r) PROVE Tallied'
<1> USE DEF TallyInv, Typed, TypeOK, Goto, Lookup, tasks, stats
<1>1. key[r] \in Key /\ key[r] # None /\ Cached(key[r]) /\ r \in Task
  BY Constants DEF WellFormed, OnlyCached, Task
<1>2. Unserved' = Unserved /\ Broken' = Broken
  BY <1>1 DEF Unserved, Broken
<1>3. counters \in [hits : Nat, misses : Nat, sets : Nat, invalidations : Nat]
  BY DEF Backend!TypeOK, Backend!CacheCounters
<1>4. CASE live[key[r]] = None
  <2>1. NotFound' = NotFound \cup {r} /\ r \in Task \ NotFound
    BY <1>1, <1>4 DEF NotFound, AfterMiss, Cached
  <2>2. Found' = Found
    BY <1>1, <1>4 DEF Found
  <2>3. Filled' = Filled
    BY <1>1, <1>4, <2>1 DEF Filled, NotFound
  <2>4. counters' = [counters EXCEPT !.misses = @ + 1]
    BY <1>4 DEF Backend!Get
  <2>5. Cardinality(NotFound') = Cardinality(NotFound) + 1
    BY <2>1, Counting, Parts
  <2>6. /\ counters'.hits = counters.hits /\ counters'.sets = counters.sets
        /\ counters'.misses = counters.misses + 1
    BY <1>3, <2>4
  <2> QED  BY <1>2, <2>2, <2>3, <2>5, <2>6 DEF Tallied
<1>5. CASE live[key[r]] # None
  <2>1. Found' = Found \cup {r} /\ r \in Task \ Found
    BY <1>1, <1>5 DEF Found
  <2>2. NotFound' = NotFound
    BY <1>1, <1>5 DEF NotFound, AfterMiss, Cached
  <2>3. Filled' = Filled
    BY <1>1, <1>5, <2>2 DEF Filled, NotFound
  <2>4. counters' = [counters EXCEPT !.hits = @ + 1]
    BY <1>5 DEF Backend!Get
  <2>5. Cardinality(Found') = Cardinality(Found) + 1
    BY <2>1, Counting, Parts
  <2>6. /\ counters'.misses = counters.misses /\ counters'.sets = counters.sets
        /\ counters'.hits = counters.hits + 1
    BY <1>3, <2>4
  <2> QED  BY <1>2, <2>2, <2>3, <2>5, <2>6 DEF Tallied
<1> QED  BY <1>4, <1>5

(* The store has been counted. *)
LEMMA StoredTally ==
  ASSUME TallyInv, NEW r \in Reader, pc[r] \in {"fill", "indexing"}, Goto(r, "done"),
         UNCHANGED <<key, stats>>, counters' = [counters EXCEPT !.sets = @ + 1]
  PROVE  Tallied'
<1> USE DEF TallyInv, Typed, TypeOK, Goto, stats
<1>1. key[r] \in Key /\ key[r] # None /\ Cached(key[r]) /\ r \in Task
  BY Constants DEF WellFormed, OnlyCached, Task
<1>2. Unserved' = Unserved /\ Broken' = Broken /\ Found' = Found
  BY <1>1 DEF Unserved, Broken, Found
<1>3. NotFound' = NotFound
  BY <1>1 DEF NotFound, AfterMiss, Cached
<1>4. Filled' = Filled \cup {r} /\ r \in Task \ Filled
  BY <1>1, <1>3 DEF Filled, NotFound, AfterMiss
<1>5. Cardinality(Filled') = Cardinality(Filled) + 1
  BY <1>4, Counting, Parts
<1>6. /\ counters'.hits = counters.hits /\ counters'.misses = counters.misses
      /\ counters'.sets = counters.sets + 1
  BY DEF Backend!TypeOK, Backend!CacheCounters
<1> QED  BY <1>2, <1>3, <1>5, <1>6 DEF Tallied

(* A deletion has been counted. *)
LEMMA DeletedTally ==
  ASSUME TallyInv, NEW w \in Writer, NEW place \in {"done", "invalidate"},
         pc[w] = "invalidate", Goto(w, place), UNCHANGED <<key, stats>>,
         NEW n, counters' = [counters EXCEPT !.invalidations = n]
  PROVE  Tallied'
<1>1. /\ counters'.hits = counters.hits /\ counters'.misses = counters.misses
      /\ counters'.sets = counters.sets
  BY DEF TallyInv, Typed, TypeOK, Backend!TypeOK, Backend!CacheCounters
<1>2. \A r \in Reader : pc'[r] = pc[r] /\ key'[r] = key[r]
  BY Constants DEF Goto, TallyInv, Typed, TypeOK, Task
<1>3. NotFound' = NotFound /\ Filled' = Filled
  BY <1>2 DEF NotFound, Filled, Cached
<1>4. Unserved' = Unserved /\ Broken' = Broken /\ Found' = Found
  BY DEF Goto, TallyInv, Typed, TypeOK, Unserved, Broken, Found
<1> QED  BY <1>1, <1>3, <1>4 DEF TallyInv, Tallied, stats

LEMMA RestartTally == ASSUME Typed, Restart PROVE Tallied'
<1>1. Unserved' = Task
  BY DEF Restart, Unserved
<1>2. Broken' = {} /\ Found' = {}
  BY DEF Restart, Broken, Found
<1>3. NotFound' = {}
  BY DEF Restart, NotFound, AfterMiss, Task
<1>4. Filled' = {}
  BY <1>3 DEF Filled
<1>5. /\ counters'.hits = 0 /\ counters'.misses = 0 /\ counters'.sets = 0
      /\ requests' = 0 /\ errors'.violation = 0 /\ errors'.internal = 0
  BY DEF Restart, Backend!NoCounts, NoErrors
<1> QED  BY <1>1, <1>2, <1>3, <1>4, <1>5, Counting, FS_EmptySet DEF Tallied

LEMMA QueryTally ==
  ASSUME TallyInv, NEW r \in Reader, QueryStep(r) PROVE Tallied'
<1> r \in Task
  BY DEF Task
<1>1. CASE Acquire(r)
  BY <1>1, Constants, QuietTally DEF TallyInv, Acquire, backend, tasks, AfterMiss, Awaiting
<1>2. CASE AcquireFails(r) \/ LookupFails(r)
  BY <1>2, RaiseTally DEF TallyInv, AcquireFails, LookupFails, backend, tasks, AfterMiss, Awaiting
<1>3. CASE Select(r)
  BY <1>3, QuietTally DEF TallyInv, Select, backend, AfterMiss, Awaiting
<1>4. CASE SelectFails(r) \/ FillFails(r)
  BY <1>4, RaiseTally DEF TallyInv, SelectFails, FillFails, backend, tasks, AfterMiss, Awaiting
<1>5. CASE Fill(r)
  BY <1>5, StoredTally DEF Fill, Backend!Write, stats
<1> QED  BY <1>1, <1>2, <1>3, <1>4, <1>5, LookupTally DEF QueryStep

LEMMA MutationTally ==
  ASSUME TallyInv, NEW w \in Writer, MutationStep(w) PROVE Tallied'
<1> w \in Task /\ w \notin Reader
  BY Constants DEF Task
<1>1. CASE Acquire(w)
  BY <1>1, QuietTally DEF TallyInv, Acquire, backend, tasks, Awaiting
<1>2. CASE Update(w)
  BY <1>2, QuietTally DEF TallyInv, Update, backend, tasks, Awaiting
<1>3. CASE Commit(w)
  BY <1>3, QuietTally DEF TallyInv, Commit, backend, tasks, Awaiting
<1>4. CASE AcquireFails(w) \/ TransactionFails(w) \/ InvalidateFails(w)
  BY <1>4, RaiseTally DEF TallyInv, AcquireFails, TransactionFails, InvalidateFails,
     backend, tasks, Awaiting
<1>5. CASE Invalidate(w)
  <2>1. PICK place \in {"done", "invalidate"} : Goto(w, place)
    BY <1>5 DEF Invalidate
  <2>2. PICK n : counters' = [counters EXCEPT !.invalidations = n]
    BY <1>5 DEF Invalidate, Backend!Invalidate
  <2> QED  BY <1>5, <2>1, <2>2, DeletedTally DEF Invalidate
<1> QED  BY <1>1, <1>2, <1>3, <1>4, <1>5 DEF MutationStep

LEMMA NextOnlyCached == Typed /\ OnlyCached /\ [Next]_vars => OnlyCached'
<1> SUFFICES ASSUME Typed, OnlyCached, [Next]_vars PROVE OnlyCached'
  OBVIOUS
<1> USE DEF OnlyCached, Cached, Typed, TypeOK, Goto, Raise
<1>1. ASSUME NEW r \in Reader, NEW k \in Key, BeginQuery(r, k) PROVE OnlyCached'
  BY <1>1 DEF BeginQuery, Task
<1>2. ASSUME NEW r \in Reader, QueryStep(r) PROVE OnlyCached'
  <2>1. UNCHANGED key
    BY <1>2 DEF QueryStep, Acquire, AcquireFails, Lookup, LookupFails, Select,
           SelectFails, Fill, FillFails, tasks
  <2>2. PICK place \in Places : /\ Goto(r, place) /\ place \notin {"get", "indexing"}
                                /\ place = "fill" => Cached(key[r])
    BY <1>2 DEF QueryStep, Acquire, AcquireFails, Lookup, LookupFails, Select,
           SelectFails, Fill, FillFails, Places
  <2> QED  BY <2>1, <2>2 DEF Task
<1>3. ASSUME NEW w \in Writer,
             MutationStep(w) \/ (\E m \in Mutation : BeginMutation(w, m))
      PROVE  OnlyCached'
  <2>1. UNCHANGED key
    BY <1>3 DEF MutationStep, BeginMutation, Acquire, AcquireFails, Update, Commit,
           TransactionFails, Invalidate, InvalidateFails, tasks
  <2>2. \E place \in Places : Goto(w, place)
    BY <1>3, Constants DEF MutationStep, BeginMutation, Acquire, AcquireFails, Update,
           Commit, TransactionFails, Invalidate, InvalidateFails, Places
  <2> QED  BY <2>1, <2>2, Constants DEF Task
<1>4. CASE Restart
  BY <1>4 DEF Restart, Task
<1>5. CASE (\E k \in Key : Expire(k)) \/ Finished \/ UNCHANGED vars
  BY <1>5 DEF Expire, Finished, vars, tasks
<1> QED  BY <1>1, <1>2, <1>3, <1>4, <1>5 DEF Next

LEMMA NextTallied == TallyInv /\ [Next]_vars => Tallied'
<1> SUFFICES ASSUME TallyInv, [Next]_vars PROVE Tallied'
  OBVIOUS
<1>1. ASSUME NEW r \in Reader, NEW k \in Key, BeginQuery(r, k) PROVE Tallied'
  <2>1. /\ r \in Task /\ \A q \in Reader \ {r} : key'[q] = key[q]
        /\ key'[r] = k /\ UNCHANGED <<errors, counters>> /\ pc[r] = "idle" /\ Count
    BY <1>1 DEF BeginQuery, TallyInv, Typed, TypeOK, Task, backend
  <2>2. CASE Cached(k)
    BY <1>1, <2>1, <2>2, BeginTally DEF BeginQuery, TallyInv
  <2>3. CASE ~ Cached(k)
    BY <1>1, <2>1, <2>3, BeginTally DEF BeginQuery, TallyInv
  <2> QED  BY <2>2, <2>3
<1>2. ASSUME NEW w \in Writer, NEW m \in Mutation, BeginMutation(w, m) PROVE Tallied'
  BY <1>2, BeginTally, Constants DEF BeginMutation, TallyInv, Task, backend
<1>3. CASE (\E k \in Key : Expire(k)) \/ Finished \/ UNCHANGED vars
  <2>1. UNCHANGED <<pc, key, stats, counters>>
    BY <1>3 DEF Expire, Backend!Drop, Finished, vars, backend, tasks
  <2> QED  BY <2>1 DEF TallyInv, Tallied, Unserved, Broken, Found, NotFound, Filled,
                       AfterMiss, Cached, stats
<1> QED  BY <1>1, <1>2, <1>3, QueryTally, MutationTally, RestartTally DEF Next, TallyInv

LEMMA InitTallied == Init => OnlyCached /\ Tallied
<1> SUFFICES ASSUME Init PROVE OnlyCached /\ Tallied
  OBVIOUS
<1>1. OnlyCached
  BY DEF Init, OnlyCached, Task
<1>2. /\ Unserved = Task /\ Broken = {} /\ Found = {} /\ NotFound = {} /\ Filled = {}
  BY DEF Init, Unserved, Broken, Found, NotFound, Filled, Task
<1>3. /\ counters.hits = 0 /\ counters.misses = 0 /\ counters.sets = 0
      /\ requests = 0 /\ errors.violation = 0 /\ errors.internal = 0
  BY DEF Init, Backend!Init, Backend!NoCounts, NoErrors
<1> QED  BY <1>1, <1>2, <1>3, Counting, FS_EmptySet DEF Tallied

(* /stats adds up in every state of any number of concurrent invocations:  *)
(* each is counted once, each failure once, and the cache counters are the *)
(* lookups that hit, the lookups that missed and the payloads stored.      *)
THEOREM Tally == Spec => []StatsTally
<1>1. Init => TallyInv
  BY InitTyped, InitTallied DEF TallyInv
<1>2. TallyInv /\ [Next]_vars => TallyInv'
  BY NextTyped, NextOnlyCached, NextTallied DEF TallyInv
<1>3. TallyInv => StatsTally
  BY TallyMeaning DEF TallyInv
<1> QED  BY <1>1, <1>2, <1>3, PTL DEF Spec
=============================================================================
