-------------------------- MODULE MeasurementProofs --------------------------
(***************************************************************************)
(* For any number of lifespans, processes and invocations: what _state     *)
(* publishes, what is left open, that a report counts what happened        *)
(* between its scrapes, and that the numbers of a report fit each other.   *)
(***************************************************************************)
EXTENDS Measurement, FiniteSetTheorems, TLAPS

Eras == {Absent} \cup Lifespans

(* What _lifespan publishes and opens in each of its phases. *)
Phased ==
  /\ phase \in {"down", "connecting", "up", "closing pool", "closing redis"}
  /\ current \in Eras
  /\ phase # "down" => current \in Lifespans
  /\ state \in [Entry -> Eras]
  /\ phase \in {"closing pool", "closing redis"} => state["graphql_app"] = current

NoRedis == ~ Redis => clients = {} /\ phase # "closing redis"

Lifetimes ==
  /\ Phased /\ NoRedis
  /\ StatsOfServingApp /\ NothingServedBetween /\ OpenExplained

LEMMA Entries == /\ Published \subseteq Entry
                 /\ "graphql_app" \in Published /\ "counters" \in Published
                 /\ "request_counters" \in Published /\ "registry" \in Published
                 /\ "pool" \notin Published /\ "redis_client" \notin Published
BY DEF Published, Entry

LEMMA EraFacts == /\ Absent \in Eras /\ Absent \notin Lifespans /\ Lifespans \subseteq Eras
                  /\ \A l \in Eras : l < MaxLifespans => l + 1 \in Lifespans
                  /\ \A l \in Eras : l + 1 # l
BY LifespanAssumption DEF Eras, Lifespans, Absent

LEMMA InitLifetimes == Init => Lifetimes
<1> SUFFICES ASSUME Init PROVE Lifetimes
  OBVIOUS
<1>1. phase = "down" /\ current = Absent /\ pools = {} /\ clients = {}
  BY DEF Init, Absent
<1>2. state = [e \in Entry |-> Absent]
  BY DEF Init
<1>3. Phased /\ NoRedis
  BY <1>1, <1>2, EraFacts DEF Phased, NoRedis
<1>4. StatsOfServingApp /\ NothingServedBetween /\ OpenExplained
  BY <1>1, <1>2, Entries DEF StatsOfServingApp, NothingServedBetween, OpenExplained
<1> QED  BY <1>3, <1>4 DEF Lifetimes

(* A step that leaves _lifespan where it is. *)
LEMMA LifetimesFrame ==
  ASSUME Lifetimes, UNCHANGED <<phase, current, state, objects>>
  PROVE  Lifetimes'
BY DEF Lifetimes, Phased, NoRedis, Lifespans, StatsOfServingApp, NothingServedBetween,
       OpenExplained, objects

LEMMA HandleFrame ==
  ASSUME NEW t \in Request, Handle(t)
  PROVE  UNCHANGED <<phase, current, state, objects>>
BY DEF Handle, Refuse, Dispatch, Hit, Miss, Resolve, Invalidate, Raise

(* Entries that are popped, and the others. *)
LEMMA Popped ==
  ASSUME NEW E, Pop(E)
  PROVE  \A e \in Entry : state'[e] = IF e \in E THEN Absent ELSE state[e]
BY DEF Pop

LEMMA LifeLifetimes ==
  ASSUME Lifetimes, LifeNext
  PROVE  Lifetimes'
<1> USE EraFacts, Entries
<1>1. CASE Enter
  <2>1. phase = "down" /\ phase' \in {"connecting", "down"} /\ current' = current + 1
    BY <1>1 DEF Enter
  <2>2. UNCHANGED <<state, pools, clients, raised, cut>> /\ current' \in Lifespans
    BY <1>1 DEF Enter, objects, Lifetimes, Phased
  <2>3. (StatsOfServingApp /\ NothingServedBetween)'
    BY <2>1, <2>2 DEF Lifetimes, Phased, StatsOfServingApp, NothingServedBetween
  <2>4. OpenExplained'
    BY <2>1, <2>2 DEF Lifetimes, Phased, NoRedis, OpenExplained
  <2>5. Phased'
    BY <2>1, <2>2 DEF Lifetimes, Phased
  <2>6. NoRedis'
    BY <2>1, <2>2 DEF Lifetimes, NoRedis
  <2> QED  BY <2>3, <2>4, <2>5, <2>6 DEF Lifetimes
<1>2. CASE Boot
  <2>1. \A e \in Published : state'[e] = current
    BY <1>2 DEF Boot, Entry, Published
  <2>2. state' \in [Entry -> Eras]
    BY <1>2 DEF Boot, Lifetimes, Phased
  <2>3. OpenExplained'
    BY <1>2 DEF Boot, Lifetimes, Phased, NoRedis, OpenExplained
  <2>4. Phased'
    BY <1>2, <2>2 DEF Boot, Lifetimes, Phased
  <2>5. NoRedis'
    BY <1>2 DEF Boot, Lifetimes, NoRedis
  <2>6. (StatsOfServingApp /\ NothingServedBetween)'
    BY <1>2, <2>1 DEF Boot, StatsOfServingApp, NothingServedBetween
  <2> QED  BY <2>3, <2>4, <2>5, <2>6 DEF Lifetimes
<1>3. CASE BootRaises
  BY <1>3 DEF BootRaises, Leave, Lifetimes, Phased, NoRedis, StatsOfServingApp,
              NothingServedBetween, OpenExplained
<1>4. CASE Shutdown
  <2>1. state' \in [Entry -> Eras] /\ \A e \in Published : state'[e] = state[e]
    BY <1>4 DEF Shutdown, Pop, Lifetimes, Phased
  <2>2. (StatsOfServingApp /\ NothingServedBetween)'
    BY <1>4, <2>1 DEF Shutdown, objects, Lifetimes, Phased, StatsOfServingApp, NothingServedBetween
  <2>3. OpenExplained'
    BY <1>4 DEF Shutdown, objects, Lifetimes, Phased, NoRedis, OpenExplained
  <2>4. Phased'
    BY <1>4, <2>1 DEF Shutdown, objects, Lifetimes, Phased, NothingServedBetween
  <2>5. NoRedis'
    BY <1>4 DEF Shutdown, objects, Lifetimes, NoRedis
  <2> QED  BY <2>2, <2>3, <2>4, <2>5 DEF Lifetimes
<1>5. CASE PoolClosed
  <2>1. /\ state' \in [Entry -> Eras]
        /\ \A e \in Published : state'[e] = IF Redis THEN state[e] ELSE Absent
    BY <1>5 DEF PoolClosed, Pop, Lifetimes, Phased
  <2>2. (StatsOfServingApp /\ NothingServedBetween)'
    BY <1>5, <2>1 DEF PoolClosed, Lifetimes, Phased, StatsOfServingApp, NothingServedBetween
  <2>3. OpenExplained'
    BY <1>5 DEF PoolClosed, Lifetimes, Phased, NoRedis, OpenExplained
  <2>4. Phased'
    BY <1>5, <2>1 DEF PoolClosed, Lifetimes, Phased, NothingServedBetween
  <2>5. NoRedis'
    BY <1>5 DEF PoolClosed, Lifetimes, NoRedis
  <2> QED  BY <2>2, <2>3, <2>4, <2>5 DEF Lifetimes
<1>6. CASE RedisClosed
  <2>1. /\ state' \in [Entry -> Eras]
        /\ \A e \in Published : state'[e] = Absent
    BY <1>6 DEF RedisClosed, Pop, Lifetimes, Phased
  <2>2. (StatsOfServingApp /\ NothingServedBetween)'
    BY <1>6, <2>1 DEF RedisClosed, Leave, Lifetimes, Phased, StatsOfServingApp, NothingServedBetween
  <2>3. OpenExplained'
    BY <1>6 DEF RedisClosed, Leave, Lifetimes, Phased, NoRedis, OpenExplained
  <2>4. Phased'
    BY <1>6, <2>1 DEF RedisClosed, Leave, Lifetimes, Phased, NothingServedBetween
  <2>5. NoRedis'
    BY <1>6 DEF RedisClosed, Leave, Lifetimes, NoRedis
  <2> QED  BY <2>2, <2>3, <2>4, <2>5 DEF Lifetimes
<1>7. CASE CloseRaises
  BY <1>7 DEF CloseRaises, Leave, Lifetimes, Phased, NoRedis, StatsOfServingApp,
              NothingServedBetween, OpenExplained
<1>8. CASE ProcessEnds
  <2>1. /\ state' \in [Entry -> Eras]
        /\ \A e \in Published : state'[e] = Absent
    BY <1>8 DEF ProcessEnds, Pop, Lifetimes, Phased
  <2>2. (StatsOfServingApp /\ NothingServedBetween)'
    BY <1>8, <2>1 DEF ProcessEnds, Leave, Lifetimes, Phased, StatsOfServingApp, NothingServedBetween
  <2>3. OpenExplained'
    BY <1>8 DEF ProcessEnds, Leave, Lifetimes, Phased, NoRedis, OpenExplained
  <2>4. Phased'
    BY <1>8, <2>1 DEF ProcessEnds, Leave, Lifetimes, Phased, NothingServedBetween
  <2>5. NoRedis'
    BY <1>8 DEF ProcessEnds, Leave, Lifetimes, NoRedis
  <2> QED  BY <2>2, <2>3, <2>4, <2>5 DEF Lifetimes
<1>9. ASSUME NEW t \in Request, Handle(t) PROVE Lifetimes'
  BY <1>9, HandleFrame, LifetimesFrame
<1> QED  BY <1>1, <1>2, <1>3, <1>4, <1>5, <1>6, <1>7, <1>8, <1>9 DEF LifeNext

LEMMA NextLifetimes == Lifetimes /\ [Next]_vars => Lifetimes'
<1> SUFFICES ASSUME Lifetimes, [Next]_vars PROVE Lifetimes'
  OBVIOUS
<1>1. CASE LifeNext
  BY <1>1, LifeLifetimes
<1>2. CASE UNCHANGED lifeVars
  BY <1>2, LifetimesFrame DEF lifeVars
<1> QED
  BY <1>1, <1>2 DEF Next, vars, ScrapeStart, Locust, RunnerFails, WriteReport

LEMMA AlwaysLifetimes == Spec => []Lifetimes
BY InitLifetimes, NextLifetimes, PTL DEF Spec, MeasureInit

(* /stats shows the counters of the app that serves, for any number of     *)
(* lifespans and failures of them.                                         *)
THEOREM StatsMatch == Spec => []StatsOfServingApp
<1>1. Lifetimes => StatsOfServingApp
  BY DEF Lifetimes, Phased
<1> QED  BY AlwaysLifetimes, <1>1, PTL

(* Between lifespans nothing is served but after a teardown that raised. *)
THEOREM QuietBetween == Spec => []NothingServedBetween
<1>1. Lifetimes => NothingServedBetween
  BY DEF Lifetimes, Phased
<1> QED  BY AlwaysLifetimes, <1>1, PTL

(* A pool or a client stays open only by one of the two exceptions. *)
THEOREM LeaksExplained == Spec => []OpenExplained
<1>1. Lifetimes => OpenExplained
  BY DEF Lifetimes, Phased
<1> QED  BY AlwaysLifetimes, <1>1, PTL

-----------------------------------------------------------------------------
(* Counting.  The invocations of lifespan l of which a log says that they  *)
(* counted k in a dict are as many as its counters say.                    *)

Dicts == {"cache", "errors", "ops"}
Who(entries, l, d, k) == {t \in Request : app[t] = l /\ <<t, d, k>> \in entries}

Shaped ==
  /\ DOMAIN counts = Lifespans
  /\ \A l \in Lifespans :
       /\ DOMAIN counts[l] = Dicts
       /\ {"hits", "misses", "invalidations"} \subseteq DOMAIN counts[l]["cache"]

Tally == \A l \in Lifespans, d \in Dicts : \A k :
           ValueOf(counts[l][d], k) = Cardinality(Who(log, l, d, k))

(* What an invocation has counted by the time it gets to each place. *)
Fresh ==
  /\ DOMAIN pc = Request /\ DOMAIN app = Request
  /\ \A t \in InFlight : app[t] \in Lifespans
  /\ \A t \in Request : \A d, k : <<t, d, k>> \in log =>
       /\ pc[t] # "idle"
       /\ pc[t] = "lookup" => d = "ops"
       /\ t \in InFlight => (d # "errors" /\ k # "invalidations") \/ d = "ops"

LEMMA Counted == ASSUME NEW S, NEW l, NEW d, NEW k
                 PROVE  /\ IsFiniteSet(Who(S, l, d, k))
                        /\ Cardinality(Who(S, l, d, k)) \in Nat
BY LifespanAssumption, FS_Subset, FS_CardinalityType DEF Who

LEMMA Bumped ==
  ASSUME NEW f, NEW k
  PROVE  /\ DOMAIN Bump(f, k) = DOMAIN f \cup {k}
         /\ ValueOf(Bump(f, k), k) = ValueOf(f, k) + 1
BY DEF Bump, ValueOf

LEMMA BumpedElse ==
  ASSUME NEW f, NEW k, NEW j, j # k, ValueOf(f, j) \in Nat
  PROVE  ValueOf(Bump(f, k), j) = ValueOf(f, j)
BY DEF Bump, ValueOf

LEMMA InitTally == Init => Shaped /\ Tally /\ Fresh
<1> SUFFICES ASSUME Init PROVE Shaped /\ Tally /\ Fresh
  OBVIOUS
<1>1. counts = [l \in Lifespans |-> NoCounts] /\ log = {}
  BY DEF Init
<1>2. Shaped
  BY <1>1 DEF Shaped, NoCounts, Dicts
<1>3. ASSUME NEW l \in Lifespans, NEW d \in Dicts, NEW k
      PROVE  ValueOf(counts[l][d], k) = Cardinality(Who(log, l, d, k))
  <2>1. Who(log, l, d, k) = {}
    BY <1>1 DEF Who
  <2>2. ValueOf(NoCounts[d], k) = 0
    BY DEF NoCounts, Dicts, ValueOf
  <2> QED  BY <1>1, <2>1, <2>2, FS_EmptySet
<1>4. Fresh
  BY <1>1 DEF Init, Fresh, InFlight
<1> QED  BY <1>2, <1>3, <1>4 DEF Tally

(* A step that counts once, for an invocation whose app is settled. *)
LEMMA CountOnce ==
  ASSUME Shaped, Tally, NEW t \in Request, NEW l \in Lifespans, NEW d \in Dicts, NEW k,
         <<t, d, k>> \notin log,
         Count(t, l, d, k),
         app'[t] = l,
         \A u \in Request : u # t => app'[u] = app[u],
         app[t] = l \/ \A e, j : <<t, e, j>> \notin log
  PROVE  Shaped' /\ Tally'
<1>1. /\ DOMAIN counts' = Lifespans
      /\ counts'[l][d] = Bump(counts[l][d], k)
      /\ \A m \in Lifespans : DOMAIN counts'[m] = Dicts
      /\ \A m \in Lifespans, e \in Dicts :
           m # l \/ e # d => counts'[m][e] = counts[m][e]
  BY DEF Count, Shaped
<1>2. Shaped'
  <2>1. ASSUME NEW m \in Lifespans
        PROVE  DOMAIN counts[m]["cache"] \subseteq DOMAIN counts'[m]["cache"]
    <3>1. CASE m = l /\ d = "cache"
      <4>1. DOMAIN Bump(counts[l][d], k) = DOMAIN counts[l][d] \cup {k}
        BY Bumped
      <4>2. counts'[m]["cache"] = Bump(counts[l][d], k) /\ counts[m]["cache"] = counts[l][d]
        BY <1>1, <3>1
      <4> QED  BY <4>1, <4>2
    <3>2. CASE ~ (m = l /\ d = "cache")
      BY <1>1, <3>2 DEF Dicts
    <3> QED  BY <3>1, <3>2
  <2> QED  BY <1>1, <2>1 DEF Shaped
<1>3. ASSUME NEW m \in Lifespans, NEW e \in Dicts, NEW j
      PROVE  ValueOf(counts'[m][e], j) = Cardinality(Who(log, m, e, j)')
  <2>1. ValueOf(counts[m][e], j) = Cardinality(Who(log, m, e, j))
    BY DEF Tally
  <2>2. CASE m = l /\ e = d /\ j = k
    <3>1. Who(log, m, e, j)' = Who(log, m, e, j) \cup {t}
      BY <2>2 DEF Who, Count
    <3>2. t \notin Who(log, m, e, j)
      BY <2>2 DEF Who
    <3>3. Cardinality(Who(log, m, e, j)') = Cardinality(Who(log, m, e, j)) + 1
      BY <3>1, <3>2, Counted, FS_AddElement
    <3>4. ValueOf(Bump(counts[l][d], k), k) = ValueOf(counts[l][d], k) + 1
      BY Bumped
    <3> QED  BY <1>1, <2>1, <2>2, <3>3, <3>4
  <2>3. CASE ~ (m = l /\ e = d /\ j = k)
    <3>1. Who(log, m, e, j)' = Who(log, m, e, j)
      BY <2>3 DEF Who, Count
    <3>2. ValueOf(counts'[m][e], j) = ValueOf(counts[m][e], j)
      <4>1. CASE m = l /\ e = d
        <5>1. j # k
          BY <2>3, <4>1
        <5>2. ValueOf(Bump(counts[l][d], k), j) = ValueOf(counts[l][d], j)
          BY <2>1, <4>1, <5>1, BumpedElse, Counted
        <5> QED  BY <1>1, <4>1, <5>2
      <4>2. CASE ~ (m = l /\ e = d)
        BY <1>1, <4>2
      <4> QED  BY <4>1, <4>2
    <3> QED  BY <2>1, <3>1, <3>2
  <2> QED  BY <2>2, <2>3
<1> QED  BY <1>2, <1>3 DEF Tally

LEMMA TallyFrame ==
  ASSUME Shaped, Tally, UNCHANGED <<counts, app, log>>
  PROVE  Shaped' /\ Tally'
BY DEF Shaped, Tally, Who

(* A step of one invocation, counting or not. *)
LEMMA FreshFrame ==
  ASSUME Fresh, NEW t \in Request, NEW place, Goto(t, place),
         \A u \in Request : u # t => app'[u] = app[u],
         DOMAIN app' = Request,
         t \in InFlight' => app'[t] \in Lifespans,
         \A u \in Request : \A d, k :
           u # t /\ <<u, d, k>> \in log' => <<u, d, k>> \in log,
         \A d, k : <<t, d, k>> \in log' =>
           /\ place # "idle"
           /\ place = "lookup" => d = "ops"
           /\ place \in {"lookup", "resolve", "invalidate"} =>
                (d # "errors" /\ k # "invalidations") \/ d = "ops"
  PROVE  Fresh'
<1>1. DOMAIN pc' = Request /\ pc'[t] = place /\ \A u \in Request : u # t => pc'[u] = pc[u]
  BY DEF Goto, Fresh
<1>2. ASSUME NEW u \in Request, u # t
      PROVE  (u \in InFlight' <=> u \in InFlight) /\ app'[u] = app[u]
  BY <1>1, <1>2 DEF InFlight
<1>3. \A u \in InFlight' : app'[u] \in Lifespans
  BY <1>2 DEF InFlight, Fresh
<1>4. ASSUME NEW u \in Request, NEW d, NEW k, <<u, d, k>> \in log'
      PROVE  /\ pc'[u] # "idle"
             /\ pc'[u] = "lookup" => d = "ops"
             /\ u \in InFlight' => (d # "errors" /\ k # "invalidations") \/ d = "ops"
  <2>1. CASE u = t
    BY <1>1, <1>4, <2>1 DEF InFlight
  <2>2. CASE u # t
    BY <1>1, <1>2, <1>4, <2>2 DEF Fresh
  <2> QED  BY <2>1, <2>2
<1> QED  BY <1>1, <1>3, <1>4 DEF Fresh

(* What was logged stays logged, under the app it was logged for. *)
Kept ==
  /\ log \subseteq log'
  /\ \A t \in Request : \A d, k : <<t, d, k>> \in log => app'[t] = app[t]

(* An invocation in flight counts in its app and goes on. *)
LEMMA FlightTally ==
  ASSUME Shaped, Tally, Fresh, NEW t \in InFlight, NEW d \in Dicts, NEW k, NEW place,
         <<t, d, k>> \notin log, Count(t, app[t], d, k), Goto(t, place), UNCHANGED app,
         place \in {"resolve", "done"},
         place = "resolve" => d = "cache" /\ k # "invalidations"
  PROVE  Shaped' /\ Tally' /\ Fresh' /\ Kept
<1>1. t \in Request /\ app[t] \in Lifespans
  BY DEF InFlight, Fresh
<1>2. Shaped' /\ Tally'
  BY <1>1, CountOnce
<1>3. \A u \in Request : \A e, j :
        <<u, e, j>> \in log' => <<u, e, j>> \in log \/ (u = t /\ e = d /\ j = k)
  BY DEF Count
<1>4. \A e, j : <<t, e, j>> \in log => (e # "errors" /\ j # "invalidations") \/ e = "ops"
  BY <1>1 DEF Fresh
<1>5. t \in InFlight' => place = "resolve"
  BY <1>1 DEF InFlight, Goto, Fresh
<1>6. Fresh'
  BY <1>1, <1>3, <1>4, <1>5, FreshFrame DEF Fresh
<1>7. Kept
  BY DEF Count, Kept
<1> QED  BY <1>2, <1>6, <1>7

LEMMA HandleTally ==
  ASSUME Lifetimes, Shaped, Tally, Fresh, NEW t \in Request, Handle(t)
  PROVE  Shaped' /\ Tally' /\ Fresh' /\ Kept
<1>1. CASE Refuse(t)
  <2>1. Shaped' /\ Tally' /\ Kept
    BY <1>1, TallyFrame DEF Refuse, Kept
  <2>2. \A d, k : <<t, d, k>> \notin log
    BY <1>1 DEF Refuse, Fresh
  <2>3. t \notin InFlight'
    BY <1>1 DEF Refuse, Goto, InFlight, Fresh
  <2>4. Fresh'
    BY <1>1, <2>2, <2>3, FreshFrame DEF Refuse, Fresh
  <2> QED  BY <2>1, <2>4
<1>2. CASE Dispatch(t)
  <2> DEFINE l == state["graphql_app"]
  <2> DEFINE place == IF op[t] \in Cached THEN "lookup" ELSE "resolve"
  <2>1. /\ pc[t] = "idle" /\ l # Absent /\ Goto(t, place)
        /\ app' = [app EXCEPT ![t] = l] /\ Count(t, l, "ops", op[t])
    BY <1>2 DEF Dispatch
  <2>2. l \in Lifespans
    BY <2>1, Entries DEF Lifetimes, Phased, Eras
  <2>3. \A d, k : <<t, d, k>> \notin log
    BY <2>1 DEF Fresh
  <2>4. app'[t] = l /\ DOMAIN app' = Request /\ \A u \in Request : u # t => app'[u] = app[u]
    BY <2>1 DEF Fresh
  <2>5. Shaped' /\ Tally'
    <3>1. "ops" \in Dicts
      BY DEF Dicts
    <3> HIDE DEF l
    <3> QED  BY <2>1, <2>2, <2>3, <2>4, <3>1, CountOnce
  <2>6. \A u \in Request : \A d, k :
          <<u, d, k>> \in log' => <<u, d, k>> \in log \/ (u = t /\ d = "ops")
    BY <2>1 DEF Count
  <2>7. Fresh'
    <3>1. place # "idle"
      OBVIOUS
    <3> HIDE DEF l, place
    <3> QED  BY <2>1, <2>2, <2>3, <2>4, <2>6, <3>1, FreshFrame DEF Fresh
  <2>8. Kept
    BY <2>1, <2>3, <2>4 DEF Count, Kept
  <2> QED  BY <2>5, <2>7, <2>8
<1>3. CASE Hit(t)
  <2>1. t \in InFlight /\ <<t, "cache", "hits">> \notin log /\ "cache" \in Dicts
    BY <1>3 DEF Hit, InFlight, Fresh, Dicts
  <2> QED  BY <1>3, <2>1, FlightTally DEF Hit
<1>4. CASE Miss(t)
  <2>1. t \in InFlight /\ <<t, "cache", "misses">> \notin log /\ "cache" \in Dicts
    BY <1>4 DEF Miss, InFlight, Fresh, Dicts
  <2> QED  BY <1>4, <2>1, FlightTally DEF Miss
<1>5. CASE Invalidate(t)
  <2>1. t \in InFlight /\ <<t, "cache", "invalidations">> \notin log /\ "cache" \in Dicts
    BY <1>5 DEF Invalidate, InFlight, Fresh, Dicts
  <2> QED  BY <1>5, <2>1, FlightTally DEF Invalidate
<1>6. ASSUME NEW code \in Code, Raise(t, code) PROVE Shaped' /\ Tally' /\ Fresh' /\ Kept
  <2>1. t \in InFlight /\ <<t, "errors", code>> \notin log /\ "errors" \in Dicts
    BY <1>6 DEF Raise, Fresh, Dicts
  <2> QED  BY <1>6, <2>1, FlightTally DEF Raise
<1>7. CASE Resolve(t)
  <2> DEFINE place == IF op[t] \in Invalidating THEN "invalidate" ELSE "done"
  <2>1. pc[t] = "resolve" /\ Goto(t, place) /\ UNCHANGED <<counts, app, log>>
    BY <1>7 DEF Resolve
  <2>2. place \in {"invalidate", "done"} /\ t \in InFlight
    BY <2>1 DEF InFlight
  <2>3. Fresh'
    <3> HIDE DEF place
    <3> QED  BY <2>1, <2>2, FreshFrame DEF Fresh
  <2> QED  BY <2>1, <2>3, TallyFrame DEF Kept
<1> QED  BY <1>1, <1>2, <1>3, <1>4, <1>5, <1>6, <1>7 DEF Handle

LEMMA LifeTally ==
  ASSUME Lifetimes, Shaped, Tally, Fresh, LifeNext
  PROVE  Shaped' /\ Tally' /\ Fresh' /\ Kept
<1>1. CASE ProcessEnds
  <2>1. Shaped' /\ Tally' /\ Kept
    BY <1>1, TallyFrame DEF ProcessEnds, Kept
  <2>2. /\ DOMAIN pc' = Request /\ InFlight' = {}
        /\ \A t \in Request : pc'[t] \in {"lost", pc[t]}
        /\ \A t \in Request : pc'[t] = pc[t] \/ pc'[t] = "lost"
    BY <1>1 DEF ProcessEnds, InFlight
  <2>3. Fresh'
    BY <1>1, <2>2 DEF ProcessEnds, Fresh
  <2> QED  BY <2>1, <2>3
<1>2. ASSUME UNCHANGED work PROVE Shaped' /\ Tally' /\ Fresh' /\ Kept
  BY <1>2, TallyFrame DEF work, Fresh, InFlight, Kept
<1>3. CASE Enter \/ Boot \/ BootRaises \/ Shutdown \/ PoolClosed \/ RedisClosed \/ CloseRaises
  BY <1>2, <1>3 DEF Enter, Boot, BootRaises, Shutdown, PoolClosed, RedisClosed, CloseRaises
<1> QED  BY <1>1, <1>3, HandleTally DEF LifeNext

-----------------------------------------------------------------------------
(* The runner.  A scrape keeps its meaning: what its log says of the       *)
(* lifespan it saw is what its numbers say.                                *)

Faithful(scrape) ==
  /\ scrape.log \subseteq log
  /\ scrape.of \in Lifespans
  /\ \A d \in Dicts : \A k :
       ValueOf(scrape.stats[d], k) = Cardinality(Who(scrape.log, scrape.of, d, k))

IInv ==
  /\ Lifetimes /\ Shaped /\ Tally /\ Fresh
  /\ step \in {"locust", "scrape"} => Faithful(start)
  /\ report # None => DeltaExact

LEMMA ScrapedFaithful ==
  ASSUME Lifetimes, Shaped, Tally, phase = "up", NEW scrape \in Scraped
  PROVE  /\ Faithful(scrape)
         /\ scrape.log = log
         /\ {"hits", "misses", "invalidations"} \subseteq DOMAIN scrape.stats.cache
<1>1. /\ scrape.stats = Payload /\ scrape.log = log
      /\ scrape.of = state["counters"]
  BY DEF Scraped
<1>2. /\ state["counters"] = current /\ state["request_counters"] = current
      /\ state["registry"] = current
      /\ current \in Lifespans /\ current # Absent
  BY Entries, EraFacts DEF Lifetimes, Phased, StatsOfServingApp, NothingServedBetween
<1>3. Payload = [cache |-> counts[current].cache, errors |-> counts[current].errors,
                 ops |-> counts[current].ops]
  BY <1>2 DEF Payload
<1>4. \A d \in Dicts : Payload[d] = counts[current][d]
  BY <1>3 DEF Dicts
<1>5. Faithful(scrape)
  BY <1>1, <1>2, <1>4 DEF Faithful, Tally
<1> QED  BY <1>1, <1>2, <1>3, <1>5 DEF Shaped

LEMMA FaithfulKept ==
  ASSUME Faithful(start), Kept, UNCHANGED start
  PROVE  Faithful(start)'
<1>1. ASSUME NEW d, NEW k
      PROVE  Who(start.log, start.of, d, k)' = Who(start.log, start.of, d, k)
  BY DEF Who, Faithful, Kept
<1> QED  BY <1>1 DEF Faithful, Kept

(* The difference of two scrapes of one lifespan. *)
LEMMA Difference ==
  ASSUME NEW begin, NEW end, Faithful(begin), Faithful(end), end.log = log,
         end.of = begin.of, NEW d \in Dicts, NEW k
  PROVE  ValueOf(Delta(end.stats[d], begin.stats[d]), k) =
           Cardinality({t \in Request :
             <<t, d, k>> \in {e \in end.log \ begin.log : app[e[1]] = end.of}})
<1> DEFINE W(scrape) == Who(scrape.log, scrape.of, d, k)
<1>1. ValueOf(Delta(end.stats[d], begin.stats[d]), k) =
        ValueOf(end.stats[d], k) - ValueOf(begin.stats[d], k)
  <2>1. ValueOf(end.stats[d], k) \in Nat /\ ValueOf(begin.stats[d], k) \in Nat
    BY Counted DEF Faithful
  <2> QED  BY <2>1 DEF Delta, ValueOf
<1>2. ValueOf(end.stats[d], k) = Cardinality(W(end)) /\ ValueOf(begin.stats[d], k) = Cardinality(W(begin))
  BY DEF Faithful
<1>3. W(begin) \subseteq W(end) /\ IsFiniteSet(W(end)) /\ IsFiniteSet(W(begin))
  <2>1. begin.log \subseteq end.log /\ end.of = begin.of
    BY DEF Faithful
  <2>2. W(begin) \subseteq W(end)
    BY <2>1 DEF Who
  <2>3. W(begin) \subseteq Request /\ W(end) \subseteq Request
    BY DEF Who
  <2>4. IsFiniteSet(Request)
    BY LifespanAssumption
  <2> HIDE DEF W
  <2> QED  BY <2>2, <2>3, <2>4, FS_Subset
<1>4. W(end) \cap W(begin) = W(begin)
  BY <1>3
<1>5. Cardinality(W(end) \ W(begin)) = Cardinality(W(end)) - Cardinality(W(begin))
  <2> HIDE DEF W
  <2> QED  BY <1>3, <1>4, FS_Difference
<1>6. W(end) \ W(begin) = {t \in Request :
        <<t, d, k>> \in {e \in end.log \ begin.log : app[e[1]] = end.of}}
  BY DEF Who
<1> QED  BY <1>1, <1>2, <1>5, <1>6

LEMMA ReportExact ==
  ASSUME IInv, WriteReport
  PROVE  DeltaExact'
<1> SUFFICES ASSUME Measured' PROVE DeltaExact'
  BY DEF DeltaExact
<1>1. PICK end \in Scraped :
        report' = [cell |-> BuildReport(end.stats, start.stats),
                   restarted |-> end.of # start.of,
                   counted |-> {e \in end.log \ start.log : app[e[1]] = end.of}]
  BY DEF WriteReport
<1>2. /\ Faithful(end) /\ end.log = log /\ Faithful(start)
      /\ {"hits", "misses", "invalidations"} \subseteq DOMAIN end.stats.cache
  BY ScrapedFaithful DEF IInv, WriteReport
<1>3. end.of = start.of
  BY <1>1 DEF Measured
<1> DEFINE counted(d, k) == {t \in Request :
             <<t, d, k>> \in {e \in end.log \ start.log : app[e[1]] = end.of}}
<1>4. \A d \in Dicts : \A k :
        ValueOf(Delta(end.stats[d], start.stats[d]), k) = Cardinality(counted(d, k))
  BY <1>2, <1>3, Difference
<1>5. \A d, k : With(d, k)' = counted(d, k)
  BY <1>1 DEF With
<1>6. \A k \in {"hits", "misses", "invalidations"} :
        Delta(end.stats["cache"], start.stats["cache"])[k] =
        ValueOf(Delta(end.stats["cache"], start.stats["cache"]), k)
  BY <1>2 DEF ValueOf, Delta
<1>7. /\ report'.cell.hits = Delta(end.stats["cache"], start.stats["cache"])["hits"]
      /\ report'.cell.misses = Delta(end.stats["cache"], start.stats["cache"])["misses"]
      /\ report'.cell.invalidations = Delta(end.stats["cache"], start.stats["cache"])["invalidations"]
      /\ report'.cell.errors = Delta(end.stats["errors"], start.stats["errors"])
      /\ report'.cell.ops = Delta(end.stats["ops"], start.stats["ops"])
  BY <1>1 DEF BuildReport
<1>8. "cache" \in Dicts /\ "errors" \in Dicts /\ "ops" \in Dicts
  BY DEF Dicts
<1> HIDE DEF counted
<1> QED  BY <1>4, <1>5, <1>6, <1>7, <1>8 DEF DeltaExact

LEMMA InitInv == MeasureInit => IInv
BY InitLifetimes, InitTally DEF MeasureInit, IInv

LEMMA NextInv == IInv /\ [Next]_vars => IInv'
<1> SUFFICES ASSUME IInv, [Next]_vars PROVE IInv'
  OBVIOUS
<1>1. Lifetimes'
  BY NextLifetimes DEF IInv
<1>2. ASSUME UNCHANGED report PROVE report' # None => DeltaExact'
  BY <1>2 DEF IInv, DeltaExact, Measured, With
<1>3. CASE LifeNext /\ UNCHANGED <<step, start, report>>
  <2>1. Shaped' /\ Tally' /\ Fresh' /\ Kept
    BY <1>3, LifeTally DEF IInv
  <2>2. step' \in {"locust", "scrape"} => Faithful(start)'
    BY <1>3, <2>1, FaithfulKept DEF IInv
  <2> QED  BY <1>1, <1>2, <1>3, <2>1, <2>2 DEF IInv
<1>4. ASSUME UNCHANGED lifeVars PROVE Shaped' /\ Tally' /\ Fresh'
  BY <1>4, TallyFrame DEF lifeVars, work, IInv, Fresh, InFlight
<1>5. ASSUME UNCHANGED lifeVars, Faithful(start') PROVE Faithful(start)'
  BY <1>5 DEF lifeVars, work, Faithful, Who
<1>6. CASE ScrapeStart
  <2>1. Faithful(start')
    BY <1>6, ScrapedFaithful DEF ScrapeStart, IInv
  <2>2. Faithful(start)'
    BY <1>5, <1>6, <2>1 DEF ScrapeStart
  <2> QED  BY <1>1, <1>2, <1>4, <1>6, <2>2 DEF ScrapeStart, IInv
<1>7. CASE Locust \/ RunnerFails \/ UNCHANGED vars
  <2>1. UNCHANGED <<lifeVars, start, report>>
    BY <1>7 DEF Locust, RunnerFails, vars
  <2>2. step' \in {"locust", "scrape"} => step \in {"locust", "scrape"}
    BY <1>7 DEF Locust, RunnerFails, vars
  <2>3. step' \in {"locust", "scrape"} => Faithful(start)'
    BY <1>5, <2>1, <2>2 DEF IInv
  <2> QED  BY <1>1, <1>2, <1>4, <2>1, <2>3 DEF IInv
<1>8. CASE WriteReport
  <2>1. step' = "written" /\ UNCHANGED lifeVars
    BY <1>8 DEF WriteReport
  <2> QED  BY <1>1, <1>4, <1>8, <2>1, ReportExact DEF IInv
<1> QED  BY <1>3, <1>6, <1>7, <1>8 DEF Next

(* A report counts exactly what the application it measured counted        *)
(* between the two scrapes, however many invocations, operations, restarts *)
(* and requests that straddle a scrape there were.                         *)
THEOREM Exact == Spec => []DeltaExact
<1>1. IInv => DeltaExact
  BY DEF IInv, DeltaExact, Measured
<1> QED  BY InitInv, NextInv, <1>1, PTL DEF Spec
-----------------------------------------------------------------------------
(* Sums.  SumFunction is defined by recursion on the subsets of a domain;  *)
(* what it adds up to is shown on a smallest subset where it would not.    *)

(* A set of subsets of a finite set has a smallest one. *)
LEMMA SmallestSubset ==
  ASSUME NEW S, IsFiniteSet(S), NEW B \in SUBSET SUBSET S, B # {}
  PROVE  \E m \in B : \A n \in B : n \subseteq m => n = m
<1>1. B \subseteq FiniteSubsetsOf(S)
  BY FS_Subset DEF FiniteSubsetsOf
<1>2. \E m \in B : \A n \in B : <<n, m>> \notin StrictSubsetOrdering(S)
  BY <1>1, FS_StrictSubsetOrderingWellFounded, WFMin
<1> QED  BY <1>2 DEF StrictSubsetOrdering

(* SumFunction is a recursive function on the subsets of the domain. *)
Summing(f, g) == g = [s \in SUBSET DOMAIN f |->
                        IF s = {} THEN 0
                        ELSE LET x == CHOOSE x \in s : TRUE IN f[x] + g[s \ {x}]]

LEMMA SumIsChosen ==
  ASSUME NEW f
  PROVE  SumFunction(f) = (CHOOSE g : Summing(f, g))[DOMAIN f]
BY DEF SumFunction, SumFunctionOnSet, FoldFunctionOnSet, MapThenFoldSet, Summing

LEMMA SummingUnique ==
  ASSUME NEW f, IsFiniteSet(DOMAIN f), NEW g, NEW h, Summing(f, g), Summing(f, h)
  PROVE  g[DOMAIN f] = h[DOMAIN f]
<1> DEFINE Bad == {s \in SUBSET DOMAIN f : g[s] # h[s]}
<1>1. SUFFICES ASSUME g[DOMAIN f] # h[DOMAIN f] PROVE FALSE
  OBVIOUS
<1>2. DOMAIN f \in Bad
  BY <1>1
<1>3. PICK s \in Bad : \A n \in Bad : n \subseteq s => n = s
  <2>1. Bad \in SUBSET SUBSET DOMAIN f /\ Bad # {}
    BY <1>2
  <2> HIDE DEF Bad
  <2> QED  BY <2>1, SmallestSubset
<1> DEFINE x == CHOOSE x \in s : TRUE
<1>4. ASSUME s # {} PROVE x \in s /\ s \ {x} \notin Bad
  BY <1>3, <1>4
<1>5. ASSUME s # {} PROVE g[s \ {x}] = h[s \ {x}]
  BY <1>3, <1>4, <1>5
<1>6. /\ g[s] = IF s = {} THEN 0 ELSE f[x] + g[s \ {x}]
      /\ h[s] = IF s = {} THEN 0 ELSE f[x] + h[s \ {x}]
  BY <1>3 DEF Summing
<1> QED  BY <1>3, <1>5, <1>6

(* The sum of the cardinalities of disjoint sets is that of their union. *)
LEMMA SumOfCardinalities ==
  ASSUME NEW f, IsFiniteSet(DOMAIN f), NEW U, IsFiniteSet(U),
         NEW C, \A x \in DOMAIN f : C[x] \in SUBSET U /\ f[x] = Cardinality(C[x]),
         \A x, y \in DOMAIN f : x # y => C[x] \cap C[y] = {}
  PROVE  SumFunction(f) = Cardinality(UNION {C[x] : x \in DOMAIN f})
<1> DEFINE All(s) == UNION {C[x] : x \in s}
           h == [s \in SUBSET DOMAIN f |-> Cardinality(All(s))]
<1>1. ASSUME NEW s \in SUBSET DOMAIN f, NEW x \in s
      PROVE  Cardinality(All(s)) = f[x] + Cardinality(All(s \ {x}))
  <2>1. All(s) = C[x] \cup All(s \ {x})
    OBVIOUS
  <2>2. C[x] \cap All(s \ {x}) = {}
    OBVIOUS
  <2>3. IsFiniteSet(C[x]) /\ IsFiniteSet(All(s \ {x}))
    <3>1. C[x] \in SUBSET U /\ All(s \ {x}) \in SUBSET U
      OBVIOUS
    <3> HIDE DEF All
    <3> QED  BY <3>1, FS_Subset
  <2> HIDE DEF All
  <2>4. Cardinality(C[x] \cup All(s \ {x})) = Cardinality(C[x]) + Cardinality(All(s \ {x})) - 0
    <3>1. Cardinality(C[x] \cap All(s \ {x})) = 0
      BY <2>2, FS_EmptySet
    <3> QED  BY <2>3, <3>1, FS_Union
  <2>5. f[x] = Cardinality(C[x]) /\ Cardinality(C[x]) \in Nat /\ Cardinality(All(s \ {x})) \in Nat
    BY <2>3, FS_CardinalityType
  <2> QED  BY <2>1, <2>4, <2>5
<1>2. All({}) = {}
  OBVIOUS
<1>3. Summing(f, h)
  <2>1. ASSUME NEW s \in SUBSET DOMAIN f
        PROVE  h[s] = IF s = {} THEN 0
                      ELSE LET x == CHOOSE x \in s : TRUE IN f[x] + h[s \ {x}]
    <3>1. CASE s = {}
      BY <1>2, <3>1, FS_EmptySet
    <3>2. CASE s # {}
      <4> DEFINE x == CHOOSE x \in s : TRUE
      <4>1. x \in s /\ s \ {x} \in SUBSET DOMAIN f
        BY <3>2
      <4> HIDE DEF All
      <4> QED  BY <1>1, <3>2, <4>1
    <3> QED  BY <3>1, <3>2
  <2> HIDE DEF All
  <2> QED  BY <2>1 DEF Summing
<1>4. Summing(f, CHOOSE g : Summing(f, g))
  <2> HIDE DEF h
  <2> QED  BY <1>3
<1>5. SumFunction(f) = h[DOMAIN f]
  <2> HIDE DEF h
  <2> QED  BY <1>3, <1>4, SummingUnique, SumIsChosen
<1> QED  BY <1>5

-----------------------------------------------------------------------------
(* The numbers of a report fit each other.                                 *)

FiniteDicts == \A l \in Lifespans, d \in Dicts : IsFiniteSet(DOMAIN counts[l][d])

(* An invocation counts its operation first and nothing of it twice over:  *)
(* one operation, one error, a hit or a miss.                              *)
OneStory ==
  \A t \in Request :
    /\ t \in InFlight => <<t, "ops", op[t]>> \in log
    /\ \A d, k : <<t, d, k>> \in log => <<t, "ops", op[t]>> \in log
    /\ \A k : <<t, "ops", k>> \in log => k = op[t]
    /\ \A j, k : <<t, "errors", j>> \in log /\ <<t, "errors", k>> \in log => j = k
    /\ ~ (<<t, "cache", "hits">> \in log /\ <<t, "cache", "misses">> \in log)

(* What a scrape saw finished counts nothing more. *)
Over(t) == t \notin InFlight /\ pc[t] # "idle"

Settled(scrape) ==
  \A t \in Request : \A d, k : t \notin scrape.inFlight /\ <<t, d, k>> \in scrape.log =>
    /\ Over(t)
    /\ \A e, j : <<t, e, j>> \in log => <<t, e, j>> \in scrape.log

SInv ==
  /\ FiniteDicts /\ OneStory
  /\ step \in {"locust", "scrape"} =>
       /\ Settled(start)
       /\ start.inFlight \subseteq Request
       /\ \A d \in Dicts : IsFiniteSet(DOMAIN start.stats[d])
  /\ report # None => step = "written" /\ ReportSound

(* A step of one invocation that counts. *)
LEMMA StoryCounted ==
  ASSUME OneStory, Fresh, NEW t \in Request, NEW l, NEW d, NEW k, NEW place,
         Count(t, l, d, k), Goto(t, place), UNCHANGED op,
         \/ pc[t] = "idle" /\ d = "ops" /\ k = op[t]
         \/ t \in InFlight /\ d = "errors"
         \/ t \in InFlight /\ d = "cache" /\ k = "invalidations"
         \/ pc[t] = "lookup" /\ d = "cache" /\ k \in {"hits", "misses"}
  PROVE  OneStory'
<1>1. \A u \in Request : u # t => (u \in InFlight' <=> u \in InFlight)
  BY DEF Goto, Fresh, InFlight
<1>2. \A u \in Request : \A e, j :
        <<u, e, j>> \in log' <=> <<u, e, j>> \in log \/ (u = t /\ e = d /\ j = k)
  BY DEF Count
<1>3. ASSUME NEW u \in Request, u # t
      PROVE  /\ u \in InFlight' => <<u, "ops", op'[u]>> \in log'
             /\ \A e, j : <<u, e, j>> \in log' => <<u, "ops", op'[u]>> \in log'
             /\ \A j : <<u, "ops", j>> \in log' => j = op'[u]
             /\ \A i, j : <<u, "errors", i>> \in log' /\ <<u, "errors", j>> \in log' => i = j
             /\ ~ (<<u, "cache", "hits">> \in log' /\ <<u, "cache", "misses">> \in log')
  BY <1>1, <1>2, <1>3 DEF OneStory
<1>4. <<t, "ops", op[t]>> \in log'
  <2>1. t \in InFlight => <<t, "ops", op[t]>> \in log
    BY DEF OneStory
  <2>2. pc[t] = "lookup" => t \in InFlight
    BY DEF InFlight
  <2> QED  BY <1>2, <2>1, <2>2
<1>5. ASSUME NEW j, <<t, "ops", j>> \in log' PROVE j = op[t]
  <2>1. <<t, "ops", j>> \in log \/ ("ops" = d /\ j = k)
    BY <1>2, <1>5
  <2>2. <<t, "ops", j>> \in log => j = op[t]
    BY DEF OneStory
  <2> QED  BY <2>1, <2>2
<1>6. ASSUME NEW i, NEW j, <<t, "errors", i>> \in log', <<t, "errors", j>> \in log'
      PROVE  i = j
  <2>1. /\ <<t, "errors", i>> \in log \/ ("errors" = d /\ i = k)
        /\ <<t, "errors", j>> \in log \/ ("errors" = d /\ j = k)
    BY <1>2, <1>6
  <2>2. <<t, "errors", i>> \in log /\ <<t, "errors", j>> \in log => i = j
    BY DEF OneStory
  <2>3. ASSUME d = "errors", NEW e PROVE <<t, "errors", e>> \notin log
    BY <2>3 DEF Fresh, InFlight
  <2> QED  BY <2>1, <2>2, <2>3
<1>7. ~ (<<t, "cache", "hits">> \in log' /\ <<t, "cache", "misses">> \in log')
  <2>1. ~ (<<t, "cache", "hits">> \in log /\ <<t, "cache", "misses">> \in log)
    BY DEF OneStory
  <2>2. ASSUME pc[t] = "lookup", NEW j PROVE <<t, "cache", j>> \notin log
    BY <2>2 DEF Fresh
  <2>3. \A j : <<t, "cache", j>> \in log' => <<t, "cache", j>> \in log \/ ("cache" = d /\ j = k)
    BY <1>2
  <2> QED  BY <2>1, <2>2, <2>3
<1> QED  BY <1>3, <1>4, <1>5, <1>6, <1>7 DEF OneStory

LEMMA FiniteCounted ==
  ASSUME FiniteDicts, Shaped, NEW t, NEW l \in Lifespans, NEW d \in Dicts, NEW k,
         Count(t, l, d, k)
  PROVE  FiniteDicts'
<1> SUFFICES ASSUME NEW m \in Lifespans, NEW e \in Dicts
             PROVE  IsFiniteSet(DOMAIN counts'[m][e])
  BY DEF FiniteDicts
<1>1. IsFiniteSet(DOMAIN counts[m][e])
  BY DEF FiniteDicts
<1>2. CASE m = l /\ e = d
  <2>1. counts'[m][e] = Bump(counts[l][d], k)
    BY <1>2 DEF Count, Shaped
  <2>2. DOMAIN Bump(counts[l][d], k) = DOMAIN counts[l][d] \cup {k}
    BY Bumped
  <2> QED  BY <1>1, <1>2, <2>1, <2>2, FS_AddElement
<1>3. CASE ~ (m = l /\ e = d)
  <2>1. counts'[m][e] = counts[m][e]
    BY <1>3 DEF Count, Shaped
  <2> QED  BY <1>1, <2>1
<1> QED  BY <1>2, <1>3

(* A finished invocation takes no step, and no other counts for it. *)
Settling ==
  \A u \in Request : Over(u) =>
    /\ Over(u)'
    /\ \A d, k : <<u, d, k>> \in log' => <<u, d, k>> \in log

LEMMA HandleStory ==
  ASSUME Lifetimes, Shaped, Fresh, FiniteDicts, OneStory, NEW t \in Request, Handle(t)
  PROVE  FiniteDicts' /\ OneStory' /\ Settling
<1>1. ASSUME NEW place, Goto(t, place), ~ Over(t),
             \A u \in Request : \A d, k :
               u # t /\ <<u, d, k>> \in log' => <<u, d, k>> \in log
      PROVE  Settling
  BY <1>1 DEF Settling, Over, Goto, InFlight, Fresh
<1>2. ASSUME NEW l \in Lifespans, NEW d \in Dicts, NEW k, NEW place,
             Count(t, l, d, k), Goto(t, place), UNCHANGED op,
             \/ pc[t] = "idle" /\ d = "ops" /\ k = op[t]
             \/ t \in InFlight /\ d = "errors"
             \/ t \in InFlight /\ d = "cache" /\ k = "invalidations"
             \/ pc[t] = "lookup" /\ d = "cache" /\ k \in {"hits", "misses"}
      PROVE  FiniteDicts' /\ OneStory' /\ Settling
  <2>1. FiniteDicts' /\ OneStory'
    BY <1>2, FiniteCounted, StoryCounted
  <2>2. ~ Over(t)
    BY <1>2 DEF Over, InFlight
  <2>3. \A u \in Request : \A e, j :
          u # t /\ <<u, e, j>> \in log' => <<u, e, j>> \in log
    BY <1>2 DEF Count
  <2> QED  BY <1>1, <1>2, <2>1, <2>2, <2>3
<1>3. \A u \in InFlight : app[u] \in Lifespans
  BY DEF Fresh
<1>4. CASE Refuse(t)
  <2>1. /\ Goto(t, "refused") /\ UNCHANGED <<counts, log, op>> /\ ~ Over(t)
    BY <1>4 DEF Refuse, Over
  <2>2. \A u \in Request : u \in InFlight' => u \in InFlight
    BY <2>1 DEF Goto, InFlight, Fresh
  <2>3. FiniteDicts' /\ OneStory'
    BY <2>1, <2>2 DEF FiniteDicts, OneStory
  <2> QED  BY <1>1, <2>1, <2>3
<1>5. CASE Resolve(t)
  <2>1. /\ pc[t] = "resolve" /\ UNCHANGED <<counts, log, op>>
        /\ Goto(t, IF op[t] \in Invalidating THEN "invalidate" ELSE "done")
    BY <1>5 DEF Resolve
  <2>2. t \in InFlight /\ ~ Over(t)
    BY <2>1 DEF InFlight, Over
  <2>3. \A u \in Request : u \in InFlight' => u \in InFlight
    BY <2>1, <2>2 DEF Goto, InFlight, Fresh
  <2>4. FiniteDicts' /\ OneStory'
    BY <2>1, <2>3 DEF FiniteDicts, OneStory
  <2> QED  BY <1>1, <2>1, <2>2, <2>4
<1>6. CASE Dispatch(t)
  <2>1. state["graphql_app"] \in Lifespans /\ "ops" \in Dicts
    BY <1>6, Entries DEF Dispatch, Lifetimes, Phased, Eras, Dicts
  <2> QED  BY <1>2, <1>6, <2>1 DEF Dispatch
<1>7. CASE Hit(t) \/ Miss(t)
  <2>1. t \in InFlight /\ "cache" \in Dicts
    BY <1>7 DEF Hit, Miss, InFlight, Dicts
  <2> QED  BY <1>2, <1>3, <1>7, <2>1 DEF Hit, Miss
<1>8. CASE Invalidate(t)
  <2>1. t \in InFlight /\ "cache" \in Dicts
    BY <1>8 DEF Invalidate, InFlight, Dicts
  <2> QED  BY <1>2, <1>3, <1>8, <2>1 DEF Invalidate
<1>9. ASSUME NEW code \in Code, Raise(t, code) PROVE FiniteDicts' /\ OneStory' /\ Settling
  <2>1. "errors" \in Dicts
    BY DEF Dicts
  <2> QED  BY <1>2, <1>3, <1>9, <2>1 DEF Raise
<1> QED  BY <1>4, <1>5, <1>6, <1>7, <1>8, <1>9 DEF Handle

LEMMA LifeStory ==
  ASSUME Lifetimes, Shaped, Fresh, FiniteDicts, OneStory, LifeNext
  PROVE  FiniteDicts' /\ OneStory' /\ Settling
<1>1. CASE ProcessEnds
  <2>1. /\ UNCHANGED <<counts, log, op>> /\ InFlight' = {}
        /\ \A t \in Request : t \notin InFlight => pc'[t] = pc[t]
    BY <1>1 DEF ProcessEnds, InFlight
  <2>2. FiniteDicts' /\ OneStory'
    BY <2>1 DEF FiniteDicts, OneStory
  <2> QED  BY <2>1, <2>2 DEF Settling, Over
<1>2. ASSUME UNCHANGED work PROVE FiniteDicts' /\ OneStory' /\ Settling
  BY <1>2 DEF work, FiniteDicts, OneStory, Settling, Over, InFlight
<1>3. CASE Enter \/ Boot \/ BootRaises \/ Shutdown \/ PoolClosed \/ RedisClosed \/ CloseRaises
  BY <1>2, <1>3 DEF Enter, Boot, BootRaises, Shutdown, PoolClosed, RedisClosed, CloseRaises
<1> QED  BY <1>1, <1>3, HandleStory DEF LifeNext

(* The invocations that counted something in a dict between the scrapes. *)
Somehow(counted, d) == {t \in Request : \E k : <<t, d, k>> \in counted}

(* A dict in which an invocation has at most one entry adds up to its      *)
(* invocations.                                                            *)
LEMMA DictSum ==
  ASSUME NEW begin, NEW end, Faithful(begin), Faithful(end), end.log = log,
         end.of = begin.of, NEW d \in Dicts,
         IsFiniteSet(DOMAIN begin.stats[d]), IsFiniteSet(DOMAIN end.stats[d]),
         \A t \in Request : \A j, k : <<t, d, j>> \in log /\ <<t, d, k>> \in log => j = k,
         NEW counted, counted = {e \in end.log \ begin.log : app[e[1]] = end.of}
  PROVE  SumFunction(Delta(end.stats[d], begin.stats[d])) = Cardinality(Somehow(counted, d))
<1> DEFINE f == Delta(end.stats[d], begin.stats[d])
           By(k) == {t \in Request : <<t, d, k>> \in counted}
           C == [k \in DOMAIN f |-> By(k)]
<1>1. \A k : ValueOf(f, k) = Cardinality(By(k))
  BY Difference
<1>2. DOMAIN f = DOMAIN end.stats[d] \cup DOMAIN begin.stats[d] /\ IsFiniteSet(DOMAIN f)
  BY FS_Union DEF Delta
<1>3. \A k \in DOMAIN f : C[k] \in SUBSET Request /\ f[k] = Cardinality(C[k])
  BY <1>1 DEF ValueOf
<1>4. ASSUME NEW j \in DOMAIN f, NEW k \in DOMAIN f, j # k PROVE C[j] \cap C[k] = {}
  BY <1>4
<1>5. ASSUME NEW t \in Request, NEW k, <<t, d, k>> \in counted PROVE k \in DOMAIN f
  <2>1. t \in By(k) /\ IsFiniteSet(By(k))
    BY <1>5, LifespanAssumption, FS_Subset
  <2>2. Cardinality(By(k)) # 0
    <3> HIDE DEF By
    <3> QED  BY <2>1, FS_EmptySet
  <2> QED  BY <1>1, <2>2 DEF ValueOf
<1>6. UNION {C[k] : k \in DOMAIN f} = Somehow(counted, d)
  <2>1. \A k \in DOMAIN f : C[k] = By(k) /\ By(k) \subseteq Somehow(counted, d)
    BY DEF Somehow
  <2>2. \A t \in Somehow(counted, d) : \E k \in DOMAIN f : t \in By(k)
    BY <1>5 DEF Somehow
  <2> HIDE DEF f, By, C
  <2> QED  BY <2>1, <2>2
<1>7. SumFunction(f) = Cardinality(UNION {C[k] : k \in DOMAIN f})
  <2> HIDE DEF f, C
  <2> QED  BY <1>2, <1>3, <1>4, LifespanAssumption, SumOfCardinalities
<1> QED  BY <1>6, <1>7

LEMMA AtMost ==
  ASSUME NEW A \in SUBSET Request, NEW B \in SUBSET Request, NEW C \in SUBSET (A \cup B)
  PROVE  Cardinality(C) <= Cardinality(A) + Cardinality(B)
<1>1. IsFiniteSet(A) /\ IsFiniteSet(B) /\ IsFiniteSet(A \cup B)
  BY LifespanAssumption, FS_Subset, FS_Union
<1>2. Cardinality(C) <= Cardinality(A \cup B)
  BY <1>1, FS_Subset
<1>3. Cardinality(A \cup B) = Cardinality(A) + Cardinality(B) - Cardinality(A \cap B)
  BY <1>1, FS_Union
<1>4. Cardinality(A \cap B) \in Nat
  BY <1>1, FS_Subset, FS_CardinalityType
<1>5. /\ Cardinality(A) \in Nat /\ Cardinality(B) \in Nat
      /\ Cardinality(C) \in Nat /\ Cardinality(A \cup B) \in Nat
  BY <1>1, FS_Subset, FS_CardinalityType
<1> QED  BY <1>2, <1>3, <1>4, <1>5

LEMMA ScrapedFinite ==
  ASSUME Lifetimes, FiniteDicts, phase = "up", NEW scrape \in Scraped, NEW d \in Dicts
  PROVE  IsFiniteSet(DOMAIN scrape.stats[d])
<1>1. scrape.stats = Payload
  BY DEF Scraped
<1>2. /\ state["counters"] = current /\ state["request_counters"] = current
      /\ state["registry"] = current
      /\ current \in Lifespans /\ current # Absent
  BY Entries, EraFacts DEF Lifetimes, Phased, StatsOfServingApp, NothingServedBetween
<1>3. Payload[d] = counts[current][d]
  BY <1>2 DEF Payload, Dicts
<1> QED  BY <1>1, <1>2, <1>3 DEF FiniteDicts

LEMMA ReportSums ==
  ASSUME IInv, SInv, WriteReport
  PROVE  ReportSound'
<1> SUFFICES ASSUME Measured' PROVE ReportSound'
  BY DEF ReportSound
<1>1. PICK end \in Scraped :
        report' = [cell |-> BuildReport(end.stats, start.stats),
                   restarted |-> end.of # start.of,
                   counted |-> {e \in end.log \ start.log : app[e[1]] = end.of}]
  BY DEF WriteReport
<1>2. Faithful(end) /\ end.log = log /\ Faithful(start)
  BY ScrapedFaithful DEF IInv, WriteReport
<1>3. end.of = start.of
  BY <1>1 DEF Measured
<1>4. /\ Settled(start) /\ start.inFlight \subseteq Request
      /\ \A d \in Dicts : IsFiniteSet(DOMAIN start.stats[d])
  BY DEF SInv, WriteReport
<1>5. \A d \in Dicts : IsFiniteSet(DOMAIN end.stats[d])
  BY ScrapedFinite DEF IInv, SInv, WriteReport
<1> DEFINE counted == {e \in end.log \ start.log : app[e[1]] = end.of}
           ops == Somehow(counted, "ops")
           errors == Somehow(counted, "errors")
           hits == {t \in Request : <<t, "cache", "hits">> \in counted}
           misses == {t \in Request : <<t, "cache", "misses">> \in counted}
           inFlight == start.inFlight
<1>6. "cache" \in Dicts /\ "errors" \in Dicts /\ "ops" \in Dicts
  BY DEF Dicts
<1>7. SumFunction(report'.cell.ops) = Cardinality(ops)
  <2>1. report'.cell.ops = Delta(end.stats["ops"], start.stats["ops"])
    BY <1>1 DEF BuildReport
  <2>2. \A t \in Request : \A j, k : <<t, "ops", j>> \in log /\ <<t, "ops", k>> \in log => j = k
    BY DEF SInv, OneStory
  <2> HIDE DEF counted
  <2>3. SumFunction(Delta(end.stats["ops"], start.stats["ops"])) = Cardinality(Somehow(counted, "ops"))
    BY <1>2, <1>3, <1>4, <1>5, <1>6, <2>2, DictSum DEF counted
  <2> QED  BY <2>1, <2>3
<1>8. SumFunction(report'.cell.errors) = Cardinality(errors)
  <2>1. report'.cell.errors = Delta(end.stats["errors"], start.stats["errors"])
    BY <1>1 DEF BuildReport
  <2>2. \A t \in Request : \A j, k :
          <<t, "errors", j>> \in log /\ <<t, "errors", k>> \in log => j = k
    BY DEF SInv, OneStory
  <2> HIDE DEF counted
  <2>3. SumFunction(Delta(end.stats["errors"], start.stats["errors"])) =
          Cardinality(Somehow(counted, "errors"))
    BY <1>2, <1>3, <1>4, <1>5, <1>6, <2>2, DictSum DEF counted
  <2> QED  BY <2>1, <2>3
<1>9. report'.cell.hits = Cardinality(hits) /\ report'.cell.misses = Cardinality(misses)
  <2>1. /\ report'.cell.hits = Cardinality(With("cache", "hits")')
        /\ report'.cell.misses = Cardinality(With("cache", "misses")')
    BY ReportExact DEF DeltaExact
  <2>2. With("cache", "hits")' = hits /\ With("cache", "misses")' = misses
    BY <1>1 DEF With
  <2> QED  BY <2>1, <2>2
(* Whoever counted in between began in between or was under way.           *)
<1>10. ASSUME NEW t \in Request, NEW d, NEW k, <<t, d, k>> \in counted
       PROVE  t \in ops \cup inFlight
  <2>1. <<t, d, k>> \in log /\ <<t, d, k>> \notin start.log /\ app[t] = end.of
    BY <1>2, <1>10
  <2>2. <<t, "ops", op[t]>> \in log
    BY <2>1 DEF SInv, OneStory
  <2>3. CASE <<t, "ops", op[t]>> \in start.log
    BY <1>4, <2>1, <2>3 DEF Settled
  <2>4. CASE <<t, "ops", op[t]>> \notin start.log
    <3>1. <<t, "ops", op[t]>> \in counted
      BY <1>2, <2>1, <2>2, <2>4
    <3> QED  BY <3>1 DEF Somehow
  <2> QED  BY <2>3, <2>4
<1>11. errors \subseteq ops \cup inFlight /\ hits \cup misses \subseteq ops \cup inFlight
  BY <1>10 DEF Somehow
<1>12. hits \cap misses = {}
  BY <1>2 DEF SInv, OneStory
<1>13. /\ ops \in SUBSET Request /\ hits \in SUBSET Request /\ misses \in SUBSET Request
       /\ inFlight \in SUBSET Request
  BY <1>4 DEF Somehow
<1> HIDE DEF ops, errors, hits, misses, inFlight
<1>14. /\ Cardinality(errors) <= Cardinality(ops) + Cardinality(inFlight)
       /\ Cardinality(hits \cup misses) <= Cardinality(ops) + Cardinality(inFlight)
  BY <1>11, <1>13, AtMost
<1>15. /\ Cardinality(hits) \in Nat /\ Cardinality(misses) \in Nat
       /\ Cardinality(hits \cup misses) = Cardinality(hits) + Cardinality(misses)
  <2>1. IsFiniteSet(hits) /\ IsFiniteSet(misses) /\ Cardinality(hits \cap misses) = 0
    BY <1>12, <1>13, LifespanAssumption, FS_Subset, FS_EmptySet
  <2>2. Cardinality(hits \cup misses) =
          Cardinality(hits) + Cardinality(misses) - Cardinality(hits \cap misses)
    BY <2>1, FS_Union
  <2> QED  BY <2>1, <2>2, FS_CardinalityType
<1>16. start'.inFlight = inFlight
  BY DEF WriteReport, inFlight
<1> QED  BY <1>7, <1>8, <1>9, <1>14, <1>15, <1>16 DEF ReportSound

LEMMA InitStory == MeasureInit => SInv
<1> SUFFICES ASSUME MeasureInit PROVE SInv
  OBVIOUS
<1>1. /\ counts = [l \in Lifespans |-> NoCounts] /\ log = {} /\ InFlight = {}
      /\ step = "begin" /\ report = None
  BY DEF MeasureInit, Init, InFlight
<1>2. FiniteDicts
  <2>1. ASSUME NEW d \in Dicts PROVE IsFiniteSet(DOMAIN NoCounts[d])
    <3>1. DOMAIN NoCounts[d] \in {{}, {"hits", "misses", "invalidations"}}
      BY DEF NoCounts, Dicts
    <3>2. IsFiniteSet({"hits", "misses", "invalidations"})
      <4>1. IsFiniteSet({"hits"} \cup {"misses"} \cup {"invalidations"})
        BY FS_Singleton, FS_Union
      <4>2. {"hits"} \cup {"misses"} \cup {"invalidations"} = {"hits", "misses", "invalidations"}
        OBVIOUS
      <4> QED  BY <4>1, <4>2
    <3> QED  BY <3>1, <3>2, FS_EmptySet
  <2> QED  BY <1>1, <2>1 DEF FiniteDicts
<1> QED  BY <1>1, <1>2 DEF SInv, OneStory

LEMMA NextStory == IInv /\ SInv /\ [Next]_vars => SInv'
<1> SUFFICES ASSUME IInv, SInv, [Next]_vars PROVE SInv'
  OBVIOUS
<1>1. ASSUME UNCHANGED <<start, report>> PROVE report' # None => report # None /\ ReportSound'
  BY <1>1 DEF SInv, ReportSound, Measured
<1>2. CASE LifeNext /\ UNCHANGED <<step, start, report>>
  <2>1. FiniteDicts' /\ OneStory' /\ Settling
    BY <1>2, LifeStory DEF IInv, SInv
  <2>2. Settled(start) => Settled(start)'
    BY <1>2, <2>1 DEF Settled, Settling
  <2> QED  BY <1>1, <1>2, <2>1, <2>2 DEF SInv
<1>3. ASSUME UNCHANGED lifeVars PROVE FiniteDicts' /\ OneStory'
  BY <1>3 DEF lifeVars, work, SInv, FiniteDicts, OneStory, InFlight
<1>4. ASSUME UNCHANGED <<lifeVars, start>>, Settled(start) PROVE Settled(start)'
  BY <1>4 DEF lifeVars, work, Settled, Over, InFlight
<1>5. CASE ScrapeStart
  <2>1. start' \in Scraped /\ UNCHANGED lifeVars /\ report = None /\ report' = None
    BY <1>5 DEF ScrapeStart, SInv
  <2>2. \A d \in Dicts : IsFiniteSet(DOMAIN start'.stats[d])
    BY <1>5, <2>1, ScrapedFinite DEF ScrapeStart, IInv, SInv
  <2>3. start'.inFlight = InFlight /\ start'.log = log
    BY <2>1 DEF Scraped
  <2>4. Settled(start)'
    <3> SUFFICES ASSUME NEW t \in Request, NEW d, NEW k, t \notin start'.inFlight,
                        <<t, d, k>> \in start'.log
                 PROVE  Over(t)' /\ \A e, j : <<t, e, j>> \in log' => <<t, e, j>> \in start'.log
      BY DEF Settled
    <3>1. Over(t) /\ log' = log /\ pc' = pc
      BY <2>1, <2>3 DEF Over, IInv, Fresh, lifeVars, work
    <3> QED  BY <2>3, <3>1 DEF Over, InFlight
  <2>5. start'.inFlight \subseteq Request
    BY <2>3 DEF InFlight
  <2> QED  BY <1>3, <2>1, <2>2, <2>4, <2>5 DEF SInv
<1>6. CASE Locust \/ RunnerFails \/ UNCHANGED vars
  <2>1. /\ UNCHANGED <<lifeVars, start, report>>
        /\ step' \in {"locust", "scrape"} => step \in {"locust", "scrape"}
        /\ step' = "written" \/ step # "written"
    BY <1>6 DEF Locust, RunnerFails, vars
  <2> QED  BY <1>1, <1>3, <1>4, <2>1 DEF SInv
<1>7. CASE WriteReport
  <2>1. step' = "written" /\ UNCHANGED lifeVars
    BY <1>7 DEF WriteReport
  <2> QED  BY <1>3, <1>7, <2>1, ReportSums DEF SInv
<1> QED  BY <1>2, <1>5, <1>6, <1>7 DEF Next

(* The numbers of a report fit each other: no hits below none, no more     *)
(* errors and no more lookups than the invocations it counts and those     *)
(* that were under way at the first scrape, for any number of them, of     *)
(* operations and of restarts outside the run.                             *)
THEOREM Sound == Spec => []ReportSound
<1>1. IInv /\ SInv /\ [Next]_vars => (IInv /\ SInv)'
  BY NextInv, NextStory
<1>2. IInv /\ SInv => ReportSound
  BY DEF SInv, ReportSound, Measured
<1> QED  BY InitInv, InitStory, <1>1, <1>2, PTL DEF Spec
=============================================================================
