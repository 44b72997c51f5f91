----------------------------- MODULE Measurement -----------------------------
(***************************************************************************)
(* loadtest/runner.py beside the framework: a scrape of /stats, a locust   *)
(* run, another scrape, and the report made of their differences.          *)
(***************************************************************************)
EXTENDS Lifespan, Functions

CONSTANT None

VARIABLES
  step,
  start,   \* the first scrape
  report

vars == <<lifeVars, step, start, report>>

(* What a scrape saw: the payload, and for the properties whose counters   *)
(* these were, what had counted, and what was under way.                   *)
Scraped == [stats : {Payload}, of : {state["counters"]}, log : {log}, inFlight : {InFlight}]

MeasureInit == Init /\ step = "begin" /\ start = None /\ report = None

(* The server listens while the application is up. *)
ScrapeStart ==
  /\ step = "begin" /\ phase = "up"
  /\ step' = "locust"
  /\ start' \in Scraped
  /\ UNCHANGED <<lifeVars, report>>

Locust ==
  /\ step = "locust"
  /\ step' = "scrape"
  /\ UNCHANGED <<lifeVars, start, report>>

(* No answer from /stats, a non-zero exit of locust, or no CSV. *)
RunnerFails ==
  /\ step \in {"begin", "locust", "scrape"}
  /\ step' = "failed"
  /\ UNCHANGED <<lifeVars, start, report>>

(* Mutant: the keys of the first dict only. *)
DeltaOfStartKeys(end, begin) == [k \in DOMAIN begin |-> ValueOf(end, k) - ValueOf(begin, k)]

(* _delta_int_dict *)
Delta(end, begin) ==
  [k \in DOMAIN end \cup DOMAIN begin |-> ValueOf(end, k) - ValueOf(begin, k)]

BuildReport(end, begin) ==
  LET cache == Delta(end.cache, begin.cache) IN
  [hits |-> cache["hits"],
   misses |-> cache["misses"],
   sets |-> cache["hits"] + cache["misses"],
   invalidations |-> cache["invalidations"],
   ops |-> Delta(end.ops, begin.ops),
   errors |-> Delta(end.errors, begin.errors)]

WriteReport ==
  /\ step = "scrape" /\ phase = "up"
  /\ step' = "written"
  /\ \E end \in Scraped :
       report' = [cell |-> BuildReport(end.stats, start.stats),
                  restarted |-> end.of # start.of,
                  counted |-> {e \in end.log \ start.log : app[e[1]] = end.of}]
  /\ UNCHANGED <<lifeVars, start>>

Next ==
  \/ LifeNext /\ UNCHANGED <<step, start, report>>
  \/ ScrapeStart \/ Locust \/ RunnerFails \/ WriteReport

Spec == MeasureInit /\ [][Next]_vars

-----------------------------------------------------------------------------
Measured == report # None /\ ~ report.restarted

(* The invocations that counted this between the scrapes. *)
With(dict, k) == {t \in Request : <<t, dict, k>> \in report.counted}

(* The report has what the measured application did between the two        *)
(* scrapes, each invocation and each event once, also for operations and   *)
(* errors first seen in between.                                           *)
DeltaExact ==
  Measured =>
    /\ report.cell.hits = Cardinality(With("cache", "hits"))
    /\ report.cell.misses = Cardinality(With("cache", "misses"))
    /\ report.cell.invalidations = Cardinality(With("cache", "invalidations"))
    /\ \A code \in Code :
         ValueOf(report.cell.errors, code) = Cardinality(With("errors", code))
    /\ \A o \in Operation : ValueOf(report.cell.ops, o) = Cardinality(With("ops", o))

(* Its numbers fit each other: none is negative, so hit_ratio is a ratio,  *)
(* and errors and lookups belong to invocations it counts or that were     *)
(* under way at the first scrape.  A framework that came back between the  *)
(* scrapes with new counters breaks each of these.                         *)
ReportSound ==
  Measured =>
    LET known == SumFunction(report.cell.ops) + Cardinality(start.inFlight) IN
    /\ report.cell.hits >= 0 /\ report.cell.misses >= 0
    /\ SumFunction(report.cell.errors) <= known
    /\ report.cell.hits + report.cell.misses <= known
=============================================================================
