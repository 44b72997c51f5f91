-------------------------- MODULE ExperimentMatrix --------------------------
(***************************************************************************)
(* scripts/run_matrix.sh, the Makefile target experiment it calls once per *)
(* cell, and loadtest/runner.py which that starts: containers, caches,     *)
(* report files and the list of reports of a matrix run.  Any command may  *)
(* fail; make experiment ends with `rm -f .env`, so it never does.         *)
(***************************************************************************)
EXTENDS Integers, Sequences, SequencesExt

CONSTANTS Cell,      \* the cells, in the order of the loops
          UsesRedis, \* cells with BACKEND=redis
          MaxRuns    \* bound on runs of the script over one reports directory

ASSUME MatrixAssumption ==
  /\ Cell \in Seq(ToSet(Cell)) \ {<<>>}
  /\ IsInjective(Cell)
  /\ UsesRedis \subseteq ToSet(Cell)
  /\ MaxRuns \in Nat \ {0}

VARIABLES
  run, cell,  \* number of the matrix run, place in Cell
  step,
  framework,  \* the cell whose YAML the container booted with, or Down
  redis,      \* Redis holds entries
  reports,    \* files under reports/
  list,       \* run -> the reports in its .matrix-<ts>.list
  \* history, read by properties only
  unflushed,  \* a FLUSHDB failed since the last one that worked
  excused     \* an earlier container stayed, or .env could not be written

history == <<unflushed, excused>>
vars == <<run, cell, step, framework, redis, reports, list, history>>

Down == 0
Up == framework # Down

Init ==
  /\ run = 1 /\ cell = 1 /\ step = "begin"
  /\ framework = Down
  /\ redis \in BOOLEAN
  /\ reports = {}
  /\ list = [r \in 1 .. MaxRuns |-> <<>>]
  /\ unflushed = FALSE /\ excused = FALSE

Advance(from, to) ==
  /\ run <= MaxRuns
  /\ step = from
  /\ step' = to

-----------------------------------------------------------------------------
(* make experiment.                                                        *)

(* Mutant: a container that is up is not touched. *)
RecreateOnlyIfDown ==
  /\ Advance("begin", "flush")
  /\ framework' \in IF Up THEN {framework} ELSE {cell, Down}
  /\ excused' = FALSE
  /\ UNCHANGED <<run, cell, redis, reports, list, unflushed>>

(* echo > .env, stop, rm -f, up -d --force-recreate; then the container    *)
(* boots, or not.  The old one stays only when the last three fail; when   *)
(* the first does, the new one may boot with another YAML, the default or  *)
(* that of a .env left behind by an interrupt.                             *)
Recreate ==
  /\ Advance("begin", "flush")
  /\ \/ framework' \in {cell, Down} /\ excused' = FALSE
     \/ framework' = framework /\ excused' = Up
     \/ framework' \in DOMAIN Cell \ {cell} /\ excused' = TRUE
  /\ UNCHANGED <<run, cell, redis, reports, list, unflushed>>

(* redis-cli FLUSHDB || true *)
FlushDb ==
  \/ redis' = FALSE /\ unflushed' = FALSE
  \/ redis' = redis /\ unflushed' = TRUE

(* Mutant: no FLUSHDB in make experiment, the script has one. *)
FlushBeforeSkipped ==
  /\ Advance("flush", "scrape")
  /\ UNCHANGED <<run, cell, framework, redis, reports, list, history>>

FlushBefore ==
  /\ Advance("flush", "scrape")
  /\ FlushDb
  /\ UNCHANGED <<run, cell, framework, reports, list, excused>>

(* The runner starts by scraping /stats. *)
Scrape ==
  /\ Advance("scrape", "load")
  /\ Up
  /\ UNCHANGED <<run, cell, framework, redis, reports, list, history>>

(* locust loads the framework, which may die of it. *)
Load ==
  /\ Advance("load", "rescrape")
  /\ framework' \in {framework, Down}
  /\ redis' = (redis \/ Cell[framework] \in UsesRedis)
  /\ UNCHANGED <<run, cell, reports, list, history>>

(* A second scrape, and the report file: the name has the cell and the     *)
(* time, the contents have what was measured.                              *)
Rescrape ==
  /\ Advance("rescrape", "collect")
  /\ Up
  /\ \E complete \in BOOLEAN : \* write_text may raise half way
       reports' = reports \cup {[run |-> run, cell |-> cell, complete |-> complete,
                                of |-> framework, excused |-> excused]}
  /\ UNCHANGED <<run, cell, framework, redis, list, history>>

(* /stats does not answer in time, or locust exits non-zero: no report,    *)
(* and make experiment succeeds all the same.                              *)
RunnerFails ==
  /\ Advance("scrape", "collect") \/ Advance("rescrape", "collect")
  /\ UNCHANGED <<run, cell, framework, redis, reports, list, history>>

-----------------------------------------------------------------------------
(* run_cell, after make experiment.                                        *)

NextCell ==
  /\ cell' = IF cell = Len(Cell) THEN 1 ELSE cell + 1
  /\ run' = IF cell = Len(Cell) THEN run + 1 ELSE run

Matching == {r \in reports : r.cell = cell}

(* Mutant: head -n1. *)
CollectOldest ==
  /\ Advance("collect", "hygiene")
  /\ \E oldest \in Matching :
       /\ \A r \in Matching : oldest.run <= r.run
       /\ list' = [list EXCEPT ![run] = Append(@, oldest)]
  /\ UNCHANGED <<run, cell, framework, redis, reports, history>>

(* ls reports/report-<cell>-*.json | sort | tail -n1 *)
Collect ==
  /\ Advance("collect", "hygiene")
  /\ \E newest \in Matching :
       /\ \A r \in Matching : r.run <= newest.run
       /\ list' = [list EXCEPT ![run] = Append(@, newest)]
  /\ UNCHANGED <<run, cell, framework, redis, reports, history>>

(* No report: a warning, and on to the next cell without the hygiene. *)
CollectNothing ==
  /\ Advance("collect", "begin")
  /\ Matching = {}
  /\ NextCell
  /\ UNCHANGED <<framework, redis, reports, list, history>>

FlushAfter ==
  /\ Advance("hygiene", "restart")
  /\ FlushDb
  /\ UNCHANGED <<run, cell, framework, reports, list, excused>>

(* compose restart || true: the same container, or none. *)
RestartFramework ==
  /\ Advance("restart", "begin")
  /\ framework' \in {framework, Down}
  /\ NextCell
  /\ UNCHANGED <<redis, reports, list, history>>

(* The user stops the script, and starts it again when he likes. *)
Interrupt ==
  /\ run <= MaxRuns
  /\ run' = run + 1 /\ cell' = 1 /\ step' = "begin"
  /\ UNCHANGED <<framework, redis, reports, list, history>>

MatrixNext ==
  \/ Recreate \/ FlushBefore \/ Scrape \/ Load \/ Rescrape \/ RunnerFails
  \/ Collect \/ CollectNothing \/ FlushAfter \/ RestartFramework
  \/ Interrupt

Spec == Init /\ [][MatrixNext]_vars

-----------------------------------------------------------------------------
(* A report is labelled with the cell whose YAML the framework had booted  *)
(* with, whatever failed in earlier cells, unless in this cell the old     *)
(* container could not be taken away or .env could not be written.         *)
MeasuredAsLabelled == \A r \in reports : r.of # r.cell => r.excused

(* "so cache state from the previous cell doesn't bleed into this one": a  *)
(* load starts on an empty Redis unless FLUSHDB itself failed, also after  *)
(* a cell that failed and left run_cell before its hygiene.                *)
ColdStart == (step = "load" /\ redis) => unflushed

(* The list of a run has the cells in their order, none twice, and a       *)
(* report of an earlier run only for a cell whose own runner wrote none:   *)
(* run_cell never looks at before_ts, so a failed cell shows its last      *)
(* success as if it had just been measured.                                *)
ListExplained ==
  \A n \in 1 .. MaxRuns : \A i \in DOMAIN list[n] :
    /\ \A j \in 1 .. i - 1 : list[n][j].cell < list[n][i].cell
    /\ list[n][i].run # n =>
         \A r \in reports : r.cell = list[n][i].cell => r.run # n
=============================================================================
