---------------------------- MODULE MatrixReport ----------------------------
(***************************************************************************)
(* make report beside the matrix: scripts/build_report.py reads the newest *)
(* .matrix-<ts>.list, writes the summary of its cells and draws the charts *)
(* over those of the report before.  It may be asked for at any time, also *)
(* in the middle of a matrix run, and may fail between two of its files.   *)
(***************************************************************************)
EXTENDS ExperimentMatrix

CONSTANTS Baseline, \* the no_cache cells
          Missing   \* the bar of height 0 of a cell that is not indexed

Report == [run : 1 .. MaxRuns, cell : DOMAIN Cell, complete : BOOLEAN,
           of : Nat, excused : BOOLEAN]

ASSUME ReportAssumption == Missing \notin Report

VARIABLES
  drawn,   \* charts drawn by the make report under way, or Idle
  summary, \* what it read, and wrote as matrix-report-<ts>.json
  charts   \* docs/presentation

reportVars == <<drawn, summary, charts>>

Charts == <<"latency_p95", "hit_ratio", "invalidations", "redis_vs_memory">>
Idle == Len(Charts) + 1

(* _CELL_LABELS_FULL; the last chart compares the two backends. *)
Axis(chart) == DOMAIN Cell \ (IF chart = "redis_vs_memory" THEN Baseline ELSE {})

Unread == [run |-> 0, bars |-> [c \in DOMAIN Cell |-> Missing]]

ReportInit ==
  /\ Init
  /\ drawn = Idle /\ summary = Unread
  /\ charts = [chart \in ToSet(Charts) |-> Unread]

(* ls -t reports/.matrix-*.list | head -1 *)
NewestRun == IF run > MaxRuns THEN MaxRuns ELSE run

(* Mutant: a report that cannot be parsed counts with zeros. *)
LoadCellsLenient(n) == ToSet(list[n])

(* load_cells: what cannot be read or parsed is skipped. *)
LoadCells(n) == {r \in ToSet(list[n]) : r.complete}

(* _index_cells_by_label *)
Indexed(records) ==
  [c \in DOMAIN Cell |->
     IF \E r \in records : r.cell = c THEN CHOOSE r \in records : r.cell = c ELSE Missing]

(* main, as far as the summary; without one valid cell it stops before it. *)
MakeReport ==
  /\ drawn = Idle
  /\ LoadCells(NewestRun) # {}
  /\ drawn' = 0
  /\ summary' = [run |-> NewestRun, bars |-> Indexed(LoadCells(NewestRun))]
  /\ UNCHANGED <<vars, charts>>

DrawChart ==
  /\ drawn < Len(Charts)
  /\ drawn' = drawn + 1
  /\ LET chart == Charts[drawn + 1] IN
     charts' = [charts EXCEPT ![chart] =
                  [summary EXCEPT !.bars = [c \in Axis(chart) |-> summary.bars[c]]]]
  /\ UNCHANGED <<vars, summary>>

(* After the last chart, or with an exception before it. *)
ReportEnds ==
  /\ drawn # Idle
  /\ drawn' = Idle
  /\ UNCHANGED <<vars, summary, charts>>

Next ==
  \/ MatrixNext /\ UNCHANGED reportVars
  \/ MakeReport \/ DrawChart \/ ReportEnds

ReportSpec == ReportInit /\ [][Next]_<<vars, reportVars>>

-----------------------------------------------------------------------------
(* A bar of any chart, however long after, shows a complete report of its  *)
(* own cell: the one of the run it is drawn for, or an earlier one when    *)
(* the runner of that run wrote no file at all.  A bar left out before one *)
(* that is drawn means that the run wrote no complete report of that cell; *)
(* a torn file is never replaced by an older measurement.                  *)
BarsExplained ==
  \A chart \in DOMAIN charts : \A c \in DOMAIN charts[chart].bars :
    LET n == charts[chart].run
        bar == charts[chart].bars[c]
        written == {r \in reports : r.run = n /\ r.cell = c}
    IN  /\ bar # Missing =>
             /\ bar \in reports /\ bar.complete /\ bar.cell = c
             /\ bar \in written \/ (bar.run < n /\ written = {})
        /\ (bar = Missing /\ \E later \in DOMAIN charts[chart].bars :
                               later > c /\ charts[chart].bars[later] # Missing) =>
             \A r \in written : ~ r.complete
=============================================================================
