-------------------------- MODULE MatrixReportProofs --------------------------
(***************************************************************************)
(* The four invariants of the experiment for any sequence of cells and any *)
(* number of matrix runs.  A report is written before its cell is          *)
(* collected and never after, so what a list or a chart says of a cell     *)
(* that has been collected stays true of the files on disk.                *)
(***************************************************************************)
EXTENDS MatrixReport, TLAPS, SequenceTheorems

Shown == [run : Nat, bars : UNION {[cells -> Report \cup {Missing}] : cells \in SUBSET DOMAIN Cell}]

Typed ==
  /\ run \in Nat \ {0} /\ cell \in DOMAIN Cell
  /\ framework \in Nat
  /\ redis \in BOOLEAN /\ unflushed \in BOOLEAN /\ excused \in BOOLEAN
  /\ reports \subseteq Report
  /\ list \in [1 .. MaxRuns -> Seq(Report)]
  /\ summary \in [run : Nat, bars : [DOMAIN Cell -> Report \cup {Missing}]]
  /\ charts \in [ToSet(Charts) -> Shown]

(* The container a runner talks to, and the Redis a load starts on. *)
Labelled ==
  step \in {"flush", "scrape", "load", "rescrape"} => framework \in {cell, Down} \/ excused
Emptied == step \in {"scrape", "load"} => ~ redis \/ unflushed

(* Run n is done with cell c: no report of theirs will be written. *)
Past(n, c) ==
  n < run \/ (n = run /\ (c < cell \/ (c = cell /\ step \in {"hygiene", "restart"})))

Written ==
  /\ \A r \in reports :
       /\ r.run <= run
       /\ Past(r.run, r.cell) \/ (r.run = run /\ r.cell = cell /\ step = "collect")
  /\ \A r, s \in reports : (r.run = s.run /\ r.cell = s.cell) => r = s

(* What a list holds is on disk, of its run or an earlier one, and of a    *)
(* cell its run is done with; and it holds every report its own run wrote, *)
(* up to the last cell collected.                                          *)
Holds(n, r) == \E i \in DOMAIN list[n] : list[n][i] = r

Listed ==
  \A n \in 1 .. MaxRuns : \A i \in DOMAIN list[n] :
    /\ list[n][i] \in reports /\ list[n][i].run <= n
    /\ Past(n, list[n][i].cell)
Current == \A r \in reports : (r.run = run /\ Past(run, r.cell)) => Holds(run, r)
Gapless ==
  \A n \in 1 .. MaxRuns : \A i \in DOMAIN list[n] : \A r \in reports :
    (r.run = n /\ r.cell <= list[n][i].cell) => Holds(n, r)

OfRun(n, c) == {r \in reports : r.run = n /\ r.cell = c}

Explained(shown) ==
  \A c \in DOMAIN shown.bars :
    LET bar == shown.bars[c] IN
    /\ bar # Missing =>
         /\ bar \in reports /\ bar.complete /\ bar.cell = c /\ Past(shown.run, c)
         /\ bar \in OfRun(shown.run, c) \/ (bar.run < shown.run /\ OfRun(shown.run, c) = {})
    /\ (bar = Missing /\ \E later \in DOMAIN shown.bars :
                           later > c /\ shown.bars[later] # Missing) =>
         \A r \in OfRun(shown.run, c) : ~ r.complete

MatrixInv == Written /\ Listed /\ Current /\ Gapless /\ ListExplained

IInv ==
  /\ Typed /\ Labelled /\ Emptied /\ MeasuredAsLabelled
  /\ MatrixInv
  /\ Explained(summary)
  /\ \A chart \in DOMAIN charts : Explained(charts[chart])

-----------------------------------------------------------------------------
LEMMA Cells == DOMAIN Cell = 1 .. Len(Cell) /\ Len(Cell) \in Nat \ {0} /\ 1 \in DOMAIN Cell
<1>1. Cell \in Seq(ToSet(Cell)) /\ Cell # <<>>
  BY MatrixAssumption
<1>2. ASSUME NEW S, Cell \in Seq(S), Cell # <<>>
      PROVE  DOMAIN Cell = 1 .. Len(Cell) /\ Len(Cell) \in Nat \ {0}
  BY <1>2, EmptySeq, LenProperties
<1> QED  BY <1>1, <1>2

LEMMA Named == \A r \in Report : r.run \in 1 .. MaxRuns /\ r.cell \in DOMAIN Cell
BY DEF Report

(* NextCell makes the cell it leaves past, and no other. *)
LEMMA Turned ==
  ASSUME Typed, NextCell, step' = "begin"
  PROVE  /\ \A n \in Nat : \A c \in DOMAIN Cell :
              Past(n, c)' <=> n < run \/ (n = run /\ c <= cell)
         /\ run' \in {run, run + 1} /\ cell' \in DOMAIN Cell
<1>1. run \in Nat /\ cell \in 1 .. Len(Cell) /\ Len(Cell) \in Nat \ {0}
  BY Cells DEF Typed
<1>2. CASE cell = Len(Cell)
  <2>1. cell' = 1 /\ run' = run + 1
    BY <1>2 DEF NextCell
  <2> QED  BY <1>1, <1>2, <2>1, Cells DEF Past
<1>3. CASE cell # Len(Cell)
  <2>1. cell' = cell + 1 /\ run' = run
    BY <1>3 DEF NextCell
  <2>2. cell' \in 1 .. Len(Cell)
    BY <1>1, <1>3, <2>1
  <2> QED  BY <1>1, <2>1, <2>2, Cells DEF Past
<1> QED  BY <1>2, <1>3

Early == {"begin", "flush", "scrape", "load", "rescrape"}

LEMMA PastKept ==
  ASSUME Typed, MatrixNext
  PROVE  \A n \in Nat : \A c \in DOMAIN Cell : Past(n, c) => Past(n, c)'
<1>1. run \in Nat /\ cell \in 1 .. Len(Cell) /\ Len(Cell) \in Nat \ {0}
  BY Cells DEF Typed
<1>2. CASE UNCHANGED <<run, cell>> /\ (step' \in {"hygiene", "restart"} \/ step \in Early \cup {"collect"})
  BY <1>1, <1>2, Cells DEF Past, Early
<1>3. CASE Recreate \/ FlushBefore \/ Scrape \/ Load \/ Rescrape \/ RunnerFails \/ Collect \/ FlushAfter
  BY <1>2, <1>3 DEF Recreate, FlushBefore, Scrape, Load, Rescrape, RunnerFails, Collect,
     FlushAfter, Advance, Early
<1>4. CASE CollectNothing \/ RestartFramework
  <2>1. NextCell /\ step' = "begin"
    BY <1>4 DEF CollectNothing, RestartFramework, Advance
  <2> QED  BY <1>1, <2>1, Turned, Cells DEF Past
<1>5. CASE Interrupt
  BY <1>1, <1>5, Cells DEF Interrupt, Past
<1> QED  BY <1>3, <1>4, <1>5 DEF MatrixNext

-----------------------------------------------------------------------------
(* The list and the files.                                                 *)

(* A step that touches neither, and makes no cell past but those the list  *)
(* is complete for.                                                        *)
LEMMA MatrixFrame ==
  ASSUME Typed, MatrixInv, MatrixNext, UNCHANGED <<reports, list>>,
         \A r \in reports : /\ r.run <= run'
                            /\ Past(r.run, r.cell)' \/ (r.run = run' /\ r.cell = cell' /\ step' = "collect")
                            /\ (r.run = run' /\ Past(run, r.cell)') => Past(run, r.cell) /\ run' = run
  PROVE  MatrixInv'
<1>1. Written'
  BY DEF MatrixInv, Written
<1>2. Listed'
  BY PastKept, Named DEF MatrixInv, Listed, Typed
<1>3. Current' /\ Gapless' /\ ListExplained'
  BY DEF MatrixInv, Current, Gapless, ListExplained, Holds
<1> QED  BY <1>1, <1>2, <1>3 DEF MatrixInv

LEMMA Labels ==
  ASSUME IInv, MatrixNext
  PROVE  Labelled' /\ MeasuredAsLabelled' /\ Emptied'
<1>1. CASE Recreate
  BY <1>1 DEF Recreate, Advance, Labelled, MeasuredAsLabelled, Emptied, IInv, Up, Down
<1>2. CASE FlushBefore
  BY <1>2 DEF FlushBefore, FlushDb, Advance, Labelled, MeasuredAsLabelled, Emptied, IInv
<1>3. CASE Scrape \/ Load \/ RunnerFails
  BY <1>3 DEF Scrape, Load, RunnerFails, history, Advance, Labelled, MeasuredAsLabelled,
              Emptied, IInv
<1>4. CASE Rescrape
  BY <1>4 DEF Rescrape, history, Advance, Labelled, MeasuredAsLabelled, Emptied, IInv, Up
<1>5. CASE Collect \/ CollectNothing \/ FlushAfter \/ RestartFramework \/ Interrupt
  BY <1>5 DEF Collect, CollectNothing, FlushAfter, RestartFramework, Interrupt, history, Advance,
     Labelled, MeasuredAsLabelled, Emptied, IInv
<1> QED  BY <1>1, <1>2, <1>3, <1>4, <1>5 DEF MatrixNext

LEMMA NewReport ==
  ASSUME Typed, Rescrape
  PROVE  \E new \in Report : reports' = reports \cup {new} /\ new.run = run /\ new.cell = cell
<1>1. run \in 1 .. MaxRuns
  BY MatrixAssumption DEF Rescrape, Advance, Typed
<1>2. PICK complete \in BOOLEAN :
        reports' = reports \cup {[run |-> run, cell |-> cell, complete |-> complete,
                                  of |-> framework, excused |-> excused]}
  BY DEF Rescrape
<1> DEFINE new == [run |-> run, cell |-> cell, complete |-> complete,
                   of |-> framework, excused |-> excused]
<1>3. cell \in DOMAIN Cell /\ framework \in Nat /\ excused \in BOOLEAN
  BY DEF Typed
<1>4. new \in Report
  BY <1>1, <1>3 DEF Report
<1>5. new.run = run /\ new.cell = cell
  OBVIOUS
<1> HIDE DEF new
<1> QED  BY <1>2, <1>4, <1>5 DEF new

LEMMA Types ==
  ASSUME Typed, MatrixNext
  PROVE  /\ run' \in Nat \ {0} /\ cell' \in DOMAIN Cell
         /\ framework' \in Nat
         /\ redis' \in BOOLEAN /\ unflushed' \in BOOLEAN /\ excused' \in BOOLEAN
         /\ reports' \subseteq Report
         /\ list' \in [1 .. MaxRuns -> Seq(Report)]
<1>1. CASE Recreate \/ FlushBefore \/ Scrape \/ RunnerFails \/ FlushAfter \/ Load
  <2>1. redis' \in BOOLEAN /\ unflushed' \in BOOLEAN /\ excused' \in BOOLEAN
    <3>1. redis' \in BOOLEAN
      BY <1>1, Zenon
         DEF Recreate, FlushBefore, FlushDb, Scrape, RunnerFails, FlushAfter, Load, Typed
    <3>2. unflushed' \in BOOLEAN
      BY <1>1, Zenon DEF Recreate, FlushBefore, FlushDb, Scrape, RunnerFails, FlushAfter, Load,
         history, Typed
    <3>3. excused' \in BOOLEAN
      BY <1>1, Zenon DEF Recreate, FlushBefore, Scrape, RunnerFails, FlushAfter, Load,
         history, Typed, Up
    <3> QED  BY <3>1, <3>2, <3>3
  <2>2. UNCHANGED <<run, cell, reports, list>>
    BY <1>1 DEF Recreate, FlushBefore, Scrape, RunnerFails, FlushAfter, Load
  <2>3. framework' \in {framework, cell, Down} \cup DOMAIN Cell
    BY <1>1 DEF Recreate, FlushBefore, Scrape, RunnerFails, FlushAfter, Load
  <2>4. cell \in Nat
    BY Cells DEF Typed
  <2> QED  BY <2>1, <2>2, <2>3, <2>4 DEF Typed, Down
<1>2. CASE Rescrape
  BY <1>2, NewReport DEF Rescrape, history, Typed
<1>3. CASE Collect
  <2>1. PICK newest \in Matching : list' = [list EXCEPT ![run] = Append(@, newest)]
    BY <1>3 DEF Collect
  <2>2. newest \in Report /\ list[run] \in Seq(Report) /\ run \in 1 .. MaxRuns
    BY <1>3 DEF Matching, Typed, Collect, Advance
  <2>3. Append(list[run], newest) \in Seq(Report)
    BY <2>2, AppendProperties
  <2> QED  BY <1>3, <2>1, <2>2, <2>3 DEF Collect, history, Typed
<1>4. CASE CollectNothing \/ RestartFramework
  BY <1>4, Turned DEF CollectNothing, RestartFramework, Advance, history, Typed, Down
<1>5. CASE Interrupt
  BY <1>5, Cells DEF Interrupt, history, Typed
<1> QED  BY <1>1, <1>2, <1>3, <1>4, <1>5 DEF MatrixNext

LEMMA NextMatrix ==
  ASSUME Typed, MatrixInv, MatrixNext
  PROVE  MatrixInv'
<1>1. run \in Nat /\ cell \in 1 .. Len(Cell) /\ Len(Cell) \in Nat \ {0}
  BY Cells DEF Typed
<1>2. CASE Recreate \/ FlushBefore \/ Scrape \/ Load \/ RunnerFails \/ FlushAfter
  <2>1. UNCHANGED <<run, cell, reports, list>> /\ step # "collect"
        /\ (step \in {"hygiene", "restart"} <=> step' \in {"hygiene", "restart"})
    BY <1>2 DEF Recreate, FlushBefore, Scrape, Load, RunnerFails, FlushAfter, Advance
  <2>2. \A n, c : Past(n, c)' <=> Past(n, c)
    BY <2>1 DEF Past
  <2> QED  BY <2>1, <2>2, MatrixFrame DEF MatrixInv, Written
<1>3. CASE CollectNothing \/ RestartFramework
  <2>1. NextCell /\ step' = "begin" /\ UNCHANGED <<reports, list>>
    BY <1>3 DEF CollectNothing, RestartFramework, Advance
  <2>2. \A r \in reports : r.run = run => Past(run, r.cell)
    BY <1>1, <1>3 DEF MatrixInv, Written, CollectNothing, RestartFramework, Advance, Matching
  <2>3. \A r \in reports : r.run \in Nat /\ r.cell \in DOMAIN Cell
    BY Named DEF Typed
  <2>4. ASSUME NEW r \in reports
        PROVE  /\ r.run <= run' /\ Past(r.run, r.cell)'
               /\ (r.run = run' /\ Past(run, r.cell)') => Past(run, r.cell) /\ run' = run
    BY <1>1, <2>1, <2>2, <2>3, Turned DEF MatrixInv, Written, Past
  <2> QED  BY <2>1, <2>4, MatrixFrame
<1>4. CASE Interrupt
  <2>1. run' = run + 1 /\ UNCHANGED <<reports, list>>
    BY <1>4 DEF Interrupt
  <2>2. \A r \in reports : r.run \in Nat /\ r.run <= run
    BY Named DEF Typed, MatrixInv, Written
  <2> QED  BY <1>1, <2>1, <2>2, MatrixFrame DEF Past
<1>5. CASE Rescrape
  <2>1. PICK new \in Report : /\ reports' = reports \cup {new}
                              /\ new.run = run /\ new.cell = cell
    BY <1>5, NewReport
  <2>2. UNCHANGED <<run, cell, list>> /\ step = "rescrape" /\ step' = "collect"
    BY <1>5 DEF Rescrape, Advance
  <2>3. \A n, c : Past(n, c)' <=> Past(n, c)
    BY <2>2 DEF Past
  <2>4. ~ Past(run, cell)
    BY <1>1, <2>2 DEF Past
  <2>5. Written' /\ Listed' /\ Current'
    BY <1>1, <2>1, <2>2, <2>3, <2>4 DEF MatrixInv, Written, Listed, Current, Holds
  <2>6. ASSUME NEW n \in 1 .. MaxRuns, NEW i \in DOMAIN list[n], n = run
        PROVE  list[n][i].cell < cell
    BY <1>1, <2>2, <2>6 DEF MatrixInv, Listed, Past
  <2>7. \A n \in 1 .. MaxRuns : \A i \in DOMAIN list[n] : list[n][i] \in Report
    BY DEF Typed, MatrixInv, Listed
  <2>8. Gapless'
    BY <1>1, <2>1, <2>2, <2>6, <2>7, Named, Cells DEF MatrixInv, Gapless, Holds
  <2>9. ListExplained'
    BY <1>1, <2>1, <2>2, <2>6, <2>7, Named, Cells DEF MatrixInv, ListExplained
  <2> QED  BY <2>5, <2>8, <2>9 DEF MatrixInv
<1>6. CASE Collect
  <2>1. PICK newest \in Matching :
          /\ \A r \in Matching : r.run <= newest.run
          /\ list' = [list EXCEPT ![run] = Append(@, newest)]
    BY <1>6 DEF Collect
  <2>2. /\ UNCHANGED <<run, cell, reports>> /\ step = "collect" /\ step' = "hygiene"
        /\ run \in 1 .. MaxRuns
    BY <1>6 DEF Collect, Advance, Typed
  <2>3. \A n, c : Past(n, c) \/ (n = run /\ c = cell) <=> Past(n, c)'
    BY <1>1, <2>2 DEF Past
  <2>4. newest \in reports /\ newest \in Report /\ newest.cell = cell /\ newest.run \in Nat
        /\ newest.run <= run
    BY <2>1, Named DEF Matching, MatrixInv, Written, Typed
  <2>5. \A r \in reports : r \in Report /\ r.run \in Nat /\ r.cell \in Nat /\ r.run <= run
    BY Named, Cells DEF Typed, MatrixInv, Written
  <2>6. /\ list[run] \in Seq(Report) /\ Len(list[run]) \in Nat
        /\ DOMAIN list[run] = 1 .. Len(list[run])
    BY <2>2, LenProperties DEF Typed
  <2>7. /\ \A n \in 1 .. MaxRuns : n # run => list'[n] = list[n]
        /\ DOMAIN list'[run] = 1 .. Len(list[run]) + 1
        /\ list'[run][Len(list[run]) + 1] = newest
        /\ \A i \in DOMAIN list[run] : list'[run][i] = list[run][i]
    <3>1. list'[run] = Append(list[run], newest) /\ \A n \in 1 .. MaxRuns : n # run => list'[n] = list[n]
      BY <2>1, <2>2 DEF Typed
    <3>2. Append(list[run], newest) \in Seq(Report)
      BY <2>4, <2>6, AppendProperties
    <3> QED  BY <3>1, <3>2, <2>4, <2>6, AppendProperties, LenProperties
  <2>8. \A n \in 1 .. MaxRuns : \A i \in DOMAIN list'[n] :
           \/ i \in DOMAIN list[n] /\ list'[n][i] = list[n][i]
           \/ n = run /\ list'[n][i] = newest /\ i = Len(list[run]) + 1
    BY <2>2, <2>6, <2>7
  <2>9. Written' /\ Listed'
    <3>1. Written'
      BY <2>2, <2>3 DEF MatrixInv, Written
    <3>2. Listed'
      BY <2>2, <2>3, <2>4, <2>8 DEF MatrixInv, Listed
    <3> QED  BY <3>1, <3>2
  <2>10. \A n \in 1 .. MaxRuns : \A r : Holds(n, r) => Holds(n, r)'
    BY <2>2, <2>6, <2>7 DEF Holds
  <2>11. Holds(run, newest)'
    <3>1. Len(list[run]) + 1 \in DOMAIN list'[run]
      BY <2>6, <2>7
    <3> QED  BY <3>1, <2>2, <2>7 DEF Holds
  <2>12. \A r \in reports : (r.run = run /\ r.cell = cell) => r = newest
    BY <2>1, <2>4, <2>5 DEF Matching, MatrixInv, Written
  <2>13. Current'
    BY <2>2, <2>3, <2>10, <2>11, <2>12 DEF MatrixInv, Current
  <2>14. ASSUME NEW i \in DOMAIN list[run] PROVE list[run][i].cell < cell
    BY <1>1, <2>2, <2>14 DEF MatrixInv, Listed, Past
  <2>15. Gapless'
    <3> SUFFICES ASSUME NEW n \in 1 .. MaxRuns, NEW i \in DOMAIN list'[n], NEW r \in reports,
                        r.run = n, r.cell <= list'[n][i].cell
                 PROVE  Holds(n, r)'
      BY <2>2 DEF Gapless
    <3>1. CASE i \in DOMAIN list[n] /\ list'[n][i] = list[n][i]
      BY <3>1, <2>10 DEF MatrixInv, Gapless
    <3>2. CASE n = run /\ list'[n][i] = newest
      <4>1. r.cell < cell \/ r.cell = cell
        BY <3>2, <2>4, <2>5, <1>1
      <4>2. ASSUME r.cell < cell PROVE Holds(run, r)
        BY <3>2, <4>2 DEF MatrixInv, Current, Past
      <4> QED  BY <3>2, <4>1, <4>2, <2>2, <2>10, <2>11, <2>12
    <3> QED  BY <3>1, <3>2, <2>8
  <2>16. ListExplained'
    <3> SUFFICES ASSUME NEW n \in 1 .. MaxRuns, NEW i \in DOMAIN list'[n]
                 PROVE  /\ \A j \in 1 .. i - 1 : list'[n][j].cell < list'[n][i].cell
                        /\ list'[n][i].run # n =>
                             \A r \in reports : r.cell = list'[n][i].cell => r.run # n
      BY <2>2 DEF ListExplained
    <3>1. CASE i \in DOMAIN list[n] /\ list'[n][i] = list[n][i]
      <4>1. DOMAIN list[n] = 1 .. Len(list[n]) /\ Len(list[n]) \in Nat
        BY LenProperties DEF Typed
      <4>2. \A j \in 1 .. i - 1 : list'[n][j] = list[n][j]
        BY <3>1, <4>1, <2>7
      <4> QED  BY <3>1, <4>2 DEF MatrixInv, ListExplained
    <3>2. CASE n = run /\ list'[n][i] = newest /\ i = Len(list[run]) + 1
      <4>1. \A j \in 1 .. i - 1 : list'[n][j].cell < cell
        BY <3>2, <2>6, <2>7, <2>14
      <4>2. newest.run # run => \A r \in reports : r.cell = cell => r.run # run
        BY <2>12
      <4> QED  BY <3>2, <4>1, <4>2, <2>4
    <3> QED  BY <3>1, <3>2, <2>8
  <2> QED  BY <2>9, <2>13, <2>15, <2>16 DEF MatrixInv
<1> QED  BY <1>2, <1>3, <1>4, <1>5, <1>6 DEF MatrixNext

-----------------------------------------------------------------------------
(* The charts.                                                             *)

(* Once a cell is past, the files of that run and cell are settled. *)
LEMMA Settled ==
  ASSUME Typed, MatrixInv, MatrixNext, NEW n \in Nat, NEW c \in DOMAIN Cell, Past(n, c)
  PROVE  OfRun(n, c)' = OfRun(n, c) /\ reports \subseteq reports'
<1>1. CASE Rescrape
  <2>1. PICK new \in Report : reports' = reports \cup {new} /\ new.run = run /\ new.cell = cell
    BY <1>1, NewReport
  <2>2. ~ (n = run /\ c = cell)
    BY <1>1, Cells DEF Rescrape, Advance, Past, Typed
  <2> QED  BY <2>1, <2>2 DEF OfRun
<1>2. CASE ~ Rescrape
  BY <1>2 DEF MatrixNext, Recreate, FlushBefore, Scrape, Load, RunnerFails, Collect,
     CollectNothing, FlushAfter, RestartFramework, Interrupt, OfRun
<1> QED  BY <1>1, <1>2

LEMMA ExplainedKept ==
  ASSUME Typed, MatrixInv, MatrixNext, NEW shown \in Shown, Explained(shown)
  PROVE  Explained(shown)'
<1> SUFFICES ASSUME NEW c \in DOMAIN shown.bars
             PROVE  LET bar == shown.bars[c] IN
      /\ bar # Missing =>
           /\ bar \in reports' /\ bar.complete /\ bar.cell = c /\ Past(shown.run, c)'
           /\ bar \in OfRun(shown.run, c)' \/ (bar.run < shown.run /\ OfRun(shown.run, c)' = {})
      /\ (bar = Missing /\ \E later \in DOMAIN shown.bars :
                             later > c /\ shown.bars[later] # Missing) =>
           \A r \in OfRun(shown.run, c)' : ~ r.complete
  BY DEF Explained
<1>1. shown.run \in Nat /\ DOMAIN shown.bars \subseteq DOMAIN Cell
  BY DEF Shown
<1>2. CASE shown.bars[c] # Missing
  BY <1>1, <1>2, Settled, PastKept DEF Explained
<1>3. CASE shown.bars[c] = Missing /\ \E later \in DOMAIN shown.bars :
                                        later > c /\ shown.bars[later] # Missing
  <2>1. PICK later \in DOMAIN shown.bars : later > c /\ shown.bars[later] # Missing
    BY <1>3
  <2>2. Past(shown.run, later)
    BY <2>1 DEF Explained
  <2>3. Past(shown.run, c)
    BY <1>1, <2>1, <2>2, Cells DEF Past, Typed
  <2> QED  BY <1>1, <1>3, <2>3, Settled DEF Explained
<1> QED  BY <1>2, <1>3

LEMMA SummaryExplained ==
  ASSUME Typed, MatrixInv, MakeReport
  PROVE  Explained(summary)' /\ summary' \in [run : Nat, bars : [DOMAIN Cell -> Report \cup {Missing}]]
<1> DEFINE n == NewestRun
           records == LoadCells(n)
<1>1. n \in 1 .. MaxRuns
  BY MatrixAssumption DEF NewestRun, Typed
<1>2. UNCHANGED <<run, cell, step, reports, list>> /\ summary' = [run |-> n, bars |-> Indexed(records)]
  BY DEF MakeReport, vars
<1>3. \A r \in records : /\ r \in reports /\ r \in Report /\ r.complete /\ r.run <= n
                         /\ Past(n, r.cell) /\ r.run \in Nat /\ r.cell \in Nat
                         /\ r.run # n => OfRun(n, r.cell) = {}
  <2>1. ASSUME NEW r \in records
        PROVE  \E i \in DOMAIN list[n] : r = list[n][i] /\ r.complete
    BY DEF LoadCells, ToSet
  <2> QED  BY <1>1, <2>1, Named, Cells DEF MatrixInv, Listed, ListExplained, OfRun, Typed
<1>4. ASSUME NEW c \in DOMAIN Cell, NEW later \in records, later.cell > c,
             NEW r \in OfRun(n, c), r.complete
      PROVE  r \in records
  <2>1. PICK i \in DOMAIN list[n] : list[n][i] = later
    BY DEF LoadCells, ToSet
  <2>2. r \in reports /\ r.run = n /\ r.cell = c /\ c \in Nat /\ later.cell \in Nat
    BY <1>3, Cells DEF OfRun
  <2>3. r.cell <= list[n][i].cell
    BY <1>4, <2>1, <2>2
  <2>4. Holds(n, r)
    BY <1>1, <2>2, <2>3 DEF MatrixInv, Gapless
  <2> QED  BY <1>4, <2>4 DEF Holds, LoadCells, ToSet
<1>5. ASSUME NEW c \in DOMAIN Cell
      PROVE  IF \E r \in records : r.cell = c
             THEN Indexed(records)[c] \in records /\ Indexed(records)[c].cell = c
             ELSE Indexed(records)[c] = Missing
  BY DEF Indexed
<1>6. Indexed(records) \in [DOMAIN Cell -> Report \cup {Missing}]
  BY <1>3, <1>5 DEF Indexed
<1> DEFINE bars == Indexed(records)
<1> HIDE DEF n, records, bars
<1>7. ASSUME NEW c \in DOMAIN Cell
      PROVE  /\ bars[c] # Missing =>
                  /\ bars[c] \in reports /\ bars[c].complete /\ bars[c].cell = c /\ Past(n, c)
                  /\ bars[c] \in OfRun(n, c) \/ (bars[c].run < n /\ OfRun(n, c) = {})
             /\ (bars[c] = Missing /\ \E later \in DOMAIN bars : later > c /\ bars[later] # Missing) =>
                  \A r \in OfRun(n, c) : ~ r.complete
  <2>1. ASSUME bars[c] # Missing
        PROVE  bars[c] \in records /\ bars[c].cell = c
    BY <1>5, <2>1 DEF bars
  <2>2. ASSUME bars[c] # Missing
        PROVE  /\ bars[c] \in reports /\ bars[c].complete /\ bars[c].cell = c /\ Past(n, c)
               /\ bars[c] \in OfRun(n, c) \/ (bars[c].run < n /\ OfRun(n, c) = {})
    BY <1>1, <1>3, <2>1, <2>2 DEF OfRun
  <2>3. ASSUME bars[c] = Missing, NEW later \in DOMAIN bars, later > c, bars[later] # Missing,
               NEW r \in OfRun(n, c), r.complete
        PROVE  FALSE
    <3>1. later \in DOMAIN Cell
      BY <1>6 DEF bars
    <3>2. bars[later] \in records /\ bars[later].cell = later
      BY <1>5, <2>3, <3>1 DEF bars
    <3>3. r \in records /\ r.cell = c
      BY <1>4, <2>3, <3>2 DEF OfRun
    <3>4. bars[c] \in records
      BY <1>5, <3>3 DEF bars
    <3> QED  BY <1>3, <2>3, <3>4, ReportAssumption
  <2> QED  BY <2>2, <2>3
<1>8. summary'.run = n /\ summary'.bars = bars /\ DOMAIN bars = DOMAIN Cell
  BY <1>2, <1>6 DEF bars
<1>9. \A m, c : Past(m, c)' <=> Past(m, c)
  BY <1>2 DEF Past
<1>10. \A m, c : OfRun(m, c)' = OfRun(m, c)
  BY <1>2 DEF OfRun
<1>11. Explained(summary)'
  BY <1>2, <1>7, <1>8, <1>9, <1>10 DEF Explained
<1>12. n \in Nat
  BY <1>1
<1> QED  BY <1>2, <1>6, <1>11, <1>12 DEF bars

LEMMA InitInv == ReportInit => IInv
<1> SUFFICES ASSUME ReportInit PROVE IInv
  OBVIOUS
<1>1. /\ run = 1 /\ cell = 1 /\ step = "begin" /\ framework = 0 /\ redis \in BOOLEAN
      /\ reports = {} /\ list = [r \in 1 .. MaxRuns |-> <<>>]
      /\ unflushed = FALSE /\ excused = FALSE
  BY DEF ReportInit, Init, Down
<1>2. Unread \in Shown /\ Unread \in [run : Nat, bars : [DOMAIN Cell -> Report \cup {Missing}]]
  BY DEF Unread, Shown
<1>3. Explained(Unread)
  BY DEF Unread, Explained
<1>4. summary = Unread /\ charts = [chart \in ToSet(Charts) |-> Unread]
  BY DEF ReportInit
<1>5. Typed
  <2>1. list \in [1 .. MaxRuns -> Seq(Report)]
    BY <1>1, EmptySeq
  <2>2. charts \in [ToSet(Charts) -> Shown]
    BY <1>2, <1>4
  <2>3. redis \in BOOLEAN /\ unflushed \in BOOLEAN /\ excused \in BOOLEAN
    BY <1>1, Zenon
  <2>4. summary \in [run : Nat, bars : [DOMAIN Cell -> Report \cup {Missing}]]
    BY <1>2, <1>4, Zenon
  <2>5. /\ run \in Nat \ {0} /\ cell \in DOMAIN Cell /\ framework \in Nat
        /\ reports \subseteq Report
    BY <1>1, Cells
  <2> QED  BY <2>1, <2>2, <2>3, <2>4, <2>5, Zenon DEF Typed
<1>6. MatrixInv
  BY <1>1 DEF MatrixInv, Written, Listed, Current, Gapless, ListExplained, Holds
<1>7. Labelled /\ Emptied /\ MeasuredAsLabelled
  BY <1>1 DEF Labelled, Emptied, MeasuredAsLabelled
<1> QED  BY <1>3, <1>4, <1>5, <1>6, <1>7 DEF IInv

LEMMA NextInv == IInv /\ [Next]_<<vars, reportVars>> => IInv'
<1> SUFFICES ASSUME IInv, [Next]_<<vars, reportVars>> PROVE IInv'
  OBVIOUS
<1>1. summary \in Shown /\ \A chart \in DOMAIN charts : charts[chart] \in Shown
  BY DEF IInv, Typed, Shown
<1>2. CASE MatrixNext /\ UNCHANGED reportVars
  <2>1. Typed'
    BY <1>2, Types DEF IInv, Typed, reportVars
  <2>2. Labelled' /\ Emptied' /\ MeasuredAsLabelled' /\ MatrixInv'
    BY <1>2, Labels, NextMatrix DEF IInv
  <2>3. \A shown \in Shown : Explained(shown) => Explained(shown)'
    BY <1>2, ExplainedKept DEF IInv
  <2>4. summary' = summary /\ charts' = charts
    BY <1>2 DEF reportVars
  <2>5. Explained(summary)'
    BY <1>1, <2>3, <2>4 DEF IInv, Explained, OfRun, Past
  <2>6. \A chart \in DOMAIN charts : Explained(charts[chart])'
    BY <1>1, <2>3, <2>4 DEF IInv, Explained, OfRun, Past
  <2> QED  BY <2>1, <2>2, <2>4, <2>5, <2>6 DEF IInv
<1>3. CASE UNCHANGED vars /\ (UNCHANGED reportVars \/ MakeReport \/ DrawChart \/ ReportEnds)
  <2>1. /\ UNCHANGED <<run, cell, step, framework, redis, reports, list, unflushed, excused>>
    BY <1>3 DEF vars, history
  <2>2. Labelled' /\ Emptied' /\ MeasuredAsLabelled' /\ MatrixInv'
    BY <2>1 DEF IInv, Labelled, Emptied, MeasuredAsLabelled, MatrixInv, Written,
       Listed, Current, Gapless, ListExplained, Holds, Past
  <2>3. ASSUME summary' \in [run : Nat, bars : [DOMAIN Cell -> Report \cup {Missing}]],
               charts' \in [ToSet(Charts) -> Shown]
        PROVE  Typed'
    BY <2>1, <2>3 DEF IInv, Typed
  <2>4. CASE UNCHANGED <<summary, charts>>
    <3>1. Explained(summary)' /\ \A chart \in DOMAIN charts : Explained(charts[chart])'
      BY <2>1, <2>4 DEF IInv, Explained, OfRun, Past
    <3> QED  BY <2>2, <2>3, <2>4, <3>1 DEF IInv, Typed
  <2>5. CASE MakeReport
    <3>1. charts' = charts
      BY <2>5 DEF MakeReport
    <3>2. \A chart \in DOMAIN charts : Explained(charts[chart])'
      BY <2>1, <3>1 DEF IInv, Explained, OfRun, Past
    <3> QED  BY <2>2, <2>3, <2>5, <3>1, <3>2, SummaryExplained DEF IInv, Typed
  <2>6. CASE DrawChart
    <3> DEFINE chart == Charts[drawn + 1]
               part == [c \in Axis(chart) |-> summary.bars[c]]
    <3>1. summary' = summary /\ charts' = [charts EXCEPT ![chart] = [summary EXCEPT !.bars = part]]
      BY <2>6 DEF DrawChart
    <3>2. Axis(chart) \subseteq DOMAIN Cell
      BY DEF Axis
    <3>3. [summary EXCEPT !.bars = part].run = summary.run
          /\ [summary EXCEPT !.bars = part].bars = part
          /\ [summary EXCEPT !.bars = part] \in Shown
      <4>1. /\ [summary EXCEPT !.bars = part] = [run |-> summary.run, bars |-> part]
            /\ summary.run \in Nat
        BY DEF IInv, Typed
      <4>2. part \in [Axis(chart) -> Report \cup {Missing}]
        BY <3>2 DEF IInv, Typed
      <4> HIDE DEF part, chart
      <4>3. [run |-> summary.run, bars |-> part] \in Shown
        BY <3>2, <4>1, <4>2 DEF Shown
      <4> QED  BY <4>1, <4>3
    <3>4. charts' \in [ToSet(Charts) -> Shown]
      BY <3>1, <3>3 DEF IInv, Typed
    <3>5. Explained([summary EXCEPT !.bars = part])
      BY <3>2, <3>3 DEF IInv, Typed, Explained
    <3>6. \A x \in DOMAIN charts' : charts'[x] = charts[x] \/ charts'[x] = [summary EXCEPT !.bars = part]
      BY <3>1 DEF IInv, Typed
    <3>7. \A x \in DOMAIN charts' : Explained(charts'[x])
      BY <3>1, <3>5, <3>6 DEF IInv, Typed
    <3>8. Explained(summary)'
      BY <2>1, <3>1 DEF IInv, Explained, OfRun, Past
    <3> HIDE DEF part, chart
    <3>9. (\A x \in DOMAIN charts : Explained(charts[x]))'
      BY <2>1, <3>7 DEF Explained, OfRun, Past
    <3> QED  BY <2>2, <2>3, <3>1, <3>4, <3>8, <3>9 DEF IInv, Typed
  <2> QED  BY <1>3, <2>4, <2>5, <2>6 DEF ReportEnds, reportVars
<1> QED  BY <1>2, <1>3 DEF Next, MakeReport, DrawChart, ReportEnds, vars, reportVars

LEMMA Invariant == ReportSpec => []IInv
BY InitInv, NextInv, PTL DEF ReportSpec

(* However many cells and runs: no report is labelled with a cell whose    *)
(* YAML the measured framework had not booted with, but for a container    *)
(* that could not be taken away.                                           *)
THEOREM RightLabel == ReportSpec => []MeasuredAsLabelled
<1>1. IInv => MeasuredAsLabelled
  BY DEF IInv
<1> QED  BY Invariant, <1>1, PTL

(* Every load starts on an empty Redis unless FLUSHDB failed. *)
THEOREM StartsCold == ReportSpec => []ColdStart
<1>1. IInv => ColdStart
  BY DEF IInv, Emptied, ColdStart
<1> QED  BY Invariant, <1>1, PTL

(* A list has an earlier run's report only for a cell whose own runner     *)
(* wrote none.                                                             *)
THEOREM ListsTruthful == ReportSpec => []ListExplained
<1>1. IInv => ListExplained
  BY DEF IInv, MatrixInv
<1> QED  BY Invariant, <1>1, PTL

(* What a bar shows, and what a gap means, at any later time. *)
THEOREM ChartsTruthful == ReportSpec => []BarsExplained
<1>1. IInv => BarsExplained
  <2> SUFFICES ASSUME IInv, NEW chart \in DOMAIN charts, NEW c \in DOMAIN charts[chart].bars,
                      Explained(charts[chart])
               PROVE  LET n == charts[chart].run
                          bar == charts[chart].bars[c]
                          written == {r \in reports : r.run = n /\ r.cell = c}
                      IN  /\ bar # Missing =>
                               /\ bar \in reports /\ bar.complete /\ bar.cell = c
                               /\ bar \in written \/ (bar.run < n /\ written = {})
                          /\ (bar = Missing /\ \E later \in DOMAIN charts[chart].bars :
                                later > c /\ charts[chart].bars[later] # Missing) =>
                               \A r \in written : ~ r.complete
    BY DEF IInv, BarsExplained
  <2> QED  BY DEF Explained, OfRun
<1> QED  BY Invariant, <1>1, PTL
=============================================================================
