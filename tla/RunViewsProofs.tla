--------------------------- MODULE RunViewsProofs ---------------------------
(***************************************************************************)
(* Proofs about RunViews: what the pages of rows and the export of a run   *)
(* show, for any number of tabs, commands, runs, tables and rows.          *)
(***************************************************************************)
EXTENDS RunViews, RunHistoryProofs, FiniteSetTheorems

-----------------------------------------------------------------------------
(* The writers beside the readers: a step of RunViews is a step of DiffRuns, *)
(* or a command that ends because its run was deleted.                      *)

LEMMA ViewsAreSteps ==
  ASSUME [NextViews]_allvars
  PROVE  [Next]_vars \/ \E j \in CliJobs : ExportFails(j)
<1>1. ASSUME NEW j \in Job, Run(j)
      PROVE  Next
  BY <1>1 DEF Run, Next
<1>2. ASSUME NEW j \in CliJobs, Export(j)
      PROVE  UNCHANGED vars \/ ExportFails(j)
  BY <1>2 DEF Export, PrintSummary, ExportRun, ExportTables, ExportDetail, WriteExport
<1>3. CASE Others
  BY <1>3 DEF Others, Next
<1>4. ASSUME NEW b \in Tabs, Follows(b) \/ Browse(b)
      PROVE  UNCHANGED vars
  BY <1>4 DEF Follows, Browse, Poll, Refresh, OpenRun, OpenTable, CountRows, ListRows, FollowNext,
              FollowPrev, Follow, CloseTab
<1> QED BY <1>1, <1>2, <1>3, <1>4 DEF NextViews, allvars

LEMMA FailedExportStops ==
  ASSUME OnceInv, NEW j \in CliJobs, ExportFails(j)
  PROVE  OnceInv' /\ UNCHANGED <<store, run_id>>
<1>1. /\ IInv /\ TypeOK /\ j \in Job /\ \A i \in Job : VisitsOnce(i)
      /\ UNCHANGED <<store, run_id>>
  BY DEF OnceInv, IInv, Job, ExportFails
<1>2. TypeOK'
  BY <1>1 DEF ExportFails, LeaveRunDiff, GoTo, store, TypeOK, PC, Alive, InTry
<1>3. Stopped(j) /\ \A i \in Job : i # j => Idle(i)
  BY <1>1 DEF ExportFails, LeaveRunDiff, GoTo, Stopped, Idle, TypeOK
<1>4. IInv'
  BY <1>1, <1>2, <1>3, StopKeepsInv
<1>5. ASSUME NEW i \in Job
      PROVE  VisitsOnce(i)'
  <2>1. \/ Idle(i)
        \/ todo'[i] = {} /\ summary'[i] = {} /\ pc'[i] # "rows"
    BY <1>1, <1>3 DEF ExportFails, LeaveRunDiff, GoTo, TypeOK
  <2> QED BY <1>1, <2>1 DEF Idle, VisitsOnce, Once, Had
<1> QED BY <1>1, <1>4, <1>5 DEF OnceInv

\* What every step leaves a reader of run r with.
Steady(r) ==
  /\ r \in 1..seq => r \in 1..seq' /\ (r \in DOMAIN runs' => r \in DOMAIN runs)
  /\ r \in DOMAIN runs' /\ SettledRun(r) =>
       /\ SettledRun(r)'
       /\ ResultsOf(r)' = ResultsOf(r)
       /\ DetailOf(r)' = DetailOf(r)
       /\ SchemaOf(r)' = SchemaOf(r)

LEMMA ViewsStep ==
  ASSUME OnceInv, [NextViews]_allvars
  PROVE  /\ OnceInv'
         /\ \A r : Steady(r)
         /\ \A i \in Job : run_id[i] # 0 => run_id'[i] = run_id[i]
<1>1. IInv /\ TypeOK /\ \A i \in Job : JobOfRun(i)
  BY DEF OnceInv, IInv
<1>2. CASE [Next]_vars
  <2>1. OnceInv'
    BY <1>2, OnceStep
  <2>2. \A r : Steady(r)
    BY <1>1, <1>2, StepKeepsRows, StepBringsNothingBack, IdsGrow DEF Steady, SettledRun
  <2>3. ASSUME NEW i \in Job, run_id[i] # 0
        PROVE  run_id'[i] = run_id[i]
    <3>1. ASSUME NEW j \in Job, StartRun(j) \/ RunCommand(j)
          PROVE  run_id'[i] = run_id[i]
      BY <1>1, <2>3, <3>1 DEF StartRun, RunCommand, CreateRun, JobOfRun, TypeOK
    <3>2. ASSUME NEW j \in Job, Work(j) \/ KillCommand(j)
          PROVE  run_id' = run_id
      BY <1>1, <3>2, WorkKeepsForeignKeys DEF KillCommand
    <3>3. CASE CrashServer \/ UNCHANGED vars \/ (\E r \in 1..seq : DeleteRun(r))
               \/ (\E p \in Pages : Show(p))
      BY <3>3 DEF CrashServer, DeleteRun, Show, OpenPage, ReadSchemaChanges, ReadTableResults,
                  ClosePage, vars, local
    <3> QED BY <1>2, <3>1, <3>2, <3>3 DEF Next
  <2> QED BY <2>1, <2>2, <2>3
<1>3. ASSUME NEW j \in CliJobs, ExportFails(j)
      PROVE  /\ OnceInv'
             /\ \A r : Steady(r)
             /\ \A i \in Job : run_id[i] # 0 => run_id'[i] = run_id[i]
  BY <1>3, FailedExportStops DEF Steady, store, SettledRun, ResultsOf, DetailOf, SchemaOf,
              TablesOf
<1> QED BY <1>2, <1>3, ViewsAreSteps

-----------------------------------------------------------------------------
(* What the store holds of a settled run.                                   *)

LEMMA SettledStays ==
  ASSUME NEW r \in 1..seq, Steady(r), r \in DOMAIN runs => SettledRun(r), r \in DOMAIN runs'
  PROVE  /\ r \in DOMAIN runs /\ SettledRun(r)'
         /\ ResultsOf(r)' = ResultsOf(r) /\ DetailOf(r)' = DetailOf(r) /\ SchemaOf(r)' = SchemaOf(r)
         /\ \A t : NumRows(r, t)' = NumRows(r, t)
<1>1. /\ r \in DOMAIN runs /\ SettledRun(r)'
      /\ ResultsOf(r)' = ResultsOf(r) /\ DetailOf(r)' = DetailOf(r) /\ SchemaOf(r)' = SchemaOf(r)
  BY DEF Steady
<1> QED BY <1>1 DEF TablesOf, NumRows

\* A run that is not there has no rows.
LEMMA GoneIsEmpty ==
  ASSUME NoOrphanRows, NEW r, r \notin DOMAIN runs
  PROVE  ResultsOf(r) = {} /\ DetailOf(r) = {} /\ SchemaOf(r) = {}
  BY DEF NoOrphanRows, ResultsOf, DetailOf, SchemaOf, TablesOf

LEMMA NumRowsTyped ==
  ASSUME TypeOK, NEW r, NEW t
  PROVE  NumRows(r, t) \in 0..MaxRows
<1>1. DetailOf(r) \subseteq [table : Tables, rows : 1..MaxRows] /\ MaxRows \in Nat
  BY ReadsTyped, DiffRunsAssumption
<1>2. CASE t \in TablesOf(DetailOf(r))
  <2>1. PICK x \in DetailOf(r) : x.table = t
    BY <1>2 DEF TablesOf
  <2> DEFINE c == CHOOSE y \in DetailOf(r) : y.table = t
  <2>2. c \in DetailOf(r)
    BY <2>1
  <2>3. NumRows(r, t) = c.rows
    BY <1>2 DEF NumRows
  <2> QED BY <1>1, <2>2, <2>3
<1>3. CASE t \notin TablesOf(DetailOf(r))
  BY <1>1, <1>3 DEF NumRows
<1> QED BY <1>2, <1>3

\* The stored rows of a table are those the diff of the table listed.
LEMMA NumRowsOfDiff ==
  ASSUME NEW r, NEW S \in SUBSET TableDiff, Once(S), DetailOf(r) = Detailed(S), NEW y \in S
  PROVE  NumRows(r, y.table) = y.listed
<1>1. y.listed \in Nat /\ \A z \in S : z.table = y.table => z = y
  <2>1. y \in TableDiff /\ MaxRows \in Nat
    BY DiffRunsAssumption
  <2>2. y.listed \in Nat
    BY <2>1 DEF TableDiff
  <2> QED BY <2>2 DEF Once
<1>2. CASE y.listed > 0
  <2> DEFINE d == [table |-> y.table, rows |-> y.listed]
             c == CHOOSE x \in DetailOf(r) : x.table = y.table
  <2>1. d \in DetailOf(r) /\ d.table = y.table
    BY <1>2 DEF Detailed
  <2>2. c \in Detailed(S) /\ c.table = y.table
    BY <2>1
  <2>3. c.rows = y.listed
    <3> HIDE DEF c
    <3> QED BY <1>1, <2>2 DEF Detailed
  <2>4. y.table \in TablesOf(DetailOf(r))
    BY <2>1 DEF TablesOf
  <2> QED BY <2>3, <2>4 DEF NumRows
<1>3. CASE y.listed = 0
  <2>1. y.table \notin TablesOf(DetailOf(r))
    BY <1>1, <1>3 DEF Detailed, TablesOf
  <2> QED BY <1>3, <2>1 DEF NumRows
<1> QED BY <1>1, <1>2, <1>3

\* run_diff returns when everything it found is stored.
Returned(j) ==
  pc[j] = "returned" =>
    /\ Once(summary[j])
    /\ Recorded(j) =>
         /\ SettledRun(run_id[j])
         /\ ResultsOf(run_id[j]) = Counted(summary[j])
         /\ DetailOf(run_id[j]) = Detailed(summary[j])

LEMMA DoneIsSettled ==
  ASSUME NEW r \in DOMAIN runs, runs[r].status = "done"
  PROVE  SettledRun(r)
  BY DEF SettledRun

\* Control comes to the end of run_diff from its last store call only, and no
\* job enters run_diff twice.
Early == InTry \cup {"idle", "created"}

LEMMA ControlStep ==
  ASSUME OnceInv, [NextViews]_allvars, NEW j \in Job
  PROVE  /\ pc'[j] \in Early => pc[j] \in Early
         /\ pc'[j] = "returned" => SetDone(j) \/ (pc[j] = "returned" /\ summary'[j] = summary[j])
<1>1. TypeOK
  BY DEF OnceInv, IInv
<1>2. ASSUME NEW i \in Job, Work(i) \/ KillCommand(i)
      PROVE  /\ pc'[j] \in Early => pc[j] \in Early
             /\ pc'[j] = "returned" => SetDone(j) \/ (pc[j] = "returned" /\ summary'[j] = summary[j])
  <2>1. CASE i # j
    BY <1>1, <1>2, <2>1, OthersIdle DEF Idle
  <2>2. CASE i = j
    BY <1>1, <1>2, <2>2
    DEF Work, SpawnWorker, SaveSchemaDiff, DiffTable, AddRowChanges, CountTable, SetSummary, SetDone,
        Raise, SetError, SetErrorFails, ExitCommand, KillCommand, GoTo, TypeOK, Early, InTry
  <2> QED BY <2>1, <2>2
<1>3. ASSUME NEW i \in Job, StartRun(i) \/ RunCommand(i)
      PROVE  /\ pc'[j] \in Early => pc[j] \in Early
             /\ pc'[j] = "returned" => pc[j] = "returned" /\ summary'[j] = summary[j]
  BY <1>1, <1>3 DEF StartRun, RunCommand, CreateRun, GoTo, TypeOK, Early, InTry
<1>4. ASSUME NEW i \in CliJobs, ExportFails(i)
      PROVE  /\ pc'[j] \in Early => pc[j] \in Early
             /\ pc'[j] = "returned" => pc[j] = "returned" /\ summary'[j] = summary[j]
  BY <1>1, <1>4 DEF ExportFails, LeaveRunDiff, GoTo, TypeOK, Job, Early, InTry
<1>5. CASE CrashServer
  BY <1>1, <1>5 DEF CrashServer, LeaveRunDiff, Alive, Early, InTry
<1>6. ASSUME UNCHANGED vars \/ (\E r \in 1..seq : DeleteRun(r)) \/ (\E p \in Pages : Show(p))
      PROVE  pc' = pc /\ summary' = summary
  BY <1>6 DEF DeleteRun, Show, OpenPage, ReadSchemaChanges, ReadTableResults, ClosePage, vars, local
<1> QED BY <1>2, <1>3, <1>4, <1>5, <1>6, ViewsAreSteps DEF Next

LEMMA ReturnedStep ==
  ASSUME OnceInv, [NextViews]_allvars, NEW j \in Job, Returned(j)
  PROVE  Returned(j)'
<1>1. /\ OnceInv' /\ TypeOK /\ JobOfRun(j) /\ JobMatchesStore(j) /\ VisitsOnce(j)
      /\ Steady(run_id[j])
  BY ViewsStep DEF OnceInv, IInv
<1> SUFFICES ASSUME pc'[j] = "returned"
             PROVE  Returned(j)'
  BY DEF Returned
<1>2. CASE pc[j] = "returned" /\ summary'[j] = summary[j]
  <2>1. PICK r, S : r = run_id[j] /\ S = summary[j]
    OBVIOUS
  <2>2. r \in 1..seq /\ r = run_id'[j] /\ S = summary'[j]
    BY <1>1, <1>2, <2>1, ViewsStep DEF JobOfRun, TypeOK
  <2>3. /\ Once(S)
        /\ r \in DOMAIN runs => SettledRun(r) /\ ResultsOf(r) = Counted(S) /\ DetailOf(r) = Detailed(S)
    BY <1>2, <2>1 DEF Returned, Recorded
  <2>4. r \in DOMAIN runs' =>
          /\ r \in DOMAIN runs /\ SettledRun(r)'
          /\ ResultsOf(r)' = ResultsOf(r) /\ DetailOf(r)' = DetailOf(r)
    BY <1>1, <2>1, <2>2, <2>3, SettledStays
  <2>5. run_id'[j] \in DOMAIN runs' =>
          /\ SettledRun(run_id[j])'
          /\ ResultsOf(run_id[j])' = Counted(summary[j])'
          /\ DetailOf(run_id[j])' = Detailed(summary[j])'
    BY <2>2, <2>3, <2>4 DEF SettledRun, ResultsOf, DetailOf, Counted, Detailed
  <2>6. Once(summary[j])'
    BY <2>2, <2>3 DEF Once
  <2> QED BY <2>5, <2>6 DEF Returned, Recorded
<1>3. CASE SetDone(j)
  <2>1. /\ pc[j] = "status" /\ run_id' = run_id /\ UNCHANGED <<table_results, row_changes>>
        /\ DOMAIN runs' = DOMAIN runs /\ j \notin WebJobs
        /\ Recorded(j) => runs'[run_id[j]].status = "done"
    <3>1. /\ pc[j] = "status" /\ SetStatus(j, "done") /\ j \notin WebJobs
      BY <1>1, <1>3, DiffRunsAssumption DEF SetDone, GoTo, TypeOK, Job
    <3> QED BY <1>1, <3>1 DEF SetStatus, Recorded, TypeOK
  <2>2. summary'[j] = summary[j]
    BY <1>3, <2>1 DEF SetDone, LeaveRunDiff
  <2>3. Once(summary[j])
    BY <1>1, <2>1 DEF VisitsOnce, Had
  <2>4. Recorded(j) => /\ ResultsOf(run_id[j]) = Counted(summary[j])
                       /\ DetailOf(run_id[j]) = Detailed(summary[j])
    BY <1>1, <2>1 DEF JobMatchesStore
  <2>5. ResultsOf(run_id[j])' = ResultsOf(run_id[j]) /\ DetailOf(run_id[j])' = DetailOf(run_id[j])
    BY <2>1 DEF ResultsOf, DetailOf
  <2> QED BY <2>1, <2>2, <2>3, <2>4, <2>5 DEF Returned, Recorded, SettledRun, Once, Counted, Detailed
<1> QED BY <1>2, <1>3, ControlStep

-----------------------------------------------------------------------------
(* The export.                                                              *)

ExportRecord == [at : {"none", "printed", "run", "tables", "written"},
                 printed : SUBSET TableResult, tables : SUBSET TableResult,
                 detail : SUBSET [table : Tables, rows : SUBSET (1..MaxRows)],
                 schema : SUBSET Tables]

\* What a command that works on run r has printed and read so far, e, is what
\* the store holds while it holds the run.
Exported(e, r) ==
  /\ e.at \notin {"tables", "written"} => e.detail = {}
  /\ e.at # "none" =>
       /\ r \in 1..seq
       /\ r \in DOMAIN runs =>
            /\ SettledRun(r)
            /\ e.printed = {x \in ResultsOf(r) : x.n > 0}
            /\ e.at \in {"tables", "written"} => e.tables = ResultsOf(r)
            /\ \A x \in e.detail : x.rows = 1..NumRows(r, x.table)
            /\ e.at = "written" => e.schema = SchemaOf(r)
  /\ e.at \in {"tables", "written"} => e.tables = {} \/ e.printed = {x \in e.tables : x.n > 0}

\* What it has read, e, against what run_diff had found, S.
Drawn(e, S) ==
  /\ e.at \in {"tables", "written"} => e.tables \in {Counted(S), {}}
  /\ \A x \in e.detail, y \in S : x.table = y.table => x.rows \in {1..y.listed, {}}

ExportInv ==
  /\ OnceInv
  /\ export \in [CliJobs -> ExportRecord]
  /\ \A j \in CliJobs :
       /\ Returned(j) /\ Exported(export[j], run_id[j])
       /\ pc[j] \in Early => export[j].at = "none"
       /\ pc[j] = "returned" => Drawn(export[j], summary[j])

LEMMA ExportStays ==
  ASSUME NEW e, NEW r, Exported(e, r), Steady(r)
  PROVE  Exported(e, r)'
<1> SUFFICES ASSUME e.at # "none"
             PROVE  Exported(e, r)'
  BY DEF Exported
<1>1. r \in 1..seq /\ r \in 1..seq'
  BY DEF Exported, Steady
<1>2. ASSUME r \in DOMAIN runs'
      PROVE  /\ r \in DOMAIN runs /\ SettledRun(r)'
             /\ ResultsOf(r)' = ResultsOf(r) /\ SchemaOf(r)' = SchemaOf(r)
             /\ \A t : NumRows(r, t)' = NumRows(r, t)
  BY <1>1, <1>2, SettledStays DEF Exported
<1> QED BY <1>1, <1>2 DEF Exported

\* The rows exported of a table are all of it.
LEMMA ExportedRowsAreAll ==
  ASSUME TypeOK, NEW r, NEW t
  PROVE  ExportedRows(r, t) = 1..NumRows(r, t) /\ ExportedRows(r, t) \subseteq 1..MaxRows
<1>1. NumRows(r, t) \in 0..MaxRows /\ MaxRows \in Nat
  BY NumRowsTyped, DiffRunsAssumption
<1> QED BY <1>1 DEF ExportedRows, GetRowChanges

LEMMA ReadIsExported ==
  ASSUME ExportInv, NEW j \in CliJobs,
         PrintSummary(j) \/ ExportRun(j) \/ ExportTables(j) \/ ExportDetail(j) \/ WriteExport(j)
  PROVE  /\ export' \in [CliJobs -> ExportRecord]
         /\ Exported(export'[j], run_id[j]) /\ Drawn(export'[j], summary[j])
         /\ \A i \in CliJobs : i # j => export'[i] = export[i]
<1> DEFINE e == export[j]
           r == run_id[j]
           S == summary[j]
<1>1. /\ IInv /\ TypeOK /\ NoOrphanRows /\ j \in Job /\ JobOfRun(j) /\ Returned(j)
      /\ e \in ExportRecord /\ Exported(e, r) /\ export \in [CliJobs -> ExportRecord]
      /\ ResultsOf(r) \subseteq TableResult /\ SchemaOf(r) \subseteq Tables
      /\ S \in SUBSET TableDiff
  BY ReadsTyped DEF ExportInv, OnceInv, IInv, Job, TypeOK
<1>2. pc[j] = "returned"
  BY DEF PrintSummary, ExportRun, ExportTables, ExportDetail, WriteExport
<1>3. /\ r \in 1..seq
      /\ Once(S) /\ Drawn(e, S)
      /\ r \in DOMAIN runs => SettledRun(r) /\ ResultsOf(r) = Counted(S) /\ DetailOf(r) = Detailed(S)
      /\ r \notin DOMAIN runs => ResultsOf(r) = {} /\ DetailOf(r) = {}
  BY <1>1, <1>2, GoneIsEmpty DEF JobOfRun, TypeOK, Returned, Recorded, ExportInv
<1> HIDE DEF e, r, S
<1> DEFINE Becomes(f) == f \in ExportRecord /\ export' = [export EXCEPT ![j] = f]
<1>4. ASSUME NEW f, Becomes(f), Exported(f, r), Drawn(f, S)
      PROVE  /\ export' \in [CliJobs -> ExportRecord]
             /\ Exported(export'[j], r) /\ Drawn(export'[j], S)
             /\ \A i \in CliJobs : i # j => export'[i] = export[i]
  BY <1>1, <1>4
<1> HIDE DEF Becomes
<1>5. CASE PrintSummary(j)
  <2> DEFINE f == [e EXCEPT !.at = "printed", !.printed = {x \in ResultsOf(r) : x.n > 0}]
  <2>1. Becomes(f) /\ e.at = "none"
    BY <1>1, <1>5 DEF PrintSummary, ExportRecord, e, r, Becomes
  <2>2. f.at = "printed" /\ f.printed = {x \in ResultsOf(r) : x.n > 0} /\ f.detail = e.detail
    BY <1>1 DEF ExportRecord
  <2>3. Exported(f, r) /\ Drawn(f, S)
    BY <1>1, <1>3, <2>1, <2>2 DEF Exported, Drawn
  <2> HIDE DEF f
  <2> QED BY <1>4, <2>1, <2>3 DEF r, S
<1>6. CASE ExportRun(j)
  <2> DEFINE f == [e EXCEPT !.at = "run"]
  <2>1. Becomes(f) /\ e.at = "printed"
    BY <1>1, <1>6 DEF ExportRun, ExportRecord, e, Becomes
  <2>2. f.at = "run" /\ f.printed = e.printed /\ f.detail = e.detail
    BY <1>1 DEF ExportRecord
  <2>3. Exported(f, r) /\ Drawn(f, S)
    BY <1>1, <1>3, <2>1, <2>2 DEF Exported, Drawn
  <2> HIDE DEF f
  <2> QED BY <1>4, <2>1, <2>3 DEF r, S
<1>7. CASE ExportTables(j)
  <2> DEFINE f == [e EXCEPT !.at = "tables", !.tables = ResultsOf(r)]
  <2>1. Becomes(f) /\ e.at = "run"
    BY <1>1, <1>7 DEF ExportTables, ExportRecord, e, r, Becomes
  <2>2. f.at = "tables" /\ f.tables = ResultsOf(r) /\ f.printed = e.printed /\ f.detail = {}
    BY <1>1, <2>1 DEF ExportRecord, Exported
  <2>3. Exported(f, r) /\ Drawn(f, S)
    BY <1>1, <1>3, <2>1, <2>2 DEF Exported, Drawn
  <2> HIDE DEF f
  <2> QED BY <1>4, <2>1, <2>3 DEF r, S
<1>8. CASE ExportDetail(j)
  <2>1. PICK t \in TablesOf(e.tables) \ TablesOf(e.detail) :
          export' = [export EXCEPT ![j].detail = @ \cup {[table |-> t, rows |-> ExportedRows(r, t)]}]
    BY <1>8 DEF ExportDetail, e, r
  <2> DEFINE x == [table |-> t, rows |-> ExportedRows(r, t)]
             f == [e EXCEPT !.detail = @ \cup {x}]
  <2>2. e.at = "tables" /\ t \in Tables /\ ExportedRows(r, t) = 1..NumRows(r, t)
        /\ ExportedRows(r, t) \subseteq 1..MaxRows
    BY <1>1, <1>3, <1>8, <2>1, ExportedRowsAreAll DEF ExportDetail, ExportRecord, TablesOf, TableResult, e
  <2>3. x \in [table : Tables, rows : SUBSET (1..MaxRows)] /\ x.table = t /\ x.rows = 1..NumRows(r, t)
    BY <2>2
  <2> HIDE DEF x
  <2>4. Becomes(f)
    BY <1>1, <2>1, <2>3 DEF ExportRecord, e, x, Becomes
  <2>5. /\ f.at = "tables" /\ f.tables = e.tables /\ f.printed = e.printed
        /\ f.detail = e.detail \cup {x}
    BY <1>1, <2>2 DEF ExportRecord
  <2> HIDE DEF f
  <2>6. ASSUME NEW y \in S, y.table = t
        PROVE  x.rows \in {1..y.listed, {}}
    <3>1. CASE r \in DOMAIN runs
      BY <1>1, <1>3, <2>3, <2>6, <3>1, NumRowsOfDiff
    <3>2. CASE r \notin DOMAIN runs
      <4>1. NumRows(r, t) = 0
        BY <1>3, <3>2 DEF NumRows, TablesOf
      <4> QED BY <2>3, <4>1
    <3> QED BY <3>1, <3>2
  <2>7. Exported(f, r) /\ Drawn(f, S)
    BY <1>1, <1>3, <2>2, <2>3, <2>5, <2>6 DEF Exported, Drawn
  <2> QED BY <1>4, <2>4, <2>7 DEF r, S
<1>9. CASE WriteExport(j)
  <2> DEFINE f == [e EXCEPT !.at = "written", !.schema = SchemaOf(r)]
  <2>1. Becomes(f) /\ e.at = "tables"
    BY <1>1, <1>9 DEF WriteExport, ExportRecord, e, r, Becomes
  <2>2. /\ f.at = "written" /\ f.tables = e.tables /\ f.printed = e.printed /\ f.detail = e.detail
        /\ f.schema = SchemaOf(r)
    BY <1>1 DEF ExportRecord
  <2>3. Exported(f, r) /\ Drawn(f, S)
    BY <1>1, <1>3, <2>1, <2>2 DEF Exported, Drawn
  <2> HIDE DEF f
  <2> QED BY <1>4, <2>1, <2>3 DEF r, S
<1> QED BY <1>5, <1>6, <1>7, <1>8, <1>9 DEF r, S

LEMMA ExportStep ==
  ASSUME ExportInv, [NextViews]_allvars
  PROVE  ExportInv'
<1>1. /\ OnceInv /\ OnceInv' /\ export \in [CliJobs -> ExportRecord] /\ (\A r : Steady(r))
      /\ \A i \in CliJobs :
           /\ i \in Job /\ Returned(i) /\ Exported(export[i], run_id[i])
           /\ pc[i] \in Early => export[i].at = "none"
           /\ pc[i] = "returned" => Drawn(export[i], summary[i])
  BY ViewsStep DEF ExportInv, Job
<1>2. \A i \in CliJobs : Returned(i)'
  BY <1>1, ReturnedStep
<1>3. ASSUME NEW i \in CliJobs, export'[i] = export[i]
      PROVE  /\ Exported(export[i], run_id[i])'
             /\ pc'[i] \in Early => export'[i].at = "none"
             /\ pc'[i] = "returned" => Drawn(export[i], summary[i])'
  <2>1. PICK e, r : e = export[i] /\ r = run_id[i]
    OBVIOUS
  <2>2. Exported(e, r) /\ Exported(e, r)'
    BY <1>1, <2>1, ExportStays
  <2>3. Exported(export[i], run_id[i])'
    <3>1. CASE e.at = "none"
      BY <1>3, <2>1, <2>2, <3>1 DEF Exported
    <3>2. CASE e.at # "none"
      <4>1. r # 0
        BY <2>2, <3>2 DEF Exported
      <4>2. r = run_id'[i] /\ e = export'[i]
        BY <1>1, <1>3, <2>1, <4>1, ViewsStep
      <4> QED BY <2>2, <4>2 DEF Exported, NumRows, SettledRun, ResultsOf, SchemaOf, DetailOf, TablesOf
    <3> QED BY <3>1, <3>2
  <2>4. pc'[i] \in Early => export'[i].at = "none"
    BY <1>1, <1>3, ControlStep
  <2>5. ASSUME pc'[i] = "returned"
        PROVE  Drawn(export[i], summary[i])'
    <3>1. CASE SetDone(i)
      <4>1. export'[i].at = "none" /\ export'[i].detail = {}
        BY <1>1, <1>3, <2>1, <2>2, <3>1 DEF SetDone, Early, InTry, Exported
      <4> QED BY <4>1 DEF Drawn
    <3>2. CASE pc[i] = "returned" /\ summary'[i] = summary[i]
      <4>1. PICK S : S = summary[i]
        OBVIOUS
      <4>2. Drawn(e, S) /\ e = export'[i] /\ S = summary'[i]
        BY <1>1, <1>3, <2>1, <3>2, <4>1
      <4> QED BY <4>2 DEF Drawn, Counted
    <3> QED BY <1>1, <2>5, <3>1, <3>2, ControlStep
  <2> QED BY <2>3, <2>4, <2>5
<1>4. CASE UNCHANGED export
  BY <1>1, <1>2, <1>3, <1>4 DEF ExportInv
<1>5. ASSUME NEW j \in CliJobs,
             PrintSummary(j) \/ ExportRun(j) \/ ExportTables(j) \/ ExportDetail(j) \/ WriteExport(j)
      PROVE  ExportInv'
  <2>1. /\ export' \in [CliJobs -> ExportRecord]
        /\ Exported(export'[j], run_id[j]) /\ Drawn(export'[j], summary[j])
        /\ \A i \in CliJobs : i # j => export'[i] = export[i]
    BY <1>5, ReadIsExported
  <2>2. UNCHANGED vars /\ pc[j] = "returned"
    BY <1>5 DEF PrintSummary, ExportRun, ExportTables, ExportDetail, WriteExport
  <2>3. Exported(export[j], run_id[j])'
    BY <2>1, <2>2 DEF vars, store, local, Exported, NumRows, SettledRun, ResultsOf,
       SchemaOf, DetailOf, TablesOf
  <2>4. Drawn(export[j], summary[j])' /\ pc'[j] \notin Early
    BY <2>1, <2>2 DEF vars, local, Drawn, Counted, Early, InTry
  <2> QED BY <1>1, <1>2, <1>3, <2>1, <2>3, <2>4 DEF ExportInv
<1>6. UNCHANGED export \/ \E j \in CliJobs :
        PrintSummary(j) \/ ExportRun(j) \/ ExportTables(j) \/ ExportDetail(j) \/ WriteExport(j)
  BY DEF NextViews, Run, Export, ExportFails, Others, Follows, Browse, Poll, Refresh, OpenRun, OpenTable,
         CountRows, ListRows, FollowNext, FollowPrev, Follow, CloseTab, allvars
<1> QED BY <1>4, <1>5, <1>6

LEMMA ExportInit == InitViews => ExportInv
<1> SUFFICES ASSUME InitViews PROVE ExportInv
  OBVIOUS
<1>1. Init
  BY DEF InitViews
<1>2. OnceInv
  BY <1>1, InvInit DEF Init, OnceInv, VisitsOnce, Once, Had
<1> QED BY <1>1, <1>2 DEF InitViews, Init, ExportInv, ExportRecord, NoExport, Returned, Exported, Job

\* An export is the whole of its run or, of a run that was deleted meanwhile,
\* holds of each table what run_diff had found or nothing, for any number of
\* commands, tables, runs and rows, whoever deletes and dies: once run_diff has
\* returned nothing of the run changes until it is deleted, and its id does not
\* come back.
THEOREM ExportsAreWhole == SpecViews => []ExportIsWhole
<1>1. InitViews => ExportInv
  BY ExportInit
<1>2. ExportInv /\ [NextViews]_allvars => ExportInv'
  BY ExportStep
<1>3. ExportInv => ExportIsWhole
  BY RunViewsAssumption DEF ExportInv, Exported, Drawn, ExportIsWhole, Kept
<1> QED BY <1>1, <1>2, <1>3, PTL DEF SpecViews

-----------------------------------------------------------------------------
(* The pages of rows.                                                       *)

TabRecord == [at : {"closed", "polling", "refresh", "overview", "failed", "lost",
                    "count", "rows", "listed"},
              run : Nat, table : Tables \cup {"none"}, offset : 0..MaxRows, total : 0..MaxRows,
              rows : SUBSET (1..MaxRows), seen : SUBSET (1..MaxRows)]

OnTable == {"count", "rows", "listed"}

\* A tab on a table of a run that is still there is at a page that exists and
\* has seen all rows before it.
AtPage(g) ==
  LET n == NumRows(g.run, g.table)
  IN /\ g.offset = 0 \/ g.offset < n
     /\ g.seen \subseteq 1..n
     /\ \A i \in 1..n : i <= g.offset => i \in g.seen
     /\ g.at \in {"rows", "listed"} => g.total = n
     /\ g.at = "listed" => g.rows = GetRowChanges(g.run, g.table, Limit, g.offset) /\ g.rows \subseteq g.seen

Tabbed(g) ==
  /\ g.run \in 0..seq
  /\ g.at # "closed" => g.run \in 1..seq
  /\ Kept(g.run) /\ g.at \in OnTable \cup {"overview"} => SettledRun(g.run)
  /\ Kept(g.run) /\ g.at \in OnTable => AtPage(g)

TabInv ==
  /\ OnceInv
  /\ tab \in [Tabs -> TabRecord]
  /\ \A b \in Tabs : Tabbed(tab[b])

LEMMA TabStays ==
  ASSUME IInv, IInv', NEW g \in TabRecord, Tabbed(g), Steady(g.run)
  PROVE  Tabbed(g)'
<1>1. g.run \in 0..seq' /\ (g.at # "closed" => g.run \in 1..seq')
  BY DEF Tabbed, Steady, IInv, TypeOK
<1>2. ASSUME Kept(g.run)', g.at \in OnTable \cup {"overview"}
      PROVE  /\ Kept(g.run) /\ SettledRun(g.run)'
             /\ \A t : NumRows(g.run, t)' = NumRows(g.run, t)
  <2>1. g.run \in 1..seq
    BY <1>2 DEF Tabbed, OnTable
  <2> QED BY <1>2, <2>1, SettledStays DEF Tabbed, Kept
<1>3. ASSUME Kept(g.run)', g.at \in OnTable
      PROVE  AtPage(g)'
  <2>1. Kept(g.run) /\ AtPage(g) /\ \A t : NumRows(g.run, t)' = NumRows(g.run, t)
    BY <1>2, <1>3 DEF Tabbed
  <2> QED BY <2>1 DEF AtPage, GetRowChanges
<1> QED BY <1>1, <1>2, <1>3 DEF Tabbed

LEMMA ReadIsTabbed ==
  ASSUME TabInv, NEW b \in Tabs, Follows(b) \/ Browse(b)
  PROVE  /\ tab' \in [Tabs -> TabRecord]
         /\ Tabbed(tab'[b])
         /\ \A c \in Tabs : c # b => tab'[c] = tab[c]
<1>1. PICK g \in TabRecord : g = tab[b]
  BY DEF TabInv
<1>2. /\ IInv /\ TypeOK /\ NoOrphanRows /\ Tabbed(g) /\ tab \in [Tabs -> TabRecord]
      /\ MaxRows \in Nat /\ Limit \in Nat \ {0} /\ seq \in Nat
  BY <1>1, DiffRunsAssumption, RunViewsAssumption DEF TabInv, OnceInv, IInv, TypeOK
<1> DEFINE Becomes(h) == h \in TabRecord /\ tab' = [tab EXCEPT ![b] = h]
           Keeps == /\ tab' \in [Tabs -> TabRecord]
                    /\ Tabbed(tab'[b])
                    /\ \A c \in Tabs : c # b => tab'[c] = tab[c]
           N == NumRows(g.run, g.table)
<1>3. ASSUME NEW h, Becomes(h), Tabbed(h)
      PROVE  Keeps
  BY <1>2, <1>3
<1>4. Closed \in TabRecord
  BY <1>2 DEF Closed, TabRecord
<1>5. ASSUME g.at \in OnTable
      PROVE  /\ N \in 0..MaxRows /\ g.run \in 1..seq
             /\ Kept(g.run) => SettledRun(g.run) /\ AtPage(g)
             /\ g.offset \in 0..MaxRows /\ g.total \in 0..MaxRows
  BY <1>2, <1>5, NumRowsTyped DEF Tabbed, OnTable, Kept, TabRecord
<1>6. ASSUME NEW r \in 1..seq
      PROVE  /\ View(r) \in {"polling", "overview", "failed", "lost"}
             /\ View(r) = "overview" /\ Kept(r) => SettledRun(r)
  BY <1>2, <1>6, DoneIsSettled DEF View, Kept, TypeOK
<1> HIDE DEF Becomes, N
<1>7. ASSUME NEW r \in 1..seq, OpenRun(b, r)
      PROVE  Keeps
  <2> DEFINE h == [Closed EXCEPT !.run = r, !.at = View(r)]
  <2>1. h \in TabRecord /\ h.run = r /\ h.at = View(r)
    <3>1. r \in Nat /\ View(r) \in {"polling", "overview", "failed", "lost"}
      BY <1>2, <1>6
    <3> QED BY <1>4, <3>1 DEF TabRecord
  <2>2. tab' = [tab EXCEPT ![b] = h]
    BY <1>7 DEF OpenRun
  <2>3. Tabbed(h)
    BY <1>2, <1>6, <2>1 DEF Tabbed, OnTable
  <2> HIDE DEF h
  <2> QED BY <1>3, <2>1, <2>2, <2>3 DEF Becomes
<1>8. CASE Poll(b)
  <2> DEFINE h == [g EXCEPT !.at = "refresh"]
  <2>1. Becomes(h) /\ h.run = g.run /\ h.at = "refresh" /\ g.at = "polling"
    BY <1>1, <1>2, <1>8 DEF Poll, TabRecord, Becomes
  <2>2. Tabbed(h)
    BY <1>2, <2>1 DEF Tabbed, OnTable
  <2> HIDE DEF h
  <2> QED BY <1>3, <2>1, <2>2
<1>9. CASE Refresh(b)
  <2> DEFINE h == [g EXCEPT !.at = View(g.run)]
  <2>1. g.run \in 1..seq /\ g.at = "refresh"
    BY <1>1, <1>2, <1>9 DEF Refresh, Tabbed
  <2>2. Becomes(h) /\ h.run = g.run /\ h.at = View(g.run)
    BY <1>1, <1>2, <1>6, <1>9, <2>1 DEF Refresh, TabRecord, Becomes
  <2>3. Tabbed(h)
    BY <1>2, <1>6, <2>1, <2>2 DEF Tabbed, OnTable
  <2> HIDE DEF h
  <2> QED BY <1>3, <2>2, <2>3
<1>10. CASE CloseTab(b)
  <2>1. Becomes(Closed)
    BY <1>4, <1>10 DEF CloseTab, Becomes
  <2>2. Tabbed(Closed)
    BY <1>2 DEF Tabbed, OnTable, Closed
  <2> QED BY <1>3, <2>1, <2>2
<1>11. CASE OpenTable(b)
  <2>1. g.at = "overview" /\ g.run \in 1..seq /\ (Kept(g.run) => SettledRun(g.run))
    BY <1>1, <1>2, <1>11 DEF OpenTable, Tabbed
  <2>2. ASSUME NEW t \in TablesOf(ResultsOf(g.run)),
               tab' = [tab EXCEPT ![b] = [Closed EXCEPT !.at = "count", !.run = g.run, !.table = t]]
        PROVE  Keeps
    <3> DEFINE h == [Closed EXCEPT !.at = "count", !.run = g.run, !.table = t]
    <3>1. t \in Tables
      BY <1>2, <2>2, ReadsTyped DEF TablesOf, TableResult
    <3>2. /\ Becomes(h) /\ h.run = g.run /\ h.at = "count" /\ h.table = t
          /\ h.offset = 0 /\ h.seen = {}
      BY <1>2, <1>4, <2>2, <3>1 DEF TabRecord, Becomes, Closed
    <3>3. NumRows(h.run, h.table) \in 0..MaxRows
      BY <1>2, <2>1, <3>2, NumRowsTyped DEF Kept
    <3> HIDE DEF h
    <3>4. AtPage(h)
      BY <3>2, <3>3 DEF AtPage
    <3>5. Tabbed(h)
      BY <1>2, <2>1, <3>2, <3>4 DEF Tabbed
    <3> QED BY <1>3, <3>2, <3>5
  <2>3. ASSUME tab' = [tab EXCEPT ![b].at = "lost"]
        PROVE  Keeps
    <3> DEFINE h == [g EXCEPT !.at = "lost"]
    <3>1. Becomes(h) /\ h.run = g.run /\ h.at = "lost"
      BY <1>1, <1>2, <2>3 DEF TabRecord, Becomes
    <3>2. Tabbed(h)
      BY <1>2, <2>1, <3>1 DEF Tabbed, OnTable
    <3> HIDE DEF h
    <3> QED BY <1>3, <3>1, <3>2
  <2> QED BY <1>1, <1>11, <2>2, <2>3 DEF OpenTable
<1>12. CASE CountRows(b)
  <2> DEFINE h == [g EXCEPT !.at = "rows", !.total = N]
  <2>1. g.at = "count" /\ g.at \in OnTable
    BY <1>1, <1>12 DEF CountRows, OnTable
  <2>2. /\ Becomes(h) /\ h.at = "rows" /\ h.run = g.run /\ h.table = g.table
        /\ h.offset = g.offset /\ h.seen = g.seen /\ h.total = N
    BY <1>1, <1>2, <1>5, <1>12, <2>1 DEF CountRows, TabRecord, Becomes, N
  <2> HIDE DEF h
  <2>3. Kept(g.run) => AtPage(h)
    BY <1>5, <2>1, <2>2 DEF AtPage, N
  <2>4. Tabbed(h)
    BY <1>2, <1>5, <2>1, <2>2, <2>3 DEF Tabbed
  <2> QED BY <1>3, <2>2, <2>4
<1>13. CASE ListRows(b)
  <2> DEFINE rows == GetRowChanges(g.run, g.table, Limit, g.offset)
             h == [g EXCEPT !.at = "listed", !.rows = rows, !.seen = @ \cup rows]
  <2>1. g.at = "rows" /\ g.at \in OnTable
    BY <1>1, <1>13 DEF ListRows, OnTable
  <2>2. rows \subseteq 1..N /\ rows \subseteq 1..MaxRows
    BY <1>2, <1>5, <2>1 DEF GetRowChanges, N
  <2>3. /\ Becomes(h) /\ h.at = "listed" /\ h.run = g.run /\ h.table = g.table
        /\ h.offset = g.offset /\ h.seen = g.seen \cup rows /\ h.total = g.total /\ h.rows = rows
    <3> HIDE DEF rows
    <3>1. h \in TabRecord
      BY <2>2 DEF TabRecord
    <3>2. tab' = [tab EXCEPT ![b] = h]
      BY <1>1, <1>2, <1>13 DEF ListRows, rows, TabRecord
    <3> QED BY <3>1, <3>2 DEF TabRecord, Becomes
  <2> HIDE DEF h
  <2>4. Kept(g.run) => AtPage(h)
    BY <1>5, <2>1, <2>2, <2>3 DEF AtPage, N
  <2>5. Tabbed(h)
    BY <1>2, <1>5, <2>1, <2>3, <2>4 DEF Tabbed
  <2> QED BY <1>3, <2>3, <2>5
<1>14. ASSUME NEW offset \in 0..MaxRows, g.at = "listed", Follow(b, offset),
              Kept(g.run) => (offset = 0 \/ offset < N) /\ offset <= g.offset + Limit
       PROVE  Keeps
  <2> DEFINE h == [g EXCEPT !.at = "count", !.offset = offset, !.total = 0, !.rows = {}]
  <2>1. g.at \in OnTable
    BY <1>14 DEF OnTable
  <2>2. /\ Becomes(h) /\ h.at = "count" /\ h.run = g.run /\ h.table = g.table
        /\ h.offset = offset /\ h.seen = g.seen
    <3>1. h \in TabRecord
      <4> DEFINE k == [g EXCEPT !.at = "count", !.offset = offset]
      <4>1. 0 \in 0..MaxRows /\ {} \in SUBSET (1..MaxRows) /\ offset \in 0..MaxRows
        BY <1>2, <1>14
      <4>2. k \in TabRecord
        BY <1>1, <4>1 DEF TabRecord
      <4>3. h = [k EXCEPT !.total = 0, !.rows = {}]
        BY <1>1 DEF TabRecord
      <4> HIDE DEF h, k
      <4> QED BY <4>1, <4>2, <4>3 DEF TabRecord
    <3>2. tab' = [tab EXCEPT ![b] = h]
      BY <1>1, <1>2, <1>14 DEF Follow
    <3> QED BY <3>1, <3>2 DEF TabRecord, Becomes
  <2> HIDE DEF h
  <2>3. Kept(g.run) => AtPage(h)
    BY <1>2, <1>5, <1>14, <2>1, <2>2 DEF AtPage, N, GetRowChanges
  <2>4. Tabbed(h)
    BY <1>2, <1>5, <2>1, <2>2, <2>3 DEF Tabbed
  <2> QED BY <1>3, <2>2, <2>4
<1>15. CASE FollowNext(b)
  <2>1. /\ g.at = "listed" /\ g.offset + Limit < g.total /\ Follow(b, g.offset + Limit)
    BY <1>1, <1>15 DEF FollowNext, HasNext, NextOffset
  <2>2. /\ g.offset \in 0..MaxRows /\ g.total \in 0..MaxRows /\ (Kept(g.run) => g.total = N)
    BY <1>5, <2>1 DEF OnTable, AtPage, N
  <2>3. g.offset + Limit \in 0..MaxRows
    BY <1>2, <2>1, <2>2
  <2> QED BY <1>14, <2>1, <2>2, <2>3
<1>16. CASE FollowPrev(b)
  <2> DEFINE o == IF g.offset > Limit THEN g.offset - Limit ELSE 0
  <2>1. g.at = "listed" /\ Follow(b, o)
    BY <1>1, <1>16 DEF FollowPrev, PrevOffset
  <2>2. /\ g.offset \in 0..MaxRows /\ (Kept(g.run) => g.offset = 0 \/ g.offset < N)
        /\ N \in 0..MaxRows
    BY <1>5, <2>1 DEF OnTable, AtPage, N
  <2>3. o \in 0..MaxRows /\ (Kept(g.run) => (o = 0 \/ o < N) /\ o <= g.offset + Limit)
    BY <1>2, <2>2
  <2> HIDE DEF o
  <2> QED BY <1>14, <2>1, <2>3
<1> QED BY <1>7, <1>8, <1>9, <1>10, <1>11, <1>12, <1>13, <1>15, <1>16 DEF Follows, Browse

LEMMA TabStep ==
  ASSUME TabInv, [NextViews]_allvars
  PROVE  TabInv'
<1>1. /\ IInv /\ OnceInv' /\ IInv' /\ tab \in [Tabs -> TabRecord] /\ (\A r : Steady(r))
      /\ \A c \in Tabs : Tabbed(tab[c])
  BY ViewsStep DEF TabInv, OnceInv
<1>2. ASSUME NEW c \in Tabs, tab'[c] = tab[c]
      PROVE  Tabbed(tab[c])'
  <2>1. PICK g \in TabRecord : g = tab[c]
    BY <1>1
  <2>2. Tabbed(g)' /\ g = tab'[c]
    BY <1>1, <1>2, <2>1, TabStays
  <2> QED BY <2>2 DEF Tabbed, AtPage, Kept, NumRows, GetRowChanges, SettledRun, ResultsOf, DetailOf
<1>3. CASE UNCHANGED tab
  BY <1>1, <1>2, <1>3 DEF TabInv
<1>4. ASSUME NEW b \in Tabs, Follows(b) \/ Browse(b)
      PROVE  TabInv'
  <2>1. /\ tab' \in [Tabs -> TabRecord]
        /\ Tabbed(tab'[b])
        /\ \A c \in Tabs : c # b => tab'[c] = tab[c]
    BY <1>4, ReadIsTabbed
  <2>2. UNCHANGED vars
    BY <1>4 DEF Follows, Browse, Poll, Refresh, OpenRun, OpenTable, CountRows, ListRows, FollowNext,
                FollowPrev, Follow, CloseTab
  <2>3. Tabbed(tab[b])'
    BY <2>1, <2>2 DEF vars, store, Tabbed, AtPage, Kept, NumRows, GetRowChanges, SettledRun,
       ResultsOf, DetailOf
  <2> QED BY <1>1, <1>2, <2>1, <2>3 DEF TabInv
<1>5. UNCHANGED tab \/ \E b \in Tabs : Follows(b) \/ Browse(b)
  BY DEF NextViews, Run, Export, PrintSummary, ExportRun, ExportFails, ExportTables, ExportDetail,
         WriteExport, Others, allvars
<1> QED BY <1>3, <1>4, <1>5

LEMMA TabInit == InitViews => TabInv
<1> SUFFICES ASSUME InitViews PROVE TabInv
  OBVIOUS
<1>1. OnceInv
  BY ExportInit DEF ExportInv
<1>2. Closed \in TabRecord /\ Closed.run = 0 /\ Closed.at = "closed" /\ seq = 0
  BY DiffRunsAssumption DEF Closed, TabRecord, InitViews, Init
<1>3. Tabbed(Closed)
  BY <1>2 DEF Tabbed, OnTable
<1> QED BY <1>1, <1>2, <1>3 DEF InitViews, TabInv

LEMMA TabsTyped == TabInv /\ ExportInv => ViewsTypeOK
  BY DEF TabInv, ExportInv, TabRecord, ExportRecord, Tabbed, ViewsTypeOK

LEMMA TabsCover == TabInv => PagesCoverRows
<1> SUFFICES ASSUME TabInv, NEW b \in Tabs, tab[b].at = "listed", Kept(tab[b].run)
             PROVE  /\ Cardinality(tab[b].rows) =
                         (IF tab[b].total > 0 THEN ShownTo(b) - ShownFrom(b) + 1 ELSE 0)
                    /\ tab[b].rows = {} => tab[b].total = 0
                    /\ ~HasNext(b) => tab[b].seen = 1..NumRows(tab[b].run, tab[b].table)
  BY DEF PagesCoverRows
<1>1. PICK g \in TabRecord : g = tab[b]
  BY DEF TabInv
<1>2. PICK n : n = NumRows(g.run, g.table)
  OBVIOUS
<1>3. /\ g.offset = 0 \/ g.offset < n
      /\ g.seen \subseteq 1..n
      /\ \A i \in 1..n : i <= g.offset => i \in g.seen
      /\ g.total = n
      /\ g.rows = {i \in g.offset + 1 .. g.offset + Limit : i <= n}
      /\ g.rows \subseteq g.seen
  BY <1>1, <1>2 DEF TabInv, Tabbed, AtPage, OnTable, GetRowChanges
<1>4. /\ g.offset \in Nat /\ n \in Nat /\ Limit \in Nat \ {0}
  BY <1>1, <1>3, RunViewsAssumption, DiffRunsAssumption DEF TabRecord
<1> DEFINE upTo == IF g.offset + Limit < n THEN g.offset + Limit ELSE n
<1>5. upTo \in Nat /\ g.rows = (g.offset + 1)..upTo
  <2> DEFINE o == g.offset
  <2>1. o \in Nat /\ upTo \in Nat /\ (\A i \in Int : i <= upTo <=> i <= o + Limit /\ i <= n)
    BY <1>4
  <2>2. g.rows = {i \in o + 1 .. o + Limit : i <= n}
    BY <1>3
  <2> HIDE DEF o, upTo
  <2>3. g.rows = (o + 1)..upTo
    BY <1>4, <2>1, <2>2
  <2> QED BY <2>1, <2>3 DEF o
<1>6. ASSUME n > 0
      PROVE  g.offset + 1 \in (g.offset + 1)..upTo
  BY <1>3, <1>4, <1>6
<1>7. /\ ShownTo(b) = upTo /\ ShownFrom(b) = (IF n > 0 THEN g.offset + 1 ELSE 0)
      /\ HasNext(b) <=> g.offset + Limit < n
  BY <1>1, <1>3 DEF ShownTo, ShownFrom, HasNext
<1>8. ~HasNext(b) => upTo = n
  BY <1>7
<1>9. n = 0 => g.offset + 1 > upTo
  BY <1>3, <1>4
<1> HIDE DEF upTo
<1>10. Cardinality(g.rows) = IF n > 0 THEN ShownTo(b) - ShownFrom(b) + 1 ELSE 0
  <2>1. g.offset + 1 \in Int /\ upTo \in Int
    BY <1>4, <1>5
  <2>2. Cardinality((g.offset + 1)..upTo) =
          IF g.offset + 1 > upTo THEN 0 ELSE upTo - (g.offset + 1) + 1
    BY <2>1, FS_Interval
  <2> QED BY <1>4, <1>5, <1>6, <1>7, <1>9, <2>2
<1>11. g.rows = {} => n = 0
  <2>1. n > 0 => g.offset + 1 \in g.rows
    BY <1>5, <1>6
  <2>2. n > 0 => g.rows # {}
    BY <2>1
  <2> QED BY <1>4, <2>2
<1>12. ASSUME ~HasNext(b)
       PROVE  g.seen = 1..n
  <2>1. ASSUME NEW i \in 1..n
        PROVE  i \in g.seen
    <3>1. CASE i <= g.offset
      BY <1>3, <2>1, <3>1
    <3>2. CASE i > g.offset
      <4>1. i \in (g.offset + 1)..upTo
        BY <1>4, <1>8, <1>12, <2>1, <3>2
      <4> QED BY <1>3, <1>5, <4>1
    <3> QED BY <1>4, <2>1, <3>1, <3>2
  <2> QED BY <1>3, <2>1
<1> QED BY <1>1, <1>2, <1>3, <1>10, <1>11, <1>12

\* A page of a table's rows holds the rows its range announces, and whoever
\* comes to the last page by the links has seen all of them, for any number of
\* rows, any limit, any number of tabs and whatever the workers do: the rows of
\* a run that has an overview do not change, and offsets move by the limit.
THEOREM PagesCover == SpecViews => []PagesCoverRows
<1>1. InitViews => TabInv
  BY TabInit
<1>2. TabInv /\ [NextViews]_allvars => TabInv'
  BY TabStep
<1> QED BY <1>1, <1>2, TabsCover, PTL DEF SpecViews

\* What tabs and commands have read is typed.
THEOREM ViewsTyped == SpecViews => []ViewsTypeOK
<1>1. InitViews => TabInv /\ ExportInv
  BY TabInit, ExportInit
<1>2. TabInv /\ [NextViews]_allvars => TabInv'
  BY TabStep
<1>3. ExportInv /\ [NextViews]_allvars => ExportInv'
  BY ExportStep
<1> QED BY <1>1, <1>2, <1>3, TabsTyped, PTL DEF SpecViews
=============================================================================
