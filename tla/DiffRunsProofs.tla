--------------------------- MODULE DiffRunsProofs ---------------------------
(***************************************************************************)
(* Proofs about DiffRuns, for any number of jobs, tables, rows and pages.  *)
(***************************************************************************)
EXTENDS DiffRuns, TLAPS

\* What is in the store of a run is typed.
LEMMA ReadsTyped ==
  ASSUME TypeOK, NEW r
  PROVE  /\ ResultsOf(r) \subseteq TableResult
         /\ SchemaOf(r) \subseteq Tables
         /\ DetailOf(r) \subseteq [table : Tables, rows : 1..MaxRows]
  BY DEF TypeOK, ResultsOf, SchemaOf, DetailOf, TableResult, TablesOf

\* A summary that was stored is told from one that was not.
LEMMA SummaryIsStored ==
  ASSUME NEW S \in SUBSET TableDiff
  PROVE  S # NoSummary
<1>1. NoDiff \notin TableDiff
  BY DEF NoDiff, TableDiff, Status, Whole
<1> QED BY <1>1 DEF NoSummary

\* What one more diff adds to the results and to the detail.
LEMMA CountedAdds ==
  ASSUME NEW S, NEW x
  PROVE  Counted(S \cup {x}) =
           Counted(S) \cup {[table |-> x.table, status |-> x.status, n |-> x.n]}
  BY DEF Counted

LEMMA DetailedAdds ==
  ASSUME NEW S, NEW x
  PROVE  Detailed(S \cup {x}) =
           IF x.listed > 0 THEN Detailed(S) \cup {[table |-> x.table, rows |-> x.listed]}
           ELSE Detailed(S)
  BY DEF Detailed

-----------------------------------------------------------------------------
(* The type invariant.                                                      *)

LEMMA TypeInit == Init => TypeOK
  BY DiffRunsAssumption
  DEF Init, TypeOK, Job, PC, Alive, InTry, NoDiff, Page, BlankPage, NoSummary

\* One action per step; the type of td while a table's rows are being saved
\* comes from JobOfRun.
LEMMA TypeStep ==
  ASSUME TypeOK, \A j \in Job : JobOfRun(j), [Next]_vars
  PROVE  TypeOK'
<1> USE DiffRunsAssumption
<1>1. ASSUME NEW j \in Job, NEW label \in {"created", "resolve"}, CreateRun(j, label)
      PROVE  TypeOK'
  BY <1>1 DEF CreateRun, GoTo, NextRunId, TypeOK, PC, Alive, InTry
<1>2. ASSUME NEW j \in Job, SpawnWorker(j)
      PROVE  TypeOK'
  BY <1>2 DEF SpawnWorker, GoTo, store, local, TypeOK, PC, Alive, InTry
<1>3. ASSUME NEW j \in Job, SaveSchemaDiff(j)
      PROVE  TypeOK'
  BY <1>3 DEF SaveSchemaDiff, Present, GoTo, TypeOK, PC, Alive, InTry, Status, Whole
<1>4. ASSUME NEW j \in Job, DiffTable(j)
      PROVE  TypeOK'
  <2>1. PICK w \in todo[j], d \in Diffs :
          /\ SaveTableResult(j, w, d.n)
          /\ td' = [td EXCEPT ![j] = [table |-> w.table, status |-> w.status,
                                     n |-> d.n, listed |-> d.listed]]
    BY <1>4 DEF DiffTable
  <2>2. d.n \in 0..MaxRows /\ d.listed \in 0..MaxRows
    OBVIOUS
  <2> QED BY <1>4, <2>1, <2>2 DEF DiffTable, SaveTableResult, GoTo, TypeOK, PC, Alive, InTry, TableDiff
<1>5. ASSUME NEW j \in Job, AddRowChanges(j)
      PROVE  TypeOK'
  <2>1. td[j] \in TableDiff
    BY <1>5 DEF AddRowChanges, JobOfRun
  <2>3. row_changes' \subseteq [run : Nat, table : Tables, rows : 1..MaxRows]
    BY <1>5, <2>1 DEF AddRowChanges, TypeOK, TableDiff
  <2> QED BY <1>5, <2>1, <2>3 DEF AddRowChanges, GoTo, TypeOK, PC, Alive, InTry
<1>6. ASSUME NEW j \in Job, CountTable(j)
      PROVE  TypeOK'
  BY <1>6 DEF CountTable, SaveTableResult, TypeOK, TableDiff
<1>7. ASSUME NEW j \in Job, SetSummary(j)
      PROVE  TypeOK'
  BY <1>7 DEF SetSummary, GoTo, local, TypeOK, PC, Alive, InTry
<1>8. ASSUME NEW j \in Job, SetDone(j)
      PROVE  TypeOK'
  BY <1>8 DEF SetDone, SetStatus, LeaveRunDiff, GoTo, TypeOK, PC, Alive, InTry
<1>9. ASSUME NEW j \in Job, Raise(j)
      PROVE  TypeOK'
  BY <1>9 DEF Raise, LeaveRunDiff, GoTo, store, TypeOK, PC, Alive, InTry
<1>10. ASSUME NEW j \in Job, SetError(j)
       PROVE  TypeOK'
  BY <1>10 DEF SetError, SetStatus, GoTo, TypeOK, PC, Alive, InTry
<1>11. ASSUME NEW j \in Job, SetErrorFails(j)
       PROVE  TypeOK'
  BY <1>11 DEF SetErrorFails, GoTo, store, local, TypeOK, PC, Alive, InTry
<1>12. ASSUME NEW j \in Job, ExitCommand(j)
       PROVE  TypeOK'
  BY <1>12 DEF ExitCommand, LeaveRunDiff, GoTo, store, TypeOK, PC, Alive, InTry
<1>13. ASSUME NEW j \in Job, KillCommand(j)
       PROVE  TypeOK'
  BY <1>13 DEF KillCommand, LeaveRunDiff, GoTo, store, TypeOK, PC, Alive, InTry
<1>14. ASSUME NEW r \in 1..seq, DeleteRun(r)
       PROVE  TypeOK'
  BY <1>14 DEF DeleteRun, local, TypeOK
<1>15. CASE CrashServer
  BY <1>15 DEF CrashServer, LeaveRunDiff, store, TypeOK, PC, Alive, InTry, Page, BlankPage, NoSummary
<1>16. ASSUME NEW p \in Pages, Show(p)
       PROVE  TypeOK'
  <2>1. UNCHANGED <<store, jobs, pc, local>>
    BY <1>16 DEF Show, OpenPage, ReadSchemaChanges, ReadTableResults, ClosePage
  <2>2. BlankPage \in Page
    BY DEF BlankPage, Page, NoSummary
  <2>3. page' \in [Pages -> Page]
    <3>1. ASSUME NEW r \in 1..seq, OpenPage(p, r)
          PROVE  page' \in [Pages -> Page]
      <4> DEFINE at == IF runs[r].status = "running" THEN "shown" ELSE "row"
      <4>1. runs[r] \in [status : {"running", "done", "error"},
                         summary : {NoSummary} \cup SUBSET TableDiff]
        BY <3>1 DEF OpenPage, TypeOK
      <4>2. [BlankPage EXCEPT !.at = at, !.run = r, !.status = runs[r].status,
                              !.summary = runs[r].summary] \in Page
        <5>1. r \in Nat /\ at \in {"shown", "row"}
          BY DEF TypeOK
        <5>2. /\ runs[r].status \in {"none", "running", "done", "error"}
              /\ runs[r].summary \in {NoSummary} \cup SUBSET TableDiff
          BY <4>1
        <5> HIDE DEF at
        <5> QED BY <5>1, <5>2, <2>2 DEF Page
      <4>3. page' = [page EXCEPT ![p] = [BlankPage EXCEPT !.at = at, !.run = r,
                       !.status = runs[r].status, !.summary = runs[r].summary]]
        BY <3>1 DEF OpenPage
      <4> HIDE DEF at
      <4> QED BY <4>2, <4>3 DEF TypeOK
    <3>2. CASE ReadSchemaChanges(p)
      <4>1. SchemaOf(page[p].run) \in SUBSET Tables
        BY ReadsTyped
      <4>2. page[p] \in Page
        BY DEF TypeOK
      <4>3. [page[p] EXCEPT !.at = "schema", !.schema = SchemaOf(page[p].run)] \in Page
        BY <4>1, <4>2 DEF Page
      <4> QED BY <3>2, <4>3 DEF ReadSchemaChanges, TypeOK
    <3>3. CASE ReadTableResults(p)
      <4>1. ResultsOf(page[p].run) \in SUBSET TableResult
        BY ReadsTyped
      <4>2. page[p] \in Page
        BY DEF TypeOK
      <4>3. [page[p] EXCEPT !.at = "shown", !.tables = ResultsOf(page[p].run)] \in Page
        BY <4>1, <4>2 DEF Page
      <4> QED BY <3>3, <4>3 DEF ReadTableResults, TypeOK
    <3>4. CASE ClosePage(p)
      BY <3>4, <2>2 DEF ClosePage, TypeOK
    <3> QED BY <1>16, <3>1, <3>2, <3>3, <3>4 DEF Show
  <2> QED BY <2>1, <2>3 DEF store, local, TypeOK
<1>17. CASE UNCHANGED vars
  BY <1>17 DEF vars, store, local, TypeOK
<1> QED
  BY <1>1, <1>2, <1>3, <1>4, <1>5, <1>6, <1>7, <1>8, <1>9, <1>10, <1>11, <1>12, <1>13,
     <1>14, <1>15, <1>16, <1>17
  DEF Next, Work, StartRun, RunCommand

-----------------------------------------------------------------------------
(* Who writes what: a working job touches its own run and its own locals.   *)

Untouched(r) ==
  /\ r \in DOMAIN runs' <=> r \in DOMAIN runs
  /\ r \in DOMAIN runs => runs'[r] = runs[r]
  /\ ResultsOf(r)' = ResultsOf(r)
  /\ DetailOf(r)' = DetailOf(r)
  /\ SchemaOf(r)' = SchemaOf(r)

Idle(i) ==
  /\ pc'[i] = pc[i]
  /\ run_id'[i] = run_id[i]
  /\ summary'[i] = summary[i]
  /\ td'[i] = td[i]
  /\ todo'[i] = todo[i]

LEMMA StoreUnchanged ==
  ASSUME UNCHANGED store
  PROVE  \A r : Untouched(r)
  BY DEF store, Untouched, ResultsOf, DetailOf, SchemaOf, TablesOf

\* A job's store calls carry its own run id, so every other run's rows, status
\* and summary stay as they are.
LEMMA WritesOwnRun ==
  ASSUME TypeOK, NEW j \in Job, Work(j), NEW r, r # run_id[j]
  PROVE  Untouched(r)
<1>1. CASE SaveSchemaDiff(j)
  BY <1>1 DEF SaveSchemaDiff, Untouched, ResultsOf, DetailOf, SchemaOf, TablesOf
<1>2. CASE DiffTable(j)
  BY <1>2 DEF DiffTable, SaveTableResult, Untouched, ResultsOf, DetailOf, SchemaOf, TablesOf
<1>3. CASE AddRowChanges(j)
  BY <1>3 DEF AddRowChanges, Untouched, ResultsOf, DetailOf, SchemaOf, TablesOf
<1>4. CASE CountTable(j)
  BY <1>4 DEF CountTable, SaveTableResult, Untouched, ResultsOf, DetailOf, SchemaOf, TablesOf
<1>5. CASE SetSummary(j)
  BY <1>5 DEF SetSummary, Untouched, ResultsOf, DetailOf, SchemaOf, TablesOf
<1>6. CASE SetDone(j) \/ SetError(j)
  BY <1>6 DEF SetDone, SetError, SetStatus, Untouched, ResultsOf, DetailOf, SchemaOf, TablesOf
<1>7. CASE SpawnWorker(j) \/ Raise(j) \/ SetErrorFails(j) \/ ExitCommand(j)
  BY <1>7, StoreUnchanged DEF SpawnWorker, Raise, SetErrorFails, ExitCommand
<1> QED BY <1>1, <1>2, <1>3, <1>4, <1>5, <1>6, <1>7 DEF Work

LEMMA OthersIdle ==
  ASSUME TypeOK, NEW j \in Job, Work(j) \/ KillCommand(j), NEW i \in Job, i # j
  PROVE  Idle(i)
<1> USE DEF TypeOK, Idle, GoTo
<1>1. CASE SpawnWorker(j) \/ SaveSchemaDiff(j) \/ DiffTable(j) \/ AddRowChanges(j) \/ CountTable(j)
  BY <1>1 DEF SpawnWorker, SaveSchemaDiff, DiffTable, AddRowChanges, CountTable, SaveTableResult, local
<1>2. CASE SetSummary(j) \/ SetDone(j) \/ Raise(j) \/ SetError(j) \/ SetErrorFails(j)
  BY <1>2 DEF SetSummary, SetDone, Raise, SetError, SetErrorFails, SetStatus, LeaveRunDiff, local
<1>3. CASE ExitCommand(j) \/ KillCommand(j)
  BY <1>3 DEF ExitCommand, KillCommand, LeaveRunDiff
<1> QED BY <1>1, <1>2, <1>3 DEF Work

\* What the invariant says of a job survives steps that leave its run and its
\* locals alone.
LEMMA IdleJobKeeps ==
  ASSUME NEW i \in Job, JobOfRun(i), JobMatchesStore(i), JobVisitsAll(i), Idle(i),
         seq' >= seq, seq \in Nat, seq' \in Nat,
         run_id[i] \in Nat, Untouched(run_id[i])
  PROVE  JobOfRun(i)' /\ JobMatchesStore(i)' /\ JobVisitsAll(i)'
<1>1. JobOfRun(i)'
  BY DEF JobOfRun, Idle
<1>2. /\ ResultsOf(run_id[i])' = ResultsOf(run_id[i])
      /\ DetailOf(run_id[i])' = DetailOf(run_id[i])
      /\ SchemaOf(run_id[i])' = SchemaOf(run_id[i])
  BY DEF Idle, Untouched, ResultsOf, DetailOf, SchemaOf, TablesOf
<1>3. JobMatchesStore(i)'
  BY <1>2 DEF JobMatchesStore, Recorded, Idle, Untouched, Counted, Detailed, TablesOf
<1>4. JobVisitsAll(i)'
  BY <1>2 DEF JobVisitsAll, Recorded, Idle, Untouched, TablesOf
<1> QED BY <1>1, <1>3, <1>4

-----------------------------------------------------------------------------
(* The inductive invariant.                                                 *)

\* What DoneIsComplete says of one run, whose row is `row`.
Entire(row, results, detail, schema) ==
  /\ row.status = "done" => row.summary # NoSummary
  /\ row.summary # NoSummary =>
       /\ results = Counted(row.summary)
       /\ detail = Detailed(row.summary)
       /\ schema \ Excluded \subseteq TablesOf(results)

LEMMA EntireNow ==
  ASSUME DoneIsComplete, NEW r \in DOMAIN runs
  PROVE  Entire(runs[r], ResultsOf(r), DetailOf(r), SchemaOf(r))
  BY DEF DoneIsComplete, Entire

LEMMA EntireNext ==
  ASSUME \A r \in DOMAIN runs' :
           Entire(runs'[r], ResultsOf(r)', DetailOf(r)', SchemaOf(r)')
  PROVE  DoneIsComplete'
  BY DEF DoneIsComplete, Entire, Counted, Detailed, TablesOf

\* What must hold of the run of the job that took the step.
OwnRunKeeps(j) ==
  /\ JobOfRun(j)'
  /\ JobMatchesStore(j)'
  /\ Recorded(j)' =>
       /\ runs'[run_id[j]].status = "done" => runs'[run_id[j]].summary # NoSummary
       /\ runs'[run_id[j]].summary # NoSummary =>
            /\ ResultsOf(run_id[j])' = Counted(runs'[run_id[j]].summary)
            /\ DetailOf(run_id[j])' = Detailed(runs'[run_id[j]].summary)

\* A result is added to the run it was saved for.
LEMMA SaveAddsResult ==
  ASSUME TypeOK, NEW j \in Job, NEW w \in todo[j], NEW n \in 0..MaxRows, SaveTableResult(j, w, n),
         UNCHANGED run_id
  PROVE  /\ ResultsOf(run_id[j])' =
              ResultsOf(run_id[j]) \cup {[table |-> w.table, status |-> w.status, n |-> n]}
         /\ [table |-> w.table, status |-> w.status, n |-> n] \in TableResult
<1> DEFINE row == [run |-> run_id[j], table |-> w.table, status |-> w.status, n |-> n]
           x == [table |-> w.table, status |-> w.status, n |-> n]
           Of(T) == {[table |-> z.table, status |-> z.status, n |-> z.n] :
                       z \in {y \in T : y.run = run_id[j]}}
<1>1. table_results' = table_results \cup {row}
  BY DEF SaveTableResult
<1>2. ResultsOf(run_id[j])' = Of(table_results') /\ ResultsOf(run_id[j]) = Of(table_results)
  BY DEF ResultsOf
<1>3. ASSUME NEW q \in Of(table_results')
      PROVE  q \in Of(table_results) \cup {x}
  <2>1. PICK z \in table_results' :
          z.run = run_id[j] /\ q = [table |-> z.table, status |-> z.status, n |-> z.n]
    OBVIOUS
  <2>2. CASE z = row
    BY <2>1, <2>2
  <2>3. CASE z \in table_results
    BY <2>1, <2>3
  <2> QED BY <1>1, <2>2, <2>3
<1>4. Of(table_results) \cup {x} \subseteq Of(table_results')
  <2>1. row \in table_results' /\ row.run = run_id[j]
        /\ x = [table |-> row.table, status |-> row.status, n |-> row.n]
    BY <1>1
  <2>2. x \in Of(table_results')
    BY <2>1
  <2>3. Of(table_results) \subseteq Of(table_results')
    BY <1>1
  <2> QED BY <2>2, <2>3
<1>5. x \in TableResult
  BY DEF TypeOK, TableResult
<1> QED BY <1>2, <1>3, <1>4, <1>5

LEMMA WorkKeepsOwnRun ==
  ASSUME IInv, NEW j \in Job, Work(j)
  PROVE  OwnRunKeeps(j)
<1> USE DEF OwnRunKeeps
<1>1. /\ TypeOK /\ JobOfRun(j) /\ JobMatchesStore(j) /\ NoOrphanRows
      /\ run_id[j] \in Nat /\ seq \in Nat /\ MaxRows \in Nat
      /\ pc[j] # "idle"
  BY DiffRunsAssumption
  DEF IInv, TypeOK, Work, SpawnWorker, SaveSchemaDiff, DiffTable, AddRowChanges, CountTable,
      SetSummary, SetDone, Raise, SetError, SetErrorFails, ExitCommand, InTry
<1>2. Work(j) => run_id' = run_id /\ seq' = seq
  BY DEF Work, SpawnWorker, SaveSchemaDiff, DiffTable, AddRowChanges, CountTable, SetSummary,
         SetDone, SetStatus, Raise, SetError, SetErrorFails, ExitCommand, store, local
<1>3. CASE SpawnWorker(j) \/ Raise(j) \/ SetErrorFails(j) \/ ExitCommand(j)
  <2>1. Untouched(run_id[j])
    BY <1>3, StoreUnchanged DEF SpawnWorker, Raise, SetErrorFails, ExitCommand
  <2>2. JobOfRun(j)'
    BY <1>1, <1>2, <1>3
    DEF SpawnWorker, Raise, SetErrorFails, ExitCommand, LeaveRunDiff, GoTo, local, JobOfRun, TypeOK, InTry
  <2>3. /\ ResultsOf(run_id[j])' = ResultsOf(run_id[j])
        /\ DetailOf(run_id[j])' = DetailOf(run_id[j])
        /\ Recorded(j)' <=> Recorded(j)
        /\ Recorded(j) => runs'[run_id[j]] = runs[run_id[j]]
    BY <1>2, <2>1 DEF Untouched, Recorded, ResultsOf, DetailOf
  <2>4. JobMatchesStore(j)'
    <3>1. CASE SpawnWorker(j)
      BY <1>1, <1>2, <3>1, <2>3 DEF SpawnWorker, GoTo, local, JobMatchesStore, TypeOK, InTry, Recorded
    <3>2. CASE Raise(j)
      BY <1>1, <1>2, <3>2, <2>3 DEF Raise, GoTo, JobMatchesStore, TypeOK, InTry, Recorded
    <3>3. CASE SetErrorFails(j) \/ ExitCommand(j)
      BY <1>1, <1>2, <3>3, <2>3 DEF SetErrorFails, ExitCommand, GoTo, JobMatchesStore, TypeOK, InTry, Recorded
    <3> QED BY <1>3, <3>1, <3>2, <3>3
  <2>5. Recorded(j)' =>
          /\ runs'[run_id[j]].status = "done" => runs'[run_id[j]].summary # NoSummary
          /\ runs'[run_id[j]].summary # NoSummary =>
               /\ ResultsOf(run_id[j])' = Counted(runs'[run_id[j]].summary)
               /\ DetailOf(run_id[j])' = Detailed(runs'[run_id[j]].summary)
    BY <1>1, <2>3 DEF IInv, DoneIsComplete, Recorded
  <2> QED BY <2>2, <2>4, <2>5
<1>4. CASE SaveSchemaDiff(j)
  BY <1>1, <1>4
  DEF SaveSchemaDiff, GoTo, JobOfRun, JobMatchesStore, Recorded, TypeOK, InTry,
      ResultsOf, DetailOf, Counted, Detailed, TablesOf
<1>5. CASE DiffTable(j)
  <2>1. PICK w \in todo[j], d \in Diffs :
          /\ w.status \notin Whole
          /\ SaveTableResult(j, w, d.n)
          /\ td' = [td EXCEPT ![j] = [table |-> w.table, status |-> w.status,
                                     n |-> d.n, listed |-> d.listed]]
    BY <1>5 DEF DiffTable
  <2>2. d.n \in 0..MaxRows /\ d.listed \in 0..MaxRows
    BY DiffRunsAssumption
  <2>3. /\ ResultsOf(run_id[j])' = ResultsOf(run_id[j]) \cup
                {[table |-> td'[j].table, status |-> td'[j].status, n |-> td'[j].n]}
        /\ td'[j] \in TableDiff /\ td'[j].status \notin Whole
    <3>1. td'[j] = [table |-> w.table, status |-> w.status, n |-> d.n, listed |-> d.listed]
      BY <1>1, <2>1 DEF TypeOK
    <3>2. w.table \in Tables /\ w.status \in Status
      BY <1>1 DEF TypeOK
    <3>3. ResultsOf(run_id[j])' =
            ResultsOf(run_id[j]) \cup {[table |-> w.table, status |-> w.status, n |-> d.n]}
      BY <1>1, <1>2, <2>1, <2>2, SaveAddsResult
    <3> QED BY <2>1, <2>2, <3>1, <3>2, <3>3 DEF TableDiff
  <2>4. /\ DetailOf(run_id[j])' = DetailOf(run_id[j])
        /\ UNCHANGED <<runs, summary>>
        /\ pc[j] = "tables" /\ pc'[j] = "rows"
    BY <1>1, <1>2, <1>5 DEF DiffTable, GoTo, DetailOf, TypeOK
  <2>5. Counted(summary'[j] \cup {td'[j]}) = Counted(summary[j]) \cup
          {[table |-> td'[j].table, status |-> td'[j].status, n |-> td'[j].n]}
    BY <2>4, CountedAdds
  <2>6. Recorded(j)' => Recorded(j) /\ runs'[run_id[j]].summary = NoSummary
                        /\ runs'[run_id[j]].status = "running"
    BY <1>1, <1>2, <2>4 DEF JobMatchesStore, Recorded, InTry
  <2>7. JobMatchesStore(j)'
    <3>1. Recorded(j)' => /\ ResultsOf(run_id[j])' = Counted(summary'[j] \cup {td'[j]})
                          /\ DetailOf(run_id[j])' = Detailed(summary'[j])
      BY <1>1, <2>3, <2>4, <2>5, <2>6 DEF JobMatchesStore
    <3>2. run_id'[j] = run_id[j] /\ pc'[j] = "rows"
      BY <1>2, <2>4
    <3>3. Recorded(j)' => /\ ResultsOf(run_id[j])' = Counted(summary[j] \cup {td[j]})'
                          /\ DetailOf(run_id[j])' = Detailed(summary[j])'
      BY <3>1 DEF Counted, Detailed
    <3> QED BY <1>2, <2>6, <3>2, <3>3 DEF JobMatchesStore, InTry
  <2>8. JobOfRun(j)'
    BY <1>1, <1>2, <2>3, <2>4 DEF JobOfRun
  <2> QED BY <2>6, <2>7, <2>8
<1>6. CASE AddRowChanges(j)
  <2>1. /\ pc[j] = "rows" /\ pc'[j] = "tables"
        /\ summary'[j] = summary[j] \cup {td[j]}
        /\ UNCHANGED runs
        /\ ResultsOf(run_id[j])' = ResultsOf(run_id[j])
    BY <1>1, <1>2, <1>6 DEF AddRowChanges, GoTo, ResultsOf, TypeOK
  <2>2. DetailOf(run_id[j])' =
          IF td[j].listed > 0
          THEN DetailOf(run_id[j]) \cup {[table |-> td[j].table, rows |-> td[j].listed]}
          ELSE DetailOf(run_id[j])
    <3> DEFINE row == [run |-> run_id[j], table |-> td[j].table, rows |-> td[j].listed]
               Of(T) == {[table |-> x.table, rows |-> x.rows] : x \in {y \in T : y.run = run_id[j]}}
    <3>1. row_changes' = IF td[j].listed > 0 THEN row_changes \cup {row} ELSE row_changes
      BY <1>6 DEF AddRowChanges
    <3>2. DetailOf(run_id[j])' = Of(row_changes') /\ DetailOf(run_id[j]) = Of(row_changes)
      BY <1>2 DEF DetailOf
    <3>3. row.run = run_id[j] /\ row.table = td[j].table /\ row.rows = td[j].listed
      OBVIOUS
    <3> HIDE DEF row
    <3>4. Of(row_changes \cup {row}) = Of(row_changes) \cup {[table |-> row.table, rows |-> row.rows]}
      BY <3>3
    <3> HIDE DEF Of
    <3> QED BY <3>1, <3>2, <3>3, <3>4
  <2>3. Detailed(summary'[j]) =
          IF td[j].listed > 0
          THEN Detailed(summary[j]) \cup {[table |-> td[j].table, rows |-> td[j].listed]}
          ELSE Detailed(summary[j])
    BY <2>1, DetailedAdds
  <2>4. Recorded(j)' => Recorded(j) /\ runs'[run_id[j]].summary = NoSummary
                        /\ runs'[run_id[j]].status = "running"
    BY <1>1, <1>2, <2>1 DEF JobMatchesStore, Recorded, InTry
  <2>5. Recorded(j)' => /\ ResultsOf(run_id[j])' = Counted(summary[j])'
                        /\ DetailOf(run_id[j])' = Detailed(summary[j])'
    <3>1. Recorded(j)' => /\ ResultsOf(run_id[j])' = Counted(summary'[j])
                          /\ DetailOf(run_id[j])' = Detailed(summary'[j])
      BY <1>1, <2>1, <2>2, <2>3, <2>4 DEF JobMatchesStore
    <3> QED BY <3>1 DEF Counted, Detailed
  <2>6. JobMatchesStore(j)'
    BY <1>2, <2>1, <2>4, <2>5 DEF JobMatchesStore, InTry
  <2>7. JobOfRun(j)'
    BY <1>1, <1>2, <2>1 DEF JobOfRun
  <2> QED BY <2>4, <2>6, <2>7
<1>7. CASE CountTable(j)
  <2>1. PICK w \in todo[j], n \in 0..MaxRows :
          /\ SaveTableResult(j, w, n)
          /\ summary' = [summary EXCEPT ![j] = @ \cup {[table |-> w.table, status |-> w.status,
                                                       n |-> n, listed |-> 0]}]
    BY <1>7 DEF CountTable
  <2> DEFINE x == [table |-> w.table, status |-> w.status, n |-> n, listed |-> 0]
  <2>2. /\ ResultsOf(run_id[j])' = ResultsOf(run_id[j]) \cup
                {[table |-> x.table, status |-> x.status, n |-> x.n]}
        /\ x.listed = 0
    BY <1>1, <1>2, <2>1, SaveAddsResult
  <2>3. /\ DetailOf(run_id[j])' = DetailOf(run_id[j])
        /\ UNCHANGED <<runs, pc, td>>
        /\ pc[j] = "tables"
        /\ summary'[j] = summary[j] \cup {x}
    BY <1>1, <1>2, <1>7, <2>1 DEF CountTable, DetailOf, TypeOK
  <2> HIDE DEF x
  <2>4. /\ Detailed(summary'[j]) = Detailed(summary[j])
        /\ Counted(summary'[j]) = Counted(summary[j]) \cup
                {[table |-> x.table, status |-> x.status, n |-> x.n]}
    <3>1. ~(x.listed > 0)
      BY <2>2
    <3>2. Detailed(summary[j] \cup {x}) = Detailed(summary[j])
      BY <3>1 DEF Detailed
    <3>3. Counted(summary[j] \cup {x}) = Counted(summary[j]) \cup
            {[table |-> x.table, status |-> x.status, n |-> x.n]}
      BY CountedAdds
    <3> QED BY <2>3, <3>2, <3>3
  <2>5. Recorded(j)' => Recorded(j) /\ runs'[run_id[j]].summary = NoSummary
                        /\ runs'[run_id[j]].status = "running"
    BY <1>1, <1>2, <2>3 DEF JobMatchesStore, Recorded, InTry
  <2>6. Recorded(j)' => /\ ResultsOf(run_id[j])' = Counted(summary[j])'
                        /\ DetailOf(run_id[j])' = Detailed(summary[j])'
    <3>1. Recorded(j)' => /\ ResultsOf(run_id[j])' = Counted(summary'[j])
                          /\ DetailOf(run_id[j])' = Detailed(summary'[j])
      BY <1>1, <2>2, <2>3, <2>4, <2>5 DEF JobMatchesStore
    <3> QED BY <3>1 DEF Counted, Detailed
  <2>7. JobMatchesStore(j)'
    BY <1>2, <2>3, <2>5, <2>6 DEF JobMatchesStore, InTry
  <2>8. JobOfRun(j)'
    BY <1>1, <1>2, <2>3 DEF JobOfRun
  <2> QED BY <2>5, <2>7, <2>8
<1>8. CASE SetSummary(j)
  <2>1. /\ pc[j] = "tables" /\ pc'[j] = "status"
        /\ summary'[j] = summary[j]
        /\ ResultsOf(run_id[j])' = ResultsOf(run_id[j])
        /\ DetailOf(run_id[j])' = DetailOf(run_id[j])
    BY <1>1, <1>2, <1>8 DEF SetSummary, GoTo, local, ResultsOf, DetailOf, TypeOK
  <2>2. Recorded(j)' => /\ Recorded(j)
                        /\ runs'[run_id[j]].summary = summary[j]
                        /\ runs'[run_id[j]].status = "running"
    BY <1>1, <1>2, <1>8 DEF SetSummary, Recorded, JobMatchesStore, InTry, TypeOK
  <2>3. Recorded(j)' => /\ ResultsOf(run_id[j])' = Counted(summary[j])
                        /\ DetailOf(run_id[j])' = Detailed(summary[j])
    BY <1>1, <2>1, <2>2 DEF JobMatchesStore
  <2>4. Counted(summary[j])' = Counted(summary[j]) /\ Detailed(summary[j])' = Detailed(summary[j])
    BY <2>1 DEF Counted, Detailed
  <2>5. JobOfRun(j)' /\ JobMatchesStore(j)'
    BY <1>1, <1>2, <2>1, <2>2, <2>3, <2>4 DEF JobOfRun, JobMatchesStore, InTry
  <2> QED BY <2>2, <2>3, <2>5
<1>9. CASE SetDone(j)
  <2>1. /\ pc[j] = "status" /\ pc'[j] \in {"returned", "ended"}
        /\ DOMAIN runs' = DOMAIN runs
        /\ Recorded(j) => runs'[run_id[j]].summary = runs[run_id[j]].summary
        /\ ResultsOf(run_id[j])' = ResultsOf(run_id[j])
        /\ DetailOf(run_id[j])' = DetailOf(run_id[j])
    BY <1>1, <1>2, <1>9 DEF SetDone, SetStatus, GoTo, Recorded, ResultsOf, DetailOf, TypeOK
  <2>2. /\ JobOfRun(j)'
        /\ JobMatchesStore(j)'
    BY <1>1, <1>2, <2>1 DEF JobOfRun, JobMatchesStore, InTry
  <2>3. Recorded(j)' => /\ runs'[run_id[j]].summary = summary[j]
                        /\ ResultsOf(run_id[j])' = Counted(summary[j])
                        /\ DetailOf(run_id[j])' = Detailed(summary[j])
    BY <1>1, <1>2, <2>1 DEF JobMatchesStore, Recorded
  <2>4. summary[j] # NoSummary
    BY <1>1, SummaryIsStored DEF TypeOK
  <2> QED BY <2>2, <2>3, <2>4
<1>10. CASE SetError(j)
  <2>1. /\ pc[j] = "except" /\ pc'[j] = "ended"
        /\ ResultsOf(run_id[j])' = ResultsOf(run_id[j])
        /\ DetailOf(run_id[j])' = DetailOf(run_id[j])
        /\ UNCHANGED <<summary, td>>
    BY <1>1, <1>2, <1>10 DEF SetError, SetStatus, GoTo, ResultsOf, DetailOf, TypeOK
  <2>2. Recorded(j)' => /\ Recorded(j)
                        /\ runs'[run_id[j]].status = "error"
                        /\ runs'[run_id[j]].summary = runs[run_id[j]].summary
    BY <1>1, <1>2, <1>10 DEF SetError, SetStatus, Recorded, TypeOK
  <2>3. JobOfRun(j)' /\ JobMatchesStore(j)'
    BY <1>1, <1>2, <2>1 DEF JobOfRun, JobMatchesStore, InTry
  <2> QED BY <2>1, <2>2, <2>3 DEF IInv, DoneIsComplete, Recorded
<1> QED BY <1>3, <1>4, <1>5, <1>6, <1>7, <1>8, <1>9, <1>10 DEF Work

\* The job's own schema changes stay covered by its results and by the tables
\* it has yet to visit, up to the moment it stores the summary.
VisitsKept(j) ==
  /\ JobVisitsAll(j)'
  /\ Recorded(j)' /\ runs'[run_id[j]].summary # NoSummary =>
       SchemaOf(run_id[j])' \ Excluded \subseteq TablesOf(ResultsOf(run_id[j])')

LEMMA WorkKeepsVisits ==
  ASSUME IInv, NEW j \in Job, Work(j)
  PROVE  VisitsKept(j)
<1> USE DEF VisitsKept
<1> DEFINE r == run_id[j]
<1>1. /\ TypeOK /\ JobVisitsAll(j) /\ JobOfRun(j) /\ JobMatchesStore(j) /\ DoneIsComplete
      /\ pc[j] \in PC /\ todo[j] \subseteq [table : Tables \ Excluded, status : Status]
  BY DEF IInv, TypeOK
<1>2. run_id' = run_id
  BY DEF Work, SpawnWorker, SaveSchemaDiff, DiffTable, AddRowChanges, CountTable, SetSummary,
         SetDone, SetStatus, Raise, SetError, SetErrorFails, ExitCommand, local
<1>3. CASE SpawnWorker(j) \/ Raise(j) \/ SetErrorFails(j) \/ ExitCommand(j)
  <2>1. Untouched(r)
    BY <1>3, StoreUnchanged DEF SpawnWorker, Raise, SetErrorFails, ExitCommand
  <2>2. /\ ResultsOf(run_id[j])' = ResultsOf(r) /\ SchemaOf(run_id[j])' = SchemaOf(r)
        /\ Recorded(j)' <=> Recorded(j)
        /\ Recorded(j) => runs'[r] = runs[r]
    BY <1>2, <2>1 DEF Untouched, Recorded, ResultsOf, SchemaOf
  <2>3. JobVisitsAll(j)'
    BY <1>1, <1>2, <1>3, <2>2
    DEF SpawnWorker, Raise, SetErrorFails, ExitCommand, GoTo, local, JobVisitsAll, Recorded,
        TablesOf, InTry, TypeOK
  <2> QED BY <1>1, <2>2, <2>3 DEF DoneIsComplete, Recorded
<1>4. CASE SaveSchemaDiff(j)
  <2>1. PICK sdiff \in [Tables -> Status \cup {"absent"}] :
          /\ schema_changes' = schema_changes \cup
               {[run |-> r, table |-> t] : t \in {u \in Tables : sdiff[u] \in {"changed"} \cup Whole}}
          /\ todo' = [todo EXCEPT ![j] = {[table |-> t, status |-> sdiff[t]] : t \in Present(sdiff)}]
    BY <1>4 DEF SaveSchemaDiff
  <2>2. /\ pc[j] = "resolve" /\ pc'[j] = "tables"
        /\ UNCHANGED <<runs, table_results>>
    BY <1>1, <1>4 DEF SaveSchemaDiff, GoTo, TypeOK
  <2>3. todo'[j] = {[table |-> t, status |-> sdiff[t]] : t \in Present(sdiff)}
    BY <1>1, <2>1 DEF TypeOK
  <2>4. ASSUME NEW t \in Present(sdiff)
        PROVE  t \in TablesOf(todo'[j])
    <3> DEFINE w == [table |-> t, status |-> sdiff[t]]
    <3>1. w \in todo'[j] /\ w.table = t
      BY <2>3
    <3> HIDE DEF w
    <3> QED BY <3>1 DEF TablesOf
  <2>5. SchemaOf(run_id[j])' \subseteq SchemaOf(r) \cup {u \in Tables : sdiff[u] \in {"changed"} \cup Whole}
    BY <1>2, <2>1 DEF SchemaOf, TablesOf
  <2>6. Recorded(j)' => SchemaOf(r) \ Excluded = {} /\ runs'[r].summary = NoSummary
    BY <1>1, <1>2, <2>2 DEF JobVisitsAll, JobMatchesStore, JobOfRun, Recorded, InTry,
                               Counted, TablesOf
  <2>7. {u \in Tables : sdiff[u] \in {"changed"} \cup Whole} \ Excluded \subseteq Present(sdiff)
    BY DEF Present, Whole
  <2> QED BY <1>2, <2>2, <2>4, <2>5, <2>6, <2>7 DEF JobVisitsAll, InTry
<1>5. CASE DiffTable(j) \/ CountTable(j)
  <2>1. PICK w \in todo[j], n \in 0..MaxRows : SaveTableResult(j, w, n)
    BY <1>5, DiffRunsAssumption DEF DiffTable, CountTable
  <2> DEFINE x == [table |-> w.table, status |-> w.status, n |-> n]
  <2>2. /\ ResultsOf(run_id[j])' = ResultsOf(r) \cup {x}
        /\ todo'[j] = todo[j] \ {w}
    BY <1>1, <1>2, <2>1, SaveAddsResult DEF SaveTableResult, TypeOK
  <2>3. /\ SchemaOf(run_id[j])' = SchemaOf(r)
        /\ UNCHANGED runs
        /\ pc[j] = "tables" /\ pc'[j] \in {"tables", "rows"}
    BY <1>1, <1>2, <1>5 DEF DiffTable, CountTable, GoTo, SchemaOf, TypeOK
  <2>4. TablesOf(ResultsOf(r)) \cup TablesOf(todo[j]) \subseteq
          TablesOf(ResultsOf(run_id[j])') \cup TablesOf(todo'[j])
    <3>1. x.table = w.table
      OBVIOUS
    <3> QED BY <2>2, <3>1 DEF TablesOf
  <2>5. Recorded(j)' => Recorded(j) /\ runs[r].summary = NoSummary
    BY <1>1, <1>2, <2>3 DEF Recorded, JobMatchesStore, InTry
  <2> HIDE DEF x
  <2> QED BY <1>1, <1>2, <2>3, <2>4, <2>5 DEF JobVisitsAll, InTry
<1>6. CASE AddRowChanges(j) \/ SetSummary(j)
  <2>1. /\ ResultsOf(run_id[j])' = ResultsOf(r) /\ SchemaOf(run_id[j])' = SchemaOf(r)
        /\ todo' = todo
        /\ pc[j] \in {"tables", "rows"}
        /\ pc'[j] \in {"tables", "status"}
        /\ pc'[j] = "status" => todo[j] = {}
    BY <1>1, <1>2, <1>6 DEF AddRowChanges, SetSummary, GoTo, local, ResultsOf, SchemaOf, TypeOK
  <2>2. Recorded(j)' => Recorded(j) /\ (pc'[j] = "tables" => runs'[r].summary = NoSummary)
    BY <1>1, <1>2, <1>6, <2>1
    DEF AddRowChanges, SetSummary, GoTo, Recorded, JobMatchesStore, InTry, TypeOK
  <2> QED BY <1>1, <1>2, <2>1, <2>2 DEF JobVisitsAll, InTry, TablesOf
<1>7. CASE SetDone(j) \/ SetError(j)
  <2>1. /\ ResultsOf(run_id[j])' = ResultsOf(r) /\ SchemaOf(run_id[j])' = SchemaOf(r)
        /\ pc'[j] \in {"returned", "ended"}
        /\ Recorded(j)' => Recorded(j) /\ runs'[r].summary = runs[r].summary
    <3>1. /\ UNCHANGED <<table_results, schema_changes, run_id>>
          /\ pc'[j] \in {"returned", "ended"}
      BY <1>1, <1>7 DEF SetDone, SetError, SetStatus, GoTo, TypeOK
    <3>2. PICK status : runs' = [q \in DOMAIN runs |->
                          IF q = run_id[j] THEN [runs[q] EXCEPT !.status = status] ELSE runs[q]]
      BY <1>7 DEF SetDone, SetError, SetStatus
    <3>3. Recorded(j)' => Recorded(j) /\ runs'[r].summary = runs[r].summary
      BY <1>1, <1>2, <3>2 DEF Recorded, TypeOK
    <3> QED BY <3>1, <3>3 DEF ResultsOf, SchemaOf
  <2>2. JobVisitsAll(j)'
    BY <2>1 DEF JobVisitsAll, InTry
  <2> QED BY <1>1, <2>1, <2>2 DEF DoneIsComplete, Recorded
<1> QED BY <1>3, <1>4, <1>5, <1>6, <1>7 DEF Work

LEMMA WorkKeepsForeignKeys ==
  ASSUME IInv, NEW j \in Job, Work(j)
  PROVE  NoOrphanRows' /\ DOMAIN runs' = DOMAIN runs /\ run_id' = run_id /\ seq' = seq
<1> USE DEF IInv, NoOrphanRows
<1>1. CASE SaveSchemaDiff(j)
  BY <1>1 DEF SaveSchemaDiff, ForeignKeyHolds
<1>2. CASE DiffTable(j)
  BY <1>2 DEF DiffTable, SaveTableResult, ForeignKeyHolds
<1>3. CASE AddRowChanges(j)
  BY <1>3 DEF AddRowChanges, ForeignKeyHolds
<1>4. CASE CountTable(j)
  BY <1>4 DEF CountTable, SaveTableResult, ForeignKeyHolds
<1>5. CASE SetSummary(j) \/ SetDone(j) \/ SetError(j)
  BY <1>5 DEF SetSummary, SetDone, SetError, SetStatus, local
<1>6. CASE SpawnWorker(j) \/ Raise(j) \/ SetErrorFails(j) \/ ExitCommand(j)
  BY <1>6 DEF SpawnWorker, Raise, SetErrorFails, ExitCommand, store, local
<1> QED BY <1>1, <1>2, <1>3, <1>4, <1>5, <1>6 DEF Work

LEMMA WorkKeepsInv ==
  ASSUME IInv, NEW j \in Job, Work(j)
  PROVE  IInv'
<1>1. TypeOK /\ OwnId /\ \A i \in Job : JobOfRun(i) /\ JobMatchesStore(i) /\ JobVisitsAll(i)
  BY DEF IInv
<1>2. TypeOK'
  BY <1>1, TypeStep DEF Next
<1>3. NoOrphanRows' /\ DOMAIN runs' = DOMAIN runs /\ run_id' = run_id /\ seq' = seq
  BY WorkKeepsForeignKeys
<1>4. OwnRunKeeps(j) /\ VisitsKept(j)
  BY WorkKeepsOwnRun, WorkKeepsVisits
<1>5. DoneIsComplete'
  <2> SUFFICES ASSUME NEW r \in DOMAIN runs'
               PROVE  Entire(runs'[r], ResultsOf(r)', DetailOf(r)', SchemaOf(r)')
    BY EntireNext
  <2>1. CASE r = run_id[j]
    BY <1>3, <1>4, <2>1 DEF OwnRunKeeps, VisitsKept, Recorded, Entire
  <2>2. CASE r # run_id[j]
    <3>1. Untouched(r)
      BY <1>1, <2>2, WritesOwnRun
    <3> QED BY <3>1, EntireNow DEF Untouched, IInv
  <2> QED BY <2>1, <2>2
<1>6. OwnId'
  BY <1>1, <1>3 DEF OwnId
<1>7. ASSUME NEW i \in Job
      PROVE  JobOfRun(i)' /\ JobMatchesStore(i)' /\ JobVisitsAll(i)'
  <2>1. CASE i = j
    BY <1>4, <2>1 DEF OwnRunKeeps, VisitsKept
  <2>2. CASE i # j
    <3>1. Idle(i)
      BY <1>1, <2>2, OthersIdle
    <3>2. run_id[j] # 0
      BY <1>1 DEF JobOfRun, Work, SpawnWorker, SaveSchemaDiff, DiffTable, AddRowChanges, CountTable,
         SetSummary, SetDone, Raise, SetError, SetErrorFails, ExitCommand, InTry
    <3>3. run_id[i] # run_id[j]
      BY <1>1, <2>2, <3>2 DEF OwnId
    <3>4. Untouched(run_id[i])
      BY <1>1, <3>3, WritesOwnRun
    <3> QED BY <1>1, <1>3, <3>1, <3>4, IdleJobKeeps DEF TypeOK
  <2> QED BY <2>1, <2>2
<1> QED BY <1>2, <1>3, <1>5, <1>6, <1>7 DEF IInv

\* AUTOINCREMENT: the new id is above every id in the store and every id a job
\* works under.
LEMMA CreateKeepsInv ==
  ASSUME IInv, NEW j \in Job, NEW label \in {"created", "resolve"}, CreateRun(j, label), Next
  PROVE  IInv'
<1> DEFINE id == seq + 1
<1>1. /\ TypeOK /\ OwnId /\ NoOrphanRows /\ DoneIsComplete
      /\ \A i \in Job : JobOfRun(i) /\ JobMatchesStore(i) /\ JobVisitsAll(i)
  BY DEF IInv
<1>2. /\ seq' = id
      /\ DOMAIN runs' = DOMAIN runs \cup {id}
      /\ runs'[id] = [status |-> "running", summary |-> NoSummary]
      /\ \A r \in DOMAIN runs : runs'[r] = runs[r]
      /\ run_id' = [run_id EXCEPT ![j] = id]
      /\ pc' = [pc EXCEPT ![j] = label]
      /\ UNCHANGED <<schema_changes, table_results, row_changes, summary, td, todo>>
  BY <1>1 DEF CreateRun, GoTo, NextRunId, TypeOK
<1>3. TypeOK'
  BY <1>1, TypeStep
<1>4. seq \in Nat /\ id \notin DOMAIN runs /\ \A i \in Job : run_id[i] \in Nat /\ run_id[i] # id
  BY <1>1 DEF TypeOK, JobOfRun
<1>5. NoOrphanRows'
  BY <1>1, <1>2 DEF NoOrphanRows
<1>6. OwnId'
  BY <1>1, <1>2, <1>4 DEF OwnId, TypeOK
<1>7. \A r : ResultsOf(r)' = ResultsOf(r) /\ DetailOf(r)' = DetailOf(r) /\ SchemaOf(r)' = SchemaOf(r)
  BY <1>2 DEF ResultsOf, DetailOf, SchemaOf, TablesOf
<1>8. ResultsOf(id) = {} /\ DetailOf(id) = {} /\ SchemaOf(id) = {}
  BY <1>1, <1>4 DEF NoOrphanRows, ResultsOf, DetailOf, SchemaOf, TablesOf
<1>9. DoneIsComplete'
  <2> SUFFICES ASSUME NEW r \in DOMAIN runs'
               PROVE  Entire(runs'[r], ResultsOf(r), DetailOf(r), SchemaOf(r))
    BY <1>7, EntireNext
  <2>1. CASE r = id
    BY <1>2, <2>1 DEF Entire
  <2>2. CASE r # id
    BY <1>1, <1>2, <2>2, EntireNow
  <2> QED BY <2>1, <2>2
<1> HIDE DEF id
<1>10. ASSUME NEW i \in Job, i # j
       PROVE  JobOfRun(i)' /\ JobMatchesStore(i)' /\ JobVisitsAll(i)'
  <2>1. Idle(i)
    BY <1>1, <1>2, <1>10 DEF Idle, TypeOK
  <2>2. /\ Recorded(i)' <=> Recorded(i)
        /\ Recorded(i) => runs'[run_id[i]] = runs[run_id[i]]
    BY <1>2, <1>4, <2>1 DEF Recorded, Idle
  <2>6. /\ ResultsOf(run_id[i])' = ResultsOf(run_id[i])
        /\ DetailOf(run_id[i])' = DetailOf(run_id[i])
        /\ SchemaOf(run_id[i])' = SchemaOf(run_id[i])
    BY <1>2, <2>1 DEF Idle, ResultsOf, DetailOf, SchemaOf, TablesOf
  <2>3. JobMatchesStore(i)'
    BY <1>1, <2>1, <2>2, <2>6 DEF JobMatchesStore, Idle, Counted, Detailed, TablesOf
  <2>4. seq' >= seq
    BY <1>2, <1>4 DEF id
  <2>5. JobOfRun(i)'
    BY <1>1, <1>3, <1>4, <2>1, <2>4 DEF JobOfRun, Idle, TypeOK
  <2>7. JobVisitsAll(i)'
    BY <1>1, <2>1, <2>2, <2>6 DEF JobVisitsAll, Idle, TablesOf
  <2> QED BY <2>3, <2>5, <2>7
<1>11. JobOfRun(j)' /\ JobMatchesStore(j)' /\ JobVisitsAll(j)'
  <2>1. /\ pc'[j] = label /\ run_id'[j] = id /\ id # 0 /\ id <= seq'
        /\ summary'[j] = {} /\ todo'[j] = {}
    BY <1>1, <1>2, <1>4 DEF JobOfRun, JobVisitsAll, CreateRun, TypeOK, id
  <2>2. JobOfRun(j)'
    BY <2>1 DEF JobOfRun
  <2>3. ResultsOf(run_id[j])' = {} /\ DetailOf(run_id[j])' = {} /\ SchemaOf(run_id[j])' = {}
    BY <1>2, <1>8, <2>1 DEF ResultsOf, DetailOf, SchemaOf, TablesOf
  <2>4. JobMatchesStore(j)'
    BY <1>2, <2>1, <2>3 DEF JobMatchesStore, Counted, Detailed, TablesOf, InTry
  <2>5. JobVisitsAll(j)'
    BY <2>1, <2>3 DEF JobVisitsAll
  <2> QED BY <2>2, <2>4, <2>5
<1> QED BY <1>3, <1>5, <1>6, <1>9, <1>10, <1>11 DEF IInv

LEMMA DeleteKeepsInv ==
  ASSUME IInv, NEW r \in 1..seq, DeleteRun(r), Next
  PROVE  IInv'
<1>1. /\ TypeOK /\ OwnId /\ NoOrphanRows /\ DoneIsComplete
      /\ \A i \in Job : JobOfRun(i) /\ JobMatchesStore(i) /\ JobVisitsAll(i)
  BY DEF IInv
<1>2. /\ DOMAIN runs' = DOMAIN runs \ {r}
      /\ \A x \in DOMAIN runs' : runs'[x] = runs[x]
      /\ UNCHANGED <<seq, pc, run_id, td, summary, todo>>
  BY DEF DeleteRun, local
<1>3. TypeOK'
  BY <1>1, TypeStep
<1>4. NoOrphanRows'
  BY <1>1, <1>2 DEF DeleteRun, NoOrphanRows
<1>5. OwnId'
  BY <1>1, <1>2 DEF OwnId
<1>6. ASSUME NEW q, q # r
      PROVE  /\ ResultsOf(q)' = ResultsOf(q)
             /\ DetailOf(q)' = DetailOf(q)
             /\ SchemaOf(q)' = SchemaOf(q)
  BY <1>6 DEF DeleteRun, ResultsOf, DetailOf, SchemaOf, TablesOf
<1>7. DoneIsComplete'
  <2> SUFFICES ASSUME NEW q \in DOMAIN runs'
               PROVE  Entire(runs'[q], ResultsOf(q)', DetailOf(q)', SchemaOf(q)')
    BY EntireNext
  <2>1. q \in DOMAIN runs /\ q # r /\ runs'[q] = runs[q]
    BY <1>2
  <2> QED BY <1>1, <1>6, <2>1, EntireNow
<1>8. ASSUME NEW i \in Job
      PROVE  JobOfRun(i)' /\ JobMatchesStore(i)' /\ JobVisitsAll(i)'
  <2>1. JobOfRun(i)'
    BY <1>1, <1>2 DEF JobOfRun
  <2>2. CASE run_id[i] = r
    <3>1. ~Recorded(i)'
      BY <1>2, <2>2 DEF Recorded
    <3> QED BY <1>1, <1>2, <2>1, <3>1 DEF JobMatchesStore, JobVisitsAll
  <2>3. CASE run_id[i] # r
    <3>1. /\ ResultsOf(run_id[i])' = ResultsOf(run_id[i])
          /\ DetailOf(run_id[i])' = DetailOf(run_id[i])
          /\ SchemaOf(run_id[i])' = SchemaOf(run_id[i])
      BY <1>2, <2>3 DEF DeleteRun, ResultsOf, DetailOf, SchemaOf, TablesOf
    <3>2. Recorded(i)' => Recorded(i) /\ runs'[run_id[i]] = runs[run_id[i]]
      BY <1>2 DEF Recorded
    <3>3. JobMatchesStore(i)'
      BY <1>1, <1>2, <3>1, <3>2 DEF JobMatchesStore, Counted, Detailed, TablesOf
    <3>4. JobVisitsAll(i)'
      BY <1>1, <1>2, <3>1, <3>2 DEF JobVisitsAll, TablesOf
    <3> QED BY <2>1, <3>3, <3>4
  <2> QED BY <2>1, <2>2, <2>3
<1> QED BY <1>3, <1>4, <1>5, <1>7, <1>8 DEF IInv

\* Steps that leave the store and every run_id alone, and only stop jobs.
Stopped(i) ==
  /\ summary'[i] = {} /\ todo'[i] = {}
  /\ \/ pc[i] # "idle" /\ pc'[i] \in {"ended", "dead"}
     \/ pc[i] \in {"idle", "ended", "dead"} /\ pc'[i] = pc[i]

LEMMA StopKeepsInv ==
  ASSUME IInv, TypeOK', UNCHANGED <<store, run_id>>,
         \A i \in Job : Idle(i) \/ Stopped(i)
  PROVE  IInv'
<1>1. /\ TypeOK /\ OwnId /\ NoOrphanRows /\ DoneIsComplete
      /\ \A i \in Job : JobOfRun(i) /\ JobMatchesStore(i) /\ JobVisitsAll(i)
  BY DEF IInv
<1>2. TypeOK'
  OBVIOUS
<1>3. NoOrphanRows' /\ OwnId' /\ DoneIsComplete'
  BY <1>1 DEF store, NoOrphanRows, OwnId, DoneIsComplete, Counted, Detailed, TablesOf,
              ResultsOf, DetailOf, SchemaOf, TablesOf
<1>4. ASSUME NEW i \in Job
      PROVE  JobOfRun(i)' /\ JobMatchesStore(i)' /\ JobVisitsAll(i)'
  <2>1. CASE Idle(i)
    <3>1. Untouched(run_id[i])
      BY StoreUnchanged
    <3> QED BY <1>1, <2>1, <3>1, IdleJobKeeps DEF TypeOK, store
  <2>2. CASE Stopped(i)
    BY <1>1, <2>2 DEF Stopped, store, JobOfRun, JobMatchesStore, JobVisitsAll, InTry
  <2> QED BY <2>1, <2>2
<1> QED BY <1>2, <1>3, <1>4 DEF IInv

LEMMA InvInit == Init => IInv
<1> SUFFICES ASSUME Init PROVE IInv
  OBVIOUS
<1>1. TypeOK
  BY TypeInit
<1>2. NoOrphanRows /\ DoneIsComplete /\ OwnId
  BY DEF Init, NoOrphanRows, DoneIsComplete, OwnId
<1>3. \A j \in Job : JobOfRun(j) /\ JobMatchesStore(j) /\ JobVisitsAll(j)
  BY DEF Init, JobOfRun, JobMatchesStore, JobVisitsAll, Recorded
<1> QED BY <1>1, <1>2, <1>3 DEF IInv

LEMMA InvStep == IInv /\ [Next]_vars => IInv'
<1> SUFFICES ASSUME IInv, [Next]_vars PROVE IInv'
  OBVIOUS
<1>0. TypeOK'
  BY TypeStep DEF IInv
<1>1. ASSUME NEW j \in Job, Work(j)
      PROVE  IInv'
  BY <1>1, WorkKeepsInv
<1>2. ASSUME NEW j \in Job, StartRun(j) \/ RunCommand(j)
      PROVE  IInv'
  <2>1. Next
    BY <1>2 DEF Next
  <2> QED BY <1>2, <2>1, CreateKeepsInv DEF StartRun, RunCommand
<1>3. ASSUME NEW j \in Job, KillCommand(j)
      PROVE  IInv'
  <2>1. Stopped(j) /\ UNCHANGED <<store, run_id>>
    BY <1>3 DEF Stopped, KillCommand, LeaveRunDiff, GoTo, Alive, InTry, IInv, TypeOK
  <2>2. \A i \in Job : i # j => Idle(i)
    BY <1>3, OthersIdle DEF IInv
  <2> QED BY <1>0, <2>1, <2>2, StopKeepsInv
<1>4. ASSUME NEW r \in 1..seq, DeleteRun(r)
      PROVE  IInv'
  <2>1. Next
    BY <1>4 DEF Next
  <2> QED BY <1>4, <2>1, DeleteKeepsInv
<1>5. CASE CrashServer
  <2>1. UNCHANGED <<store, run_id>>
    BY <1>5 DEF CrashServer
  <2>2. \A i \in Job : i \notin WebJobs => Idle(i)
    BY <1>5 DEF CrashServer, LeaveRunDiff, Idle
  <2>3. \A i \in WebJobs : Stopped(i)
    BY <1>5 DEF CrashServer, LeaveRunDiff, Stopped, Job, Alive, InTry, PC, IInv, TypeOK
  <2> QED BY <1>0, <2>1, <2>2, <2>3, StopKeepsInv
<1>6. ASSUME NEW p \in Pages, Show(p)
      PROVE  IInv'
  <2>1. UNCHANGED <<store, jobs, pc, local>>
    BY <1>6 DEF Show, OpenPage, ReadSchemaChanges, ReadTableResults, ClosePage
  <2> QED BY <1>0, <2>1, StopKeepsInv DEF local, Idle
<1>7. CASE UNCHANGED vars
  BY <1>0, <1>7, StopKeepsInv DEF vars, local, Idle
<1> QED BY <1>1, <1>2, <1>3, <1>4, <1>5, <1>6, <1>7 DEF Next

-----------------------------------------------------------------------------
(* The theorems.                                                            *)

THEOREM Invariance == Spec => []IInv
<1>1. Init => IInv
  BY InvInit
<1>2. IInv /\ [Next]_vars => IInv'
  BY InvStep
<1> QED BY <1>1, <1>2, PTL DEF Spec

\* Every state of the store, the workers and the pages is typed.
THEOREM TypeCorrect == Spec => []TypeOK
<1>1. IInv => TypeOK
  BY DEF IInv
<1> QED BY <1>1, Invariance, PTL

\* A done run is complete, for any number of concurrent runs, deletions,
\* crashes and store failures.
THEOREM DoneRunsAreComplete == Spec => []DoneIsComplete
<1>1. IInv => DoneIsComplete
  BY DEF IInv
<1> QED BY <1>1, Invariance, PTL

\* The store never holds a row of a run that is not there.
THEOREM StoreHasNoOrphans == Spec => []NoOrphanRows
<1>1. IInv => NoOrphanRows
  BY DEF IInv
<1> QED BY <1>1, Invariance, PTL

\* A step leaves every settled run as it is, or deletes it.
LEMMA StepKeepsSettled ==
  ASSUME ~LogFaults, IInv, [Next]_vars, NEW r \in DOMAIN runs, SettledRun(r), r \in DOMAIN runs'
  PROVE  Untouched(r)
<1>1. /\ TypeOK /\ \A i \in Job : JobOfRun(i) /\ JobMatchesStore(i) /\ JobVisitsAll(i)
  BY DEF IInv
<1>2. ASSUME NEW j \in Job, Work(j)
      PROVE  Untouched(r)
  <2>1. CASE r # run_id[j]
    BY <1>1, <1>2, <2>1, WritesOwnRun
  <2>2. CASE r = run_id[j]
    <3>1. pc[j] \notin InTry \cup {"created", "except"}
      BY <1>1, <2>2 DEF JobMatchesStore, Recorded, SettledRun
    <3>2. UNCHANGED store
      BY <1>2, <3>1 DEF Work, SpawnWorker, SaveSchemaDiff, DiffTable, AddRowChanges, CountTable,
         SetSummary, SetDone, Raise, SetError, SetErrorFails, ExitCommand, InTry
    <3> QED BY <3>2, StoreUnchanged
  <2> QED BY <2>1, <2>2
<1>3. ASSUME NEW j \in Job, StartRun(j) \/ RunCommand(j)
      PROVE  Untouched(r)
  BY <1>1, <1>3 DEF StartRun, RunCommand, CreateRun, NextRunId, Untouched, ResultsOf, DetailOf,
                    SchemaOf, TablesOf, TypeOK
<1>4. ASSUME NEW q \in 1..seq, DeleteRun(q)
      PROVE  Untouched(r)
  BY <1>4 DEF DeleteRun, Untouched, ResultsOf, DetailOf, SchemaOf, TablesOf
<1>5. CASE CrashServer \/ UNCHANGED vars \/ \E j \in Job : KillCommand(j)
  BY <1>5, StoreUnchanged DEF CrashServer, KillCommand, vars
<1>6. ASSUME NEW p \in Pages, Show(p)
      PROVE  Untouched(r)
  BY <1>6, StoreUnchanged DEF Show, OpenPage, ReadSchemaChanges, ReadTableResults, ClosePage
<1> QED BY <1>2, <1>3, <1>4, <1>5, <1>6 DEF Next

\* Once settled a run is frozen until it is deleted, unless a command's own
\* last progress line can fail after it marked the run done.
THEOREM SettledRunsAreFrozen ==
  ASSUME ~LogFaults
  PROVE  Spec => SettledIsFrozen
<1>1. IInv /\ [Next]_vars =>
        [\A r \in DOMAIN runs : SettledRun(r) /\ r \in DOMAIN runs' =>
           /\ runs'[r] = runs[r]
           /\ ResultsOf(r)' = ResultsOf(r)
           /\ DetailOf(r)' = DetailOf(r)
           /\ SchemaOf(r)' = SchemaOf(r)]_vars
  BY StepKeepsSettled DEF Untouched
<1> QED BY <1>1, Invariance, PTL DEF Spec, SettledIsFrozen
=============================================================================
