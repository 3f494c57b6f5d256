------------------------------ MODULE DiffRuns ------------------------------
(***************************************************************************)
(* The life of a diff run: the engine's run_diff, the SQLite store it      *)
(* writes to (one transaction per store call), the web handlers that       *)
(* start, show and delete runs while workers are writing, and the command  *)
(* line's exit code.  Computing the diff of one table is abstracted to how *)
(* many changed rows it counts and how many it lists.                      *)
(***************************************************************************)
EXTENDS Integers, FiniteSets

CONSTANTS
  WebJobs,      \* runs requested through POST /runs, one worker thread each
  CliJobs,      \* runs requested with `dbdiff run --fail-on-change`
  Tables,       \* tables that may exist in either snapshot
  Excluded,     \* tables the configuration excludes
  MaxRows,      \* bound: changed rows a table can have
  Diffs,        \* what the diff of one table may come to
  Pages,        \* browser tabs showing a run page
  Crashes,      \* TRUE: the web server and the command line may be killed
  StoreFaults,  \* TRUE: recording an error may itself fail (disk full, lock timeout)
  LogFaults     \* TRUE: writing a progress line to a command's stderr may fail

Job == WebJobs \cup CliJobs

Whole == {"added", "removed"}             \* the table is on one side only
Status == {"same", "changed"} \cup Whole  \* table_results.schema_status

TableResult == [table : Tables, status : Status, n : 0..MaxRows]

\* The diff of a table: the changed rows counted, and those listed, by other
\* statements: fewer beyond the cap, more for copies of a row without a key,
\* and any number on a live side (RowDiff).
TableDiff == [table : Tables, status : Status, n : 0..MaxRows, listed : 0..MaxRows]

ASSUME DiffRunsAssumption ==
  /\ WebJobs \cap CliJobs = {}
  /\ Excluded \subseteq Tables
  /\ MaxRows \in Nat
  /\ Diffs \subseteq [n : 0..MaxRows, listed : 0..MaxRows]
  /\ Crashes \in BOOLEAN
  /\ StoreFaults \in BOOLEAN
  /\ LogFaults \in BOOLEAN

VARIABLES
  runs,            \* table runs, a function on the ids of its rows
  seq,             \* sqlite_sequence: the highest id AUTOINCREMENT has given
  schema_changes,  \* table schema_changes
  table_results,   \* table table_results
  row_changes,     \* table row_changes: each table that has detail rows, and how many
  jobs,            \* the web server's progress buffers, by run id
  pc,              \* where each job's control is
  run_id,          \* the id run_diff works under, 0 before create_run
  todo,            \* tables the job has yet to diff or count
  td,              \* diff of the table saved last
  summary,         \* RunSummary, kept as the set of diffs it adds up
  exit,            \* exit code of a command line job, -1 while it runs
  page             \* what each browser tab has been sent

store == <<runs, seq, schema_changes, table_results, row_changes>>
local == <<run_id, todo, td, summary, exit>>
vars == <<store, jobs, pc, local, page>>

NoDiff == [table |-> "none", status |-> "none", n |-> 0, listed |-> 0]
NoSummary == {NoDiff}   \* summary_json IS NULL: equal to no set of diffs
BlankPage == [at |-> "blank", run |-> 0, status |-> "none", summary |-> NoSummary,
              schema |-> {}, tables |-> {}]

InTry == {"resolve", "tables", "rows", "status"}   \* the try block of run_diff
Alive == InTry \cup {"created", "except", "returned"}
PC == Alive \cup {"idle", "ended", "dead"}

TablesOf(S) == {x.table : x \in S}

SchemaOf(r) == TablesOf({x \in schema_changes : x.run = r})
ResultsOf(r) == {[table |-> x.table, status |-> x.status, n |-> x.n] :
                   x \in {y \in table_results : y.run = r}}
DetailOf(r) == {[table |-> x.table, rows |-> x.rows] : x \in {y \in row_changes : y.run = r}}

\* The table results, and the detail rows, that diffs S come to.
Counted(S) == {[table |-> x.table, status |-> x.status, n |-> x.n] : x \in S}
Detailed(S) == {[table |-> x.table, rows |-> x.listed] : x \in {y \in S : y.listed > 0}}

Page == [at : {"blank", "row", "schema", "shown"}, run : Nat,
         status : {"none", "running", "done", "error"},
         summary : {NoSummary} \cup SUBSET TableDiff,
         schema : SUBSET Tables, tables : SUBSET TableResult]

TypeOK ==
  /\ seq \in Nat
  /\ DOMAIN runs \subseteq 1..seq
  /\ \A r \in DOMAIN runs :
       runs[r] \in [status : {"running", "done", "error"},
                    summary : {NoSummary} \cup SUBSET TableDiff]
  /\ schema_changes \subseteq [run : Nat, table : Tables]
  /\ table_results \subseteq [run : Nat, table : Tables, status : Status, n : 0..MaxRows]
  /\ row_changes \subseteq [run : Nat, table : Tables, rows : 1..MaxRows]
  /\ jobs \subseteq Nat
  /\ pc \in [Job -> PC]
  /\ run_id \in [Job -> Nat]
  /\ todo \in [Job -> SUBSET [table : Tables \ Excluded, status : Status]]
  /\ td \in [Job -> TableDiff \cup {NoDiff}]
  /\ summary \in [Job -> SUBSET TableDiff]
  /\ exit \in [Job -> {-1, 0, 1}]
  /\ page \in [Pages -> Page]

Init ==
  /\ runs = [r \in {} |-> [status |-> "running", summary |-> NoSummary]]
  /\ seq = 0
  /\ schema_changes = {}
  /\ table_results = {}
  /\ row_changes = {}
  /\ jobs = {}
  /\ pc = [j \in Job |-> "idle"]
  /\ run_id = [j \in Job |-> 0]
  /\ todo = [j \in Job |-> {}]
  /\ td = [j \in Job |-> NoDiff]
  /\ summary = [j \in Job |-> {}]
  /\ exit = [j \in Job |-> -1]
  /\ page = [p \in Pages |-> BlankPage]

-----------------------------------------------------------------------------
(* The store.  PRAGMA foreign_keys=ON: inserting a row for a run that is    *)
(* not there raises.  An UPDATE of such a run changes nothing.              *)

\* Mutant of ForeignKeyHolds: the PRAGMA is left out.
ForeignKeysOff(j) == TRUE

ForeignKeyHolds(j) == run_id[j] \in DOMAIN runs

\* Mutant of NextRunId: without AUTOINCREMENT the id of a deleted run is reused.
ReusedRunId ==
  IF DOMAIN runs = {} THEN 1
  ELSE 1 + CHOOSE m \in DOMAIN runs : \A r \in DOMAIN runs : r <= m

\* id INTEGER PRIMARY KEY AUTOINCREMENT
NextRunId == seq + 1

GoTo(j, label) == pc' = [pc EXCEPT ![j] = label]

\* The local variables of _diff_endpoints die when run_diff returns or raises.
LeaveRunDiff(J) ==
  /\ todo' = [j \in Job |-> IF j \in J THEN {} ELSE todo[j]]
  /\ td' = [j \in Job |-> IF j \in J THEN NoDiff ELSE td[j]]
  /\ summary' = [j \in Job |-> IF j \in J THEN {} ELSE summary[j]]

CreateRun(j, label) ==
  /\ pc[j] = "idle"
  /\ seq' = NextRunId
  /\ runs' = [r \in DOMAIN runs \cup {NextRunId} |->
                IF r = NextRunId THEN [status |-> "running", summary |-> NoSummary] ELSE runs[r]]
  /\ run_id' = [run_id EXCEPT ![j] = NextRunId]
  /\ GoTo(j, label)
  /\ UNCHANGED <<schema_changes, table_results, row_changes, jobs, todo, td, summary, exit, page>>

\* Mutant of SetStatus: an upsert brings a deleted run back.
UpsertStatus(j, status) ==
  /\ runs' = [r \in DOMAIN runs \cup {run_id[j]} |->
                IF r = run_id[j]
                THEN [status |-> status,
                      summary |-> IF r \in DOMAIN runs THEN runs[r].summary ELSE NoSummary]
                ELSE runs[r]]
  /\ UNCHANGED <<seq, schema_changes, table_results, row_changes, jobs, run_id, exit, page>>

SetStatus(j, status) ==
  /\ runs' = [r \in DOMAIN runs |->
                IF r = run_id[j] THEN [runs[r] EXCEPT !.status = status] ELSE runs[r]]
  /\ UNCHANGED <<seq, schema_changes, table_results, row_changes, jobs, run_id, exit, page>>

-----------------------------------------------------------------------------
(* Starting a run: the web handler creates the row, then the progress       *)
(* buffer and the thread; the command line lets run_diff create the row.    *)

StartRun(j) == j \in WebJobs /\ CreateRun(j, "created")

SpawnWorker(j) ==
  /\ pc[j] = "created"
  /\ jobs' = jobs \cup {run_id[j]}
  /\ GoTo(j, "resolve")
  /\ UNCHANGED <<store, local, page>>

RunCommand(j) == j \in CliJobs /\ CreateRun(j, "resolve")

-----------------------------------------------------------------------------
(* run_diff, one action per store call.                                     *)

\* Mutant of Present: tables that are on neither side are visited too.
NotExcluded(sdiff) == Tables \ Excluded

\* The tables run_diff visits: on either side and included.
Present(sdiff) == {t \in Tables \ Excluded : sdiff[t] # "absent"}

\* Both sides are resolved and introspected; whatever the two schemas hold is
\* saved, excluded tables included, and the tables to visit are chosen.
SaveSchemaDiff(j) ==
  /\ pc[j] = "resolve"
  /\ \E sdiff \in [Tables -> Status \cup {"absent"}] :
       LET changed == {t \in Tables : sdiff[t] \in {"changed"} \cup Whole}
       IN /\ changed # {} => ForeignKeyHolds(j)
          /\ schema_changes' = schema_changes \cup {[run |-> run_id[j], table |-> t] : t \in changed}
          /\ todo' = [todo EXCEPT ![j] = {[table |-> t, status |-> sdiff[t]] : t \in Present(sdiff)}]
  /\ GoTo(j, "tables")
  /\ UNCHANGED <<runs, seq, table_results, row_changes, jobs, run_id, td, summary, exit, page>>

SaveTableResult(j, w, n) ==
  /\ ForeignKeyHolds(j)
  /\ table_results' = table_results \cup
       {[run |-> run_id[j], table |-> w.table, status |-> w.status, n |-> n]}
  /\ todo' = [todo EXCEPT ![j] = @ \ {w}]

\* A table of both sides (in any order: the code sorts them by name).
DiffTable(j) ==
  /\ pc[j] = "tables"
  /\ \E w \in todo[j], d \in Diffs :
       /\ w.status \notin Whole
       /\ SaveTableResult(j, w, d.n)
       /\ td' = [td EXCEPT ![j] = [table |-> w.table, status |-> w.status,
                                  n |-> d.n, listed |-> d.listed]]
  /\ GoTo(j, "rows")
  /\ UNCHANGED <<runs, seq, schema_changes, row_changes, jobs, run_id, summary, exit, page>>

AddRowChanges(j) ==
  /\ pc[j] = "rows"
  /\ td[j].listed > 0 => ForeignKeyHolds(j)
  /\ row_changes' = IF td[j].listed > 0
                    THEN row_changes \cup
                           {[run |-> run_id[j], table |-> td[j].table, rows |-> td[j].listed]}
                    ELSE row_changes
  /\ summary' = [summary EXCEPT ![j] = @ \cup {td[j]}]
  /\ td' = [td EXCEPT ![j] = NoDiff]
  /\ GoTo(j, "tables")
  /\ UNCHANGED <<runs, seq, schema_changes, table_results, jobs, run_id, todo, exit, page>>

\* A whole added or removed table, after all the common ones: its rows are
\* counted, no detail is kept.
CountTable(j) ==
  /\ pc[j] = "tables"
  /\ \A w \in todo[j] : w.status \in Whole
  /\ \E w \in todo[j], n \in 0..MaxRows :
       /\ SaveTableResult(j, w, n)
       /\ summary' = [summary EXCEPT ![j] = @ \cup {[table |-> w.table, status |-> w.status,
                                                    n |-> n, listed |-> 0]}]
  /\ UNCHANGED <<runs, seq, schema_changes, row_changes, jobs, pc, run_id, td, exit, page>>

\* Mutant of SetSummary: stored while tables are still to be visited.
SetSummaryEarly(j) ==
  /\ pc[j] = "tables"
  /\ runs' = [r \in DOMAIN runs |->
                IF r = run_id[j] THEN [runs[r] EXCEPT !.summary = summary[j]] ELSE runs[r]]
  /\ GoTo(j, "status")
  /\ UNCHANGED <<seq, schema_changes, table_results, row_changes, jobs, local, page>>

SetSummary(j) ==
  /\ pc[j] = "tables"
  /\ todo[j] = {}
  /\ runs' = [r \in DOMAIN runs |->
                IF r = run_id[j] THEN [runs[r] EXCEPT !.summary = summary[j]] ELSE runs[r]]
  /\ GoTo(j, "status")
  /\ UNCHANGED <<seq, schema_changes, table_results, row_changes, jobs, local, page>>

SetDone(j) ==
  /\ pc[j] = "status"
  /\ SetStatus(j, "done")
  /\ LeaveRunDiff({j} \cap WebJobs)   \* a command goes on with the summary
  /\ GoTo(j, IF j \in CliJobs THEN "returned" ELSE "ended")

\* Mutant of Raise: the exception leaves run_diff with no except clause.
RaiseUncaught(j) ==
  /\ pc[j] \in InTry
  /\ LeaveRunDiff({j})
  /\ GoTo(j, "ended")
  /\ UNCHANGED <<store, jobs, run_id, exit, page>>

\* A source cannot be read, a restore fails, a query fails, the store is
\* locked or the run was deleted and a foreign key is violated: the pending
\* transaction is rolled back and the except clause is entered.
\* In a command the last progress line, log("done."), may fail too.
Raise(j) ==
  /\ pc[j] \in InTry \/ (LogFaults /\ pc[j] = "returned")
  /\ LeaveRunDiff({j})
  /\ GoTo(j, "except")
  /\ UNCHANGED <<store, jobs, run_id, exit, page>>

SetError(j) ==
  /\ pc[j] = "except"
  /\ SetStatus(j, "error")
  /\ GoTo(j, "ended")
  /\ UNCHANGED <<todo, td, summary>>

\* Inside the except clause log or set_status raises; a worker swallows it.
SetErrorFails(j) ==
  /\ StoreFaults \/ (LogFaults /\ j \in CliJobs)
  /\ pc[j] = "except"
  /\ GoTo(j, "ended")
  /\ UNCHANGED <<store, jobs, local, page>>

HasChanges(s) == \E x \in s : x.n > 0 \/ x.status \in Whole

\* if fail_on_change and summary.has_changes: sys.exit(1)
ExitCommand(j) ==
  /\ pc[j] = "returned"
  /\ exit' = [exit EXCEPT ![j] = IF HasChanges(summary[j]) THEN 1 ELSE 0]
  /\ LeaveRunDiff({j})
  /\ GoTo(j, "ended")
  /\ UNCHANGED <<store, jobs, run_id, page>>

-----------------------------------------------------------------------------
(* Deleting a run, which nothing prevents while its worker is still writing *)
(* (from the web app, which also drops the progress buffer, or with         *)
(* `dbdiff runs delete`), and processes being killed.                       *)

DeleteRun(r) ==
  /\ r \in DOMAIN runs
  /\ runs' = [x \in DOMAIN runs \ {r} |-> runs[x]]
  /\ schema_changes' = {x \in schema_changes : x.run # r}
  /\ table_results' = {x \in table_results : x.run # r}
  /\ row_changes' = {x \in row_changes : x.run # r}
  /\ jobs' \in {jobs, jobs \ {r}}
  /\ UNCHANGED <<seq, pc, local, page>>

\* The server process dies: its worker threads are daemons and die with it,
\* and the progress buffers were only in memory.
CrashServer ==
  /\ Crashes
  /\ \E j \in WebJobs : pc[j] \in Alive
  /\ pc' = [j \in Job |-> IF j \in WebJobs /\ pc[j] \in Alive THEN "dead" ELSE pc[j]]
  /\ jobs' = {}
  /\ page' = [p \in Pages |-> BlankPage]
  /\ LeaveRunDiff(WebJobs)
  /\ UNCHANGED <<store, run_id, exit>>

\* Ctrl-C is not an Exception, so run_diff's except clause does not see it.
KillCommand(j) ==
  /\ Crashes
  /\ j \in CliJobs
  /\ pc[j] \in Alive
  /\ LeaveRunDiff({j})
  /\ GoTo(j, "dead")
  /\ UNCHANGED <<store, jobs, run_id, exit, page>>

-----------------------------------------------------------------------------
(* GET /runs/{run_id}: three reads, each on a connection of its own.        *)

OpenPage(p, r) ==
  /\ page[p].at = "blank"
  /\ r \in DOMAIN runs
  /\ page' = [page EXCEPT ![p] = [BlankPage EXCEPT
                !.at = IF runs[r].status = "running" THEN "shown" ELSE "row",
                !.run = r, !.status = runs[r].status, !.summary = runs[r].summary]]
  /\ UNCHANGED <<store, jobs, pc, local>>

ReadSchemaChanges(p) ==
  /\ page[p].at = "row"
  /\ page' = [page EXCEPT ![p].at = "schema", ![p].schema = SchemaOf(page[p].run)]
  /\ UNCHANGED <<store, jobs, pc, local>>

ReadTableResults(p) ==
  /\ page[p].at = "schema"
  /\ page' = [page EXCEPT ![p].at = "shown", ![p].tables = ResultsOf(page[p].run)]
  /\ UNCHANGED <<store, jobs, pc, local>>

ClosePage(p) ==
  /\ page[p].at = "shown"
  /\ page' = [page EXCEPT ![p] = BlankPage]
  /\ UNCHANGED <<store, jobs, pc, local>>

-----------------------------------------------------------------------------
Work(j) ==
  \/ SpawnWorker(j)
  \/ SaveSchemaDiff(j)
  \/ DiffTable(j)
  \/ AddRowChanges(j)
  \/ CountTable(j)
  \/ SetSummary(j)
  \/ SetDone(j)
  \/ Raise(j)
  \/ SetError(j)
  \/ SetErrorFails(j)
  \/ ExitCommand(j)

Show(p) ==
  \/ \E r \in 1..seq : OpenPage(p, r)
  \/ ReadSchemaChanges(p)
  \/ ReadTableResults(p)
  \/ ClosePage(p)

Next ==
  \/ \E j \in Job : StartRun(j) \/ RunCommand(j) \/ Work(j) \/ KillCommand(j)
  \/ \E r \in 1..seq : DeleteRun(r)
  \/ CrashServer
  \/ \E p \in Pages : Show(p)

Spec == Init /\ [][Next]_vars

\* A worker thread and a command keep running: every call they make returns
\* or raises.  Nothing obliges anyone to start, show or delete a run.
Fairness == \A j \in Job : WF_vars(Work(j))

FairSpec == Spec /\ Fairness

-----------------------------------------------------------------------------
(* Properties.                                                              *)

\* A run marked done has everything: its stored summary accounts for exactly
\* the stored table results, the detail rows of every table were saved, and every
\* included table with a schema change has a result (run_diff stores the summary
\* and the status last), whatever other runs, deletions and crashes happened
\* meanwhile.  Nor does a run lose any of it that has its summary and is marked
\* in error after all, by a command whose last progress line fails.
DoneIsComplete ==
  \A r \in DOMAIN runs :
    /\ runs[r].status = "done" => runs[r].summary # NoSummary
    /\ runs[r].summary # NoSummary =>
         /\ ResultsOf(r) = Counted(runs[r].summary)
         /\ DetailOf(r) = Detailed(runs[r].summary)
         /\ SchemaOf(r) \ Excluded \subseteq TablesOf(ResultsOf(r))

\* No row of a deleted run stays or comes back in the store, although its
\* worker may go on saving results after delete_run removed them (foreign_keys).
NoOrphanRows ==
  \A x \in schema_changes \cup table_results \cup row_changes : x.run \in DOMAIN runs

\* A page that shows a finished run shows all of it: run_page reads the run
\* before its schema changes and results, so it never mixes a done status with
\* a partial result; only a deletion in between can leave the lists empty.
PageIsWhole ==
  \A p \in Pages : page[p].at = "shown" /\ page[p].status = "done" =>
    /\ page[p].tables \in {Counted(page[p].summary), {}}
    /\ page[p].run \in DOMAIN runs =>
         /\ page[p].tables = Counted(page[p].summary)
         /\ page[p].schema = SchemaOf(page[p].run)

Recorded(j) == run_id[j] \in DOMAIN runs

\* No two jobs ever work under one id.
OwnId ==
  \A i, j \in Job : run_id[i] = run_id[j] /\ run_id[i] # 0 => i = j

JobOfRun(j) ==
  /\ pc[j] = "idle" <=> run_id[j] = 0
  /\ run_id[j] <= seq
  /\ pc[j] \in {"idle", "created", "resolve"} => summary[j] = {}
  /\ pc[j] = "rows" => td[j] \in TableDiff /\ td[j].status \notin Whole

\* While the run of a working job exists it is marked running, and what the
\* job remembers is what the store holds.
JobMatchesStore(j) ==
  Recorded(j) =>
    /\ pc[j] \in InTry \cup {"created"} \/ (pc[j] = "except" /\ ~LogFaults)
         => runs[run_id[j]].status = "running"
    /\ pc[j] \in {"created", "resolve", "tables", "status"} =>
         /\ ResultsOf(run_id[j]) = Counted(summary[j])
         /\ DetailOf(run_id[j]) = Detailed(summary[j])
    /\ pc[j] = "rows" =>
         /\ ResultsOf(run_id[j]) = Counted(summary[j] \cup {td[j]})
         /\ DetailOf(run_id[j]) = Detailed(summary[j])
    /\ pc[j] \in {"created", "resolve", "tables", "rows"} =>
         runs[run_id[j]].summary = NoSummary
    /\ pc[j] = "status" => runs[run_id[j]].summary = summary[j]

\* An included table whose schema change is stored has a result or is to be
\* visited, until nothing is left to visit.
JobVisitsAll(j) ==
  /\ pc[j] \in {"idle", "created", "resolve", "status"} => todo[j] = {}
  /\ Recorded(j) /\ pc[j] \in InTry \cup {"created"} =>
       SchemaOf(run_id[j]) \ Excluded \subseteq
         TablesOf(ResultsOf(run_id[j])) \cup TablesOf(todo[j])

\* The invariant that is inductive: a run that has its summary is complete
\* because the only job that writes under its id had matched the store until it
\* stored the summary, and has saved nothing since.
IInv ==
  /\ TypeOK
  /\ NoOrphanRows
  /\ DoneIsComplete
  /\ OwnId
  /\ \A j \in Job : JobOfRun(j) /\ JobMatchesStore(j) /\ JobVisitsAll(j)

SettledRun(r) == r \in DOMAIN runs /\ runs[r].status # "running"

\* Once a run is done or in error nothing of it changes until it is deleted:
\* no late worker and no worker of another run writes under its id.
SettledIsFrozen ==
  [][\A r \in DOMAIN runs : SettledRun(r) /\ r \in DOMAIN runs' =>
       /\ runs'[r] = runs[r]
       /\ ResultsOf(r)' = ResultsOf(r)
       /\ DetailOf(r)' = DetailOf(r)
       /\ SchemaOf(r)' = SchemaOf(r)]_vars

Reports == {S \in SUBSET TableResult : \A x, y \in S : x.table = y.table => x = y}

History == INSTANCE RunHistory WITH
  Report <- Reports,
  issued <- seq,
  phase  <- [r \in 1..seq |-> IF r \in DOMAIN runs THEN runs[r].status ELSE "deleted"],
  report <- [r \in 1..seq |-> IF SettledRun(r) /\ runs[r].status = "done"
                              THEN ResultsOf(r) ELSE {}]

\* The store written piece by piece implements the history a reader relies on:
\* reports appear at once, ids are never reused (AUTOINCREMENT), and a run that
\* was deleted under its worker does not reappear.
RefinesHistory == History!Spec

Open(j) == Recorded(j) /\ runs[run_id[j]].status = "running"

\* A run that is recorded as running ends up done, in error or deleted, unless
\* its process is killed or the error status cannot be stored: no exception,
\* swallowed by a worker or not, leaves it running.
EveryRunSettles == \A j \in Job : Open(j) ~> ~Open(j) \/ pc[j] = "dead"

\* --fail-on-change exits with 1 if anything changed in the included tables.
ExitTellsAnyChange ==
  \A j \in CliJobs : exit[j] = 0 => SchemaOf(run_id[j]) \subseteq Excluded
=============================================================================
