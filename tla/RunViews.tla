------------------------------ MODULE RunViews ------------------------------
(***************************************************************************)
(* The readers of stored runs beside the writers of DiffRuns: a tab that   *)
(* polls a running run until it can show the overview, the pages of a      *)
(* table's changed rows, and the command that prints and exports its run   *)
(* (--json) once run_diff has returned.  Every read is a transaction.      *)
(***************************************************************************)
EXTENDS DiffRuns

CONSTANTS
  Tabs,      \* browser tabs that follow a run and its tables
  JsonJobs,  \* commands with --json
  Limit      \* rows on a page (50)

ASSUME RunViewsAssumption == JsonJobs \subseteq CliJobs /\ Limit \in Nat \ {0}

VARIABLES
  tab,     \* what each tab shows and has shown of a table
  export   \* what each command has printed and read for its export

allvars == <<vars, tab, export>>

Closed == [at |-> "closed", run |-> 0, table |-> "none", offset |-> 0, total |-> 0,
           rows |-> {}, seen |-> {}]
NoExport == [at |-> "none", printed |-> {}, tables |-> {}, detail |-> {}, schema |-> {}]

ViewsTypeOK ==
  /\ \A b \in Tabs :
       /\ tab[b].at \in {"closed", "polling", "refresh", "overview", "failed", "lost",
                         "count", "rows", "listed"}
       /\ tab[b].run \in 0..seq /\ tab[b].table \in Tables \cup {"none"}
       /\ tab[b].offset \in 0..MaxRows /\ tab[b].total \in 0..MaxRows
       /\ tab[b].rows \subseteq 1..MaxRows /\ tab[b].seen \subseteq 1..MaxRows
  /\ \A j \in CliJobs :
       /\ export[j].at \in {"none", "printed", "run", "tables", "written"}
       /\ export[j].printed \subseteq TableResult /\ export[j].tables \subseteq TableResult
       /\ export[j].detail \subseteq [table : Tables, rows : SUBSET (1..MaxRows)]
       /\ export[j].schema \subseteq Tables

InitViews ==
  /\ Init
  /\ tab = [b \in Tabs |-> Closed]
  /\ export = [j \in CliJobs |-> NoExport]

\* How many detail rows of a table are stored; they are numbered by their ids.
NumRows(r, t) ==
  IF t \in TablesOf(DetailOf(r)) THEN (CHOOSE x \in DetailOf(r) : x.table = t).rows ELSE 0

\* get_row_changes: ORDER BY id LIMIT limit OFFSET offset
GetRowChanges(r, t, limit, offset) ==
  {i \in offset + 1 .. offset + limit : i <= NumRows(r, t)}

-----------------------------------------------------------------------------
(* A tab on a run: GET /runs/{id} and its poll.                             *)

\* run_page: an error page has no overview.
View(r) ==
  IF r \notin DOMAIN runs THEN "lost"
  ELSE CASE runs[r].status = "running" -> "polling"
         [] runs[r].status = "done" -> "overview"
         [] runs[r].status = "error" -> "failed"

OpenRun(b, r) ==
  /\ tab[b].at = "closed"
  /\ tab' = [tab EXCEPT ![b] = [Closed EXCEPT !.run = r, !.at = View(r)]]
  /\ UNCHANGED <<vars, export>>

\* Mutant of Poll: it notices runs that are done only.
PollDone(b) ==
  /\ tab[b].at = "polling"
  /\ tab[b].run \in DOMAIN runs
  /\ runs[tab[b].run].status = "done"
  /\ tab' = [tab EXCEPT ![b].at = "refresh"]
  /\ UNCHANGED <<vars, export>>

\* run_status: HX-Refresh once the run has settled.  While it is running the
\* answer is its log, and if it is gone a 404, which htmx passes over: the tab
\* goes on polling.
Poll(b) ==
  /\ tab[b].at = "polling"
  /\ tab[b].run \in DOMAIN runs
  /\ runs[tab[b].run].status # "running"
  /\ tab' = [tab EXCEPT ![b].at = "refresh"]
  /\ UNCHANGED <<vars, export>>

Refresh(b) ==
  /\ tab[b].at = "refresh"
  /\ tab' = [tab EXCEPT ![b].at = View(tab[b].run)]
  /\ UNCHANGED <<vars, export>>

CloseTab(b) ==
  /\ tab[b].at # "closed"
  /\ tab' = [tab EXCEPT ![b] = Closed]
  /\ UNCHANGED <<vars, export>>

-----------------------------------------------------------------------------
(* The pages of a table's rows.                                             *)

\* table_page, by a link of the overview: it loads the first page of rows.
OpenTable(b) ==
  /\ tab[b].at = "overview"
  /\ \/ \E t \in TablesOf(ResultsOf(tab[b].run)) :
          tab' = [tab EXCEPT ![b] = [Closed EXCEPT !.at = "count", !.run = tab[b].run, !.table = t]]
     \/ ResultsOf(tab[b].run) = {} /\ tab' = [tab EXCEPT ![b].at = "lost"]
  /\ UNCHANGED <<vars, export>>

CountRows(b) ==
  /\ tab[b].at = "count"
  /\ tab' = [tab EXCEPT ![b].at = "rows", ![b].total = NumRows(tab[b].run, tab[b].table)]
  /\ UNCHANGED <<vars, export>>

ListRows(b) ==
  /\ tab[b].at = "rows"
  /\ LET rows == GetRowChanges(tab[b].run, tab[b].table, Limit, tab[b].offset)
     IN tab' = [tab EXCEPT ![b].at = "listed", ![b].rows = rows, ![b].seen = @ \cup rows]
  /\ UNCHANGED <<vars, export>>

ShownFrom(b) == IF tab[b].total > 0 THEN tab[b].offset + 1 ELSE 0
ShownTo(b) == IF tab[b].offset + Limit < tab[b].total THEN tab[b].offset + Limit ELSE tab[b].total

\* Mutant of HasNext: a full last page has a next one.
HasNextOrFull(b) == tab[b].offset + Limit <= tab[b].total

HasNext(b) == tab[b].offset + Limit < tab[b].total

NextOffset(b) == tab[b].offset + Limit

\* Mutant of PrevOffset: one row too far.
PrevOffsetMinusOne(b) == tab[b].offset - Limit - 1

PrevOffset(b) == IF tab[b].offset > Limit THEN tab[b].offset - Limit ELSE 0

Follow(b, offset) ==
  /\ tab' = [tab EXCEPT ![b] = [@ EXCEPT !.at = "count", !.offset = offset, !.total = 0, !.rows = {}]]
  /\ UNCHANGED <<vars, export>>

FollowNext(b) == tab[b].at = "listed" /\ HasNext(b) /\ Follow(b, NextOffset(b))
FollowPrev(b) == tab[b].at = "listed" /\ tab[b].offset > 0 /\ Follow(b, PrevOffset(b))

-----------------------------------------------------------------------------
(* The command after run_diff.                                              *)

PrintSummary(j) ==
  /\ pc[j] = "returned" /\ export[j].at = "none"
  /\ export' = [export EXCEPT ![j].at = "printed",
                  ![j].printed = {x \in ResultsOf(run_id[j]) : x.n > 0}]
  /\ UNCHANGED <<vars, tab>>

\* export_run begins with the run itself.
ExportRun(j) ==
  /\ j \in JsonJobs
  /\ pc[j] = "returned" /\ export[j].at = "printed"
  /\ Recorded(j)
  /\ export' = [export EXCEPT ![j].at = "run"]
  /\ UNCHANGED <<vars, tab>>

\* KeyError: the run was deleted.  The command ends with a traceback.
ExportFails(j) ==
  /\ j \in JsonJobs
  /\ pc[j] = "returned" /\ export[j].at = "printed"
  /\ ~Recorded(j)
  /\ exit' = [exit EXCEPT ![j] = 1]
  /\ LeaveRunDiff({j})
  /\ GoTo(j, "ended")
  /\ UNCHANGED <<store, jobs, run_id, page, tab, export>>

ExportTables(j) ==
  /\ pc[j] = "returned" /\ export[j].at = "run"
  /\ export' = [export EXCEPT ![j].at = "tables", ![j].tables = ResultsOf(run_id[j])]
  /\ UNCHANGED <<vars, tab>>

\* Mutant of ExportedRows: the default limit of a page.
ExportedPage(r, t) == GetRowChanges(r, t, Limit, 0)

\* get_row_changes(..., limit=10**9)
ExportedRows(r, t) == GetRowChanges(r, t, MaxRows, 0)

ExportDetail(j) ==
  /\ pc[j] = "returned" /\ export[j].at = "tables"
  /\ \E t \in TablesOf(export[j].tables) \ TablesOf(export[j].detail) :
       export' = [export EXCEPT ![j].detail = @ \cup
                    {[table |-> t, rows |-> ExportedRows(run_id[j], t)]}]
  /\ UNCHANGED <<vars, tab>>

\* The schema changes are read last, then the file is written.
WriteExport(j) ==
  /\ pc[j] = "returned" /\ export[j].at = "tables"
  /\ TablesOf(export[j].detail) = TablesOf(export[j].tables)
  /\ export' = [export EXCEPT ![j].at = "written", ![j].schema = SchemaOf(run_id[j])]
  /\ UNCHANGED <<vars, tab>>

Export(j) ==
  \/ PrintSummary(j) \/ ExportRun(j) \/ ExportFails(j)
  \/ ExportTables(j) \/ ExportDetail(j) \/ WriteExport(j)

-----------------------------------------------------------------------------
\* run_diff, and then the exit code: its last log line precedes the summary,
\* the exit code comes after the export.
Run(j) ==
  /\ Work(j)
  /\ pc[j] = "returned" =>
       export[j].at = IF pc'[j] = "except" THEN "none"
                      ELSE IF j \in JsonJobs THEN "written" ELSE "printed"
  /\ UNCHANGED <<tab, export>>

\* DiffRuns as it is: starting, deleting and killing; and its run pages.
Others ==
  /\ \/ \E j \in Job : StartRun(j) \/ RunCommand(j) \/ KillCommand(j)
     \/ \E r \in 1..seq : DeleteRun(r)
     \/ CrashServer
     \/ \E p \in Pages : Show(p)
  /\ UNCHANGED <<tab, export>>

Follows(b) == Poll(b) \/ Refresh(b)

Browse(b) ==
  \/ \E r \in 1..seq : OpenRun(b, r)
  \/ OpenTable(b) \/ CountRows(b) \/ ListRows(b) \/ FollowNext(b) \/ FollowPrev(b)
  \/ CloseTab(b)

NextViews ==
  \/ \E j \in Job : Run(j)
  \/ \E j \in CliJobs : Export(j)
  \/ Others
  \/ \E b \in Tabs : Follows(b) \/ Browse(b)

SpecViews == InitViews /\ [][NextViews]_allvars

\* Workers and commands keep running, and an open tab polls every second.
FairViews ==
  /\ SpecViews
  /\ \A j \in Job : WF_allvars(Run(j))
  /\ \A j \in CliJobs : WF_allvars(Export(j))
  /\ \A b \in Tabs : WF_allvars(Follows(b))

-----------------------------------------------------------------------------
(* Properties.                                                              *)

Kept(r) == r \in DOMAIN runs

\* A page of rows holds as many rows as its range says and is not empty while
\* there are rows, and whoever has come to the last page by the links has seen
\* every stored row, page ends at multiples of the limit included.  Count and
\* rows are two reads: only a deletion between them parts them.
PagesCoverRows ==
  \A b \in Tabs : tab[b].at = "listed" /\ Kept(tab[b].run) =>
    /\ Cardinality(tab[b].rows) = (IF tab[b].total > 0 THEN ShownTo(b) - ShownFrom(b) + 1 ELSE 0)
    /\ tab[b].rows = {} => tab[b].total = 0
    /\ ~HasNext(b) => tab[b].seen = 1..NumRows(tab[b].run, tab[b].table)

\* An export that was written, although read in many transactions, is the
\* whole of the run if the run is still there, and what the command printed is
\* what it exported.  If the run was deleted meanwhile, results and detail of
\* each table are what run_diff had found, whole, or empty.
ExportIsWhole ==
  \A j \in JsonJobs : export[j].at = "written" =>
    LET e == export[j] r == run_id[j]
    IN /\ e.tables = {} \/ e.printed = {x \in e.tables : x.n > 0}
       /\ Kept(r) =>
            /\ e.tables = ResultsOf(r) /\ e.schema = SchemaOf(r)
            /\ e.printed = {x \in e.tables : x.n > 0}
            /\ \A x \in e.detail : x.rows = 1..NumRows(r, x.table)
       /\ pc[j] = "returned" =>
            /\ e.tables \in {Counted(summary[j]), {}}
            /\ \A x \in e.detail, y \in summary[j] :
                 x.table = y.table => x.rows \in {1..y.listed, {}}

\* A tab that polls a run comes to show its end, be it done or in error,
\* unless the run is deleted or the process of its worker dies.
TabSeesTheEnd ==
  \A b \in Tabs, j \in Job :
    tab[b].at = "polling" /\ tab[b].run = run_id[j] ~>
      tab[b].at # "polling" \/ ~Recorded(j) \/ pc[j] = "dead"
=============================================================================
