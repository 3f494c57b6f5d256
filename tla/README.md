# dbdiff in TLA+

dbdiff compares two snapshots of a MySQL or MariaDB database, each a live
database or a dump, table by table and row by row, keeps the result of every
run in a SQLite file, and shows it in a local web app.  This directory holds a
model of its core, the runs that check it and proofs about it.  Paths below are
relative to `src/dbdiff/` in the repository unless they start with a name of
the repository's root (`README.md`, `dbdiff.example.yml`).

## The system

| Component | State it keeps | Operations | Model |
|---|---|---|---|
| Engine, `engine.py` | locals of one run: run id, tables to do, summary | `run_diff`, `_diff_endpoints` | `DiffRuns` |
| Run store, `store.py` | SQLite tables `runs`, `schema_changes`, `table_results`, `row_changes` | create, save, set status, delete; reads for pages and exports | `DiffRuns`, `RunHistory`, `RunViews` |
| Web app, `web/app.py` | log buffers in memory, a daemon thread for each run | start, show, poll, delete a run; pages of a table's rows | `DiffRuns`, `RunViews` |
| Command line, `cli.py` | none | `run`, `runs`, `cache`, `serve` | `DiffRuns`, `RunViews`, `SnapshotCache`, `EphemeralRun` |
| Row diff, `row_diff.py` | what its statements returned so far | `diff_table`, `diff_table_sql`, `_diff_keyless` | `RowDiff` |
| Snapshot cache, `cache.py` | one docker container for all commands: databases and a registry | `ensure`, eviction, `clear`, `list` | `SnapshotCache` |
| Restore, `mariadb_container.py` | writer thread, client process, two pipes | `restore_dump` | `RestoreDump`, `Restore` |
| Ephemeral container, `mariadb_container.py` | one container for each uncached run | `ephemeral_mariadb` | `EphemeralRun` |
| Source specs, `sources.py` | downloaded files | `parse_spec`, `safe_label` | `EphemeralRun`, `SnapshotCache`; no text |
| Introspection, `mysql_io.py` | none | three reads of each side | `SchemaDiff` |
| Schema diff, `schema_diff.py` | none | `diff_schemas` | `SchemaDiff` |
| Configuration, `config.py` | none | included tables, keys, ignored columns | `SchemaDiff`; no YAML |
| Templates, static files | none | rendering | no |

A run goes through them like this.  The command line, or a web handler that has
already created the run's row and gone on to redirect the browser, calls
`run_diff`.  It resolves both specs to endpoints: through the cache (command
line) or through an ephemeral container (web app, `--no-cache`), `restore_dump`
doing the work in both.  It introspects both, stores the schema difference, then
for each table that both sides have calls the row diff and stores the counts and
the changed rows, then counts the rows of tables that only one side has, and at
last stores the summary and the status.  Every store call is a transaction of
its own on a connection of its own.  Meanwhile pages are read from the store,
runs are deleted from it, and other commands use the same cache container.

What is hard about it, and rarely met in a test:

* a run is deleted while its worker writes; a page is read while both happen;
* an exception is recorded by code that can itself fail, in a thread that
  swallows exceptions;
* commands share a container that outlives them, with no lock, and any command
  can be killed anywhere in the miss, restore, register, evict sequence;
* containers that are started, found by port, filled by name and removed by
  runs that know nothing of each other, while servers in them die;
* a live database that is altered or written between the statements that read it;
* a result that is read back in many transactions, page by page or for an export;
* two bounded pipes, two threads and a process that may wait for each other,
  and three places from which the failure of a restore has to be put together;
* NULLs, duplicates, columns of one side only, ignored columns and a detail
  cap, in three algorithms for the same table diff, one of them on live data.

What makes each component correct, and where it is stated:

* *Runs*: a run that has its summary is complete, also if it turns from done
  into one in error (`DoneIsComplete`), deletion is final
  (`NoOrphanRows`, `RefinesHistory`), a settled run is immutable
  (`SettledIsFrozen`), a page is consistent (`PageIsWhole`), every run settles
  (`EveryRunSettles`).
* *Row diff*: counts are exact (`CountsAreExact`), the detail is a patch from
  base to new (`ChangesPatchBase`), detail and counts agree up to the cap
  (`DetailMatchesCounts`, `KeylessDetailIsComplete`); on live data, counts of
  one moment (`CountsOfOneMoment`), as many changes listed as counted where the
  list is made of the scans (`DetailMatchesCounts`), and real rows
  (`DetailWasReal`).
* *Schema diff and configuration*: the schema changes are a patch from base to
  new (`SchemaChangesPatchBase`), an altered table disturbs no other
  (`OtherTablesAreExact`), every included table is accounted for once
  (`EveryTableOnce`), the summary says what the results say
  (`SummaryMatchesResults`).
* *Readers*: pages of rows show every row (`PagesCoverRows`), an export is the
  whole run (`ExportIsWhole`), a polling tab comes to the end of its run
  (`TabSeesTheEnd`).
* *Uncached runs*: a run diffs the dumps it was given (`RunReadsItsDumps`), what
  ends leaves no container and no volume (`NothingLeft`), no container stays
  while its process lives (`ContainersGo`).
* *Cache*: a diff reads exactly the dumps its specs name
  (`DiffReadsItsDumps`), a registered snapshot is whole (`RegisteredIsWhole`),
  the cap holds (`CapHoldsAfterMiss`).
* *Restore*: success means everything was loaded (`SuccessIsWhole`,
  `RefinesRestore`), and the call ends (`RestoreEnds`).

## The modules

### DiffRuns and RunHistory

`DiffRuns` is the life of runs.  The four SQLite tables are variables of their
names, `seq` is the counter behind `AUTOINCREMENT`, and every store method is
one atomic action, since each is one transaction: `CreateRun`, `SaveSchemaDiff`,
`SaveTableResult` (as part of `DiffTable` and `CountTable`), `AddRowChanges`,
`SetSummary`, `SetStatus` (in `SetDone` and `SetError`), `DeleteRun`.
`PRAGMA foreign_keys` is the guard `ForeignKeyHolds` of every insert; an
`UPDATE` of a run that is not there changes nothing.  `Raise` is any exception
in the `try` block of `run_diff`; `SetErrorFails` is one in its `except`
clause.  `pc` follows each job; a web job creates its row in the handler and
then starts its thread, a command does both in `run_diff`.  `CrashServer` ends
all workers and forgets the log buffers, `KillCommand` is an interrupt, which
`except Exception` does not see.  `page` is the state of a browser tab that is
being sent a run page in three reads.

The diff of one table is abstracted to two numbers: `n`, the changed rows it
counts, and `listed`, those in `td.changes`.  They are separate, since `RowDiff`
counts and lists in statements of their own: above the cap, for copies without a
key and on a live side they differ.  `Diffs` is the set of pairs a diff may come
to.  A table result is `[table, status, n]`; detail rows are stored if something
was listed, as many as were listed.  The summary is the set of diffs it adds up,
so that two summaries are equal only if they account for the same results; each
diff in it keeps what was listed, which the summary stored by the code does not
have: it is there for the properties, to say what the detail should be
(`Detailed`).  The order of tables, by name in the code, is any order.

`RunHistory` is the abstract specification: ids are given out in order and
never again, a run settles once, its report appears in one step, and a deleted
run stays deleted.  `DiffRuns` implements it with `report` mapped to the results
of a done run and `phase` to its status, or "deleted" for an id that has been
issued but has no row.

### RunViews

`RunViews` extends `DiffRuns` with those who read a run.  A tab follows a run
that is running (`run_status` answers with the log, or with `HX-Refresh` once the
run has settled, or with a 404 that htmx passes over), then its overview, then
the pages of a table: `count_row_changes` and `get_row_changes` are two reads,
`CountRows` and `ListRows`, with the links of `_rows.html` between them.  A
command prints the summary when `run_diff` has returned (`PrintSummary`), and
with `--json` reads the run again in one transaction for each part (`ExportRun`
.. `WriteExport`) before its exit code is decided; the export of a deleted run is
a `KeyError` if the run was gone at its first read (`ExportFails`).  The detail
rows of a table are the numbers `1..NumRows` in the order of their ids, `NumRows`
being the number of rows stored for the table, which may be more or fewer than
were counted.  A tab looks at the changes of one type, and the numbers are then
the rows of that type: the links of a page stay with its type, and choosing
another type on the table page begins at its offset 0, like opening the table.
An export reads the rows of all types at once.

`Run(j)` is `Work(j)` of `DiffRuns` held back until the export is done where the
code comes to the exit code only then.

### RowDiff

The diff of one table, one action per SQL statement.  A table is a function
from row identities to rows, a row a function from columns to values or `Null`;
`BaseColumns` and `NewColumns` differ, so that columns were added and dropped.
`ScanBase` .. `FetchBase` are `diff_table`; `CountInserted` .. `ListModified`
are `diff_table_sql` with its `<=>` join and its `IS NULL` test for unmatched
rows; `CountBaseHashes` .. `FetchDeleted` are `_diff_keyless`.  Which of them
runs is decided in `Init` as the engine and the two functions decide it, from
the arguments of the call, which are variables that `Init` chooses and nothing
changes: `key`, `cap` (the value of `DETAIL_CAP`) and `same_server`.
`Hash` substitutes the sentinel for NULL and for a column of the other side;
`Join`, a constant, stands for MD5 over the concatenation of the texts and keeps
different texts apart in the runs.  `LIMIT` without `ORDER BY` is any subset of
that size.  `Write` replaces the content of a live side between two statements.
`seen` remembers the contents each side has had, for the properties only.

The queries come in batches of 500 or 1000 keys and are one action here: the
fetched rows do not depend on the batch, except that a live side could change
between two batches.  Collations and rendering of retyped columns are left out.

### SchemaDiff

What a diff decides before it looks at a row.  `ReadNames`, `ReadColumns` and
`ReadKeys` are the three statements of `introspect`, for base and then for new;
`Snapshot` puts their answers together as it does, under the names that were
read first.  `Ddl` is another client of a live side, between any two of them.
`SaveSchemaDiff` is `diff_schemas` with the rows that `save_schema_diff` makes of
it; `IsIncluded`, `KeyFor` and `IgnoredColumns` are `Config`, where a pattern of
`include` or `exclude` is the set of tables it matches; `DiffTable` and
`CountTable` are the loops of `_diff_endpoints` over tables of both sides and of
one side, with the number of changed rows left open between none and one, and
the summary counted where the code counts it.  The key of a result is the one
that is stored (`KeyUsed`): that of `KeyFor` if both sides have its columns, and
none if the row diff fell back to whole rows.  `touched` remembers the tables that
were altered, for the properties only.

### SnapshotCache

The container, its databases and the registry are shared by the processes in
`Procs`; `content[schema][i]` says which dump table `i` of a schema came from.
Each docker command and SQL statement of `_container`, `_has`, `_touch`,
`_drop`, `restore_dump`, `_register`, `_evict` and `clear` is an action, and so
is the removal of the dump file.  `gen` tells containers apart: a process
memoises host and port, so a container that was replaced under it is one it
cannot connect to (`Connects`).  `Raise` covers every failure and every kill:
the code undoes nothing in either case.  `Now` is the clock; with `Ties` two
uses may fall into one second, all that `last_used` keeps.  `Name` is
`schema_for` after `safe_label`: injective when basenames differ.

The restore inside a miss is `CreateDatabase` and one `LoadTable` for each part
of the dump.  To a command these steps are the abstract `Restore`: `LoadTable`
is its `Load`, going on to `register` its `Succeed`, `Raise` its `Fail`.  Its
`CutOff` has no step here: a client that outlives its command is left out (known
limits).
`docker exec` reaches the container by name and not by port; the model lets it
reach only the container the process has connected to.  Live sources bypass the
cache and are left out; `list` only reads.

### EphemeralRun

The life of a run without the cache, for several runs at once, one action for
each docker command and each stage of `_execute`: the sources are parsed and
downloaded (`files` is the directory `mkdtemp` made, one for each run), the
container is started, its port asked for, the server waited for, each dump
restored, both sides connected, the diff done, and the container removed by the
`finally` clause.  Databases are created through the mapped port and loaded by
`docker exec` under the container's name, so the model keeps the two ways apart:
`Answering` is who listens at the run's port, which is another run's server if
docker has given the port of a dead container away.  `RunFails` is before the
`try` block, where nothing removes what docker had created by then;
`RemoveFails` is a cleanup that was not reached or failed; both leave the run in
`faulted`.  `CrashServer`, `KillCommand`, `ServerUp` and `ServerDies` are the
outside.  A restore is one step, as `Restore` allows; what the diff stores is in
`DiffRuns`.

### Restore and RestoreDump

`Restore` is what a caller of `restore_dump` relies on: the dump is loaded
piece by piece, a call returns only if all of it was, and nothing is loaded
after the call has returned or raised, with one exception: a call that raised
because its client was cut off (`CutOff`) may have left it `orphaned`, and such a
client loads on.  `RestoreDump` is the code: the writer
thread with the buffer of `proc.stdin`, the client behind `docker exec` with its
two bounded pipes, and the main thread that reads stderr to its end, joins the
writer, waits for the client and puts the outcome together.  The client is
external: it may print any number of lines, stop at an error, or die with its
container.  `docker exec` may be killed instead (`ExecKilled`), which the main
thread sees as an exit, while the client in the container executes what it was
sent already (`ExecuteLate`).

### MC modules

`MCDiffRuns`, `MCRowDiff`, `MCSchemaDiff`, `MCSnapshotCache` and
`MCEphemeralRun` hold the constants that are more than model values, and the
symmetry of `DiffRuns_store`.  `MCRunViews` restricts the starts to one run and
lists what its diffs may come to.

## What the runs check

Runs that pass:

| Run | Shows | Bounds |
|---|---|---|
| `DiffRuns_store` | `TypeOK`, `DoneIsComplete`, `NoOrphanRows` and the inductive invariant `IInv` | a web run and a command run, two tables, one row counted and not listed or listed and not counted, crashes, failures of store and log |
| `DiffRuns_readers` | `PageIsWhole`, `SettledIsFrozen`, refinement of `RunHistory`, `EveryRunSettles` | the same two runs, one table with no changed row, one, or one that is counted only, a tab, deletions and kills, no failing log, a store that accepts the error status |
| `RowDiff_rest` | `CountsAreExact`, `ChangesPatchBase`, `DetailMatchesCounts`, `KeylessDetailIsComplete` | the three algorithms, every pair of tables of two rows at most: columns dropped, added and ignored, NULLs; duplicates when there is no key; a key that one side does not have; cap 1 and 5 |
| `RowDiff_live` | `CountsOfOneMoment`, `DetailMatchesCounts`, `DetailWasReal` | the three algorithms, two columns, two writes anywhere between the statements |
| `SchemaDiff_ddl` | `SchemaChangesPatchBase`, `OtherTablesAreExact`, `EveryTableOnce`, `SummaryMatchesResults` | two tables in seven forms and one, four configurations, two DDL statements anywhere during the introspection |
| `RunViews_all` | `PagesCoverRows`, `ExportIsWhole`, `TabSeesTheEnd` | one run, of a worker or of a command with `--json`, two tables of up to three changed rows, all listed, one left out at the cap or a copy listed besides, pages of two, one tab, deletions and kills |
| `SnapshotCache_serial` | `DiffReadsItsDumps`, `RegisteredIsWhole`, their inductive invariant, `CapHoldsAfterMiss` | three commands, four snapshots of two tables, cap 2, failures anywhere, the container stopped from outside |
| `SnapshotCache_apart` | `DiffReadsItsDumps` for two commands at once on different snapshots below the cap | two processes, four snapshots, uses within one second |
| `EphemeralRun_two` | `RunReadsItsDumps`, `NothingLeft`, `ContainersGo` | a web run and a command run, three downloads of which two share a basename, a local dump, a live database, two ports, every step failing, servers that die |
| `RestoreDump_all` | `SuccessIsWhole`, the inductive invariant, refinement of `Restore`, `RestoreEnds` | five chunks, pipes of two, up to three lines of output about each, the client, `docker exec` and the container dying |

Why the bounds are enough.  Runs share nothing but the store, which tells them
apart by id, so two runs show what a third could do; the second table is what
makes "all tables" different from "the last table".  Two rows reach every
relation of a row to the other side (only here, only there, same, different,
duplicate) and one more than the cap of one.  Three commands over four
snapshots with a cap of two are the least that make a command hit one side,
evict another command's snapshot, and find the registry over the cap that a
killed command has left.  Five chunks are more than both pipes and the client
can hold together.  Uncached runs meet only at the ports docker maps and in the
directories they download to: two runs over two ports are the least where one is
given the port that the other one's dead container had.  Three rows on pages of
two give a full page, a part of one and, with two rows, a full last page; runs do
not read each other's rows, so one run has all the readers.  Two DDL statements
alter a table and alter it back between two of the three reads, or alter a table
of either side.  The bounds named in the modules are `MaxRows`, `MaxWrites`,
`MaxDdl`, `MaxCommands`, `MaxLines` and `Ports`.

Every run sets `CHECK_DEADLOCK FALSE`, since each of these systems stops: runs
and commands are started a bounded number of times, a diff or a restore ends.
That they do not stop too early is what `EveryRunSettles`, `ContainersGo`,
`TabSeesTheEnd` and `RestoreEnds` say.

Runs that TLC finds violated: each checks something the repository says about
itself and shows a behaviour of the code that contradicts it.

| Run | Says | Does |
|---|---|---|
| `DiffRuns_exitcode` | `cli.py:31` exit 1 if any change is found | schema changes alone exit with 0 |
| `RowDiff_nullkey` | `row_diff.py:138` counts are exact | NULL in the first key column on both sides counts as inserted and deleted |

### Known limits of the code

Further places where the code does less than a doc or a comment says.  They
have no run of their own; the properties and the constants of the runs leave
them out, and a configuration that lets them in is a few lines.

| Where | Says | Does | Left out by |
|---|---|---|---|
| `web/app.py:74` | the exception is already recorded | if `set_status` raises in the `except` clause, the run stays running | `EveryRunSettles` is checked where the store accepts the status |
| `engine.py:166` | `dbdiff.example.yml:6`: excluded tables are skipped entirely | their schema changes are stored and shown | no property on excluded schema changes |
| `row_diff.py:311` | `:264` counts are exact, detail capped | every copy of a keyless row is listed, not only those in excess | `KeylessDetailIsComplete` asks for at least as many |
| `row_diff.py:278` | `:264` a cut detail is one over the cap | those copies use up the cap and rows are left out with no note | `KeylessDetailIsComplete` asks for all only if all copies of the surplus rows fit under the cap |
| `row_diff.py:106` | `:25` at most `DETAIL_CAP` rows are kept | the streaming diff keeps all | `DetailMatchesCounts` has the cap for the diff in SQL only |
| `row_diff.py:175` | `:138` counts are exact | on one live server a count and its list are statements of their own and may disagree after a write | `DetailMatchesCounts` asks this of tables at rest in SQL |
| `engine.py:89` | | `log("done.")` is in the `try` block: if it raises, a run that is done and complete is marked in error | `LogFaults` is FALSE for `SettledIsFrozen` and `RefinesHistory`; `DoneIsComplete` holds |
| `mariadb_container.py:178` | | `docker exec` is killed, or the command with it: the client loads on, perhaps into the schema that the next command has dropped and created anew | `orphaned` in `Restore`; no step in `SnapshotCache` |
| `row_diff.py:161` | `README.md:66` only common columns are hashed | on one server, columns of one side too, as its docstring says | `Compared` follows the code |
| `row_diff.py:221` | `:25` counts are always exact | texts that hold `CHAR(31)` or the sentinel collide | values of the runs |
| `cache.py:135` | `dbdiff.example.yml:30` N snapshots are kept | with N = 1 the run evicts its own base side | cap 2 |
| `cache.py:192` | `README.md:107` the cap bounds disk | databases of failed restores are never evicted | `CapHoldsAfterMiss` is about the registry |
| `cache.py:109` | `README.md:107` eviction is LRU | uses within one second tie | `Ties` is FALSE where evictions happen |
| `cache.py:132` | `sources.py:6` a local path is restored | and then deleted | no property; `Unlink` is an action |
| `cache.py:116` | `:115` the schema for the spec | two dumps of one basename share it, the second is served the first's tables | `Name` is injective in the cache's runs |
| `cache.py:119` | `:6` the registry tracks what is cached | two commands that miss the same snapshot restore over each other; the one that finishes first registers a schema the other has half filled | `Serial`, or commands that share no snapshot |
| `sources.py:131` | `:6` a dump is fetched and restored | two downloads of one basename in one run overwrite each other, both sides are the second | `OneFile` in `RunReadsItsDumps` |
| `engine.py:239` | `README.md:56` restored into a throwaway container | the endpoint is a host and a port: if the run's server dies the port may be given to another run's container | `RunReadsItsDumps` asks for a container that lives |
| `mariadb_container.py:90` | `:4` torn down on exit | a container that `docker run` had half created, one whose process was killed, and one whose log line failed before `docker rm` stay | `faulted`, and "dead" in `NothingLeft` |
| `engine.py:83` | | the directory of the downloads is never removed | no property: nothing else is ever done with it |
| `mysql_io.py:104` | | a table dropped between the reads of names and columns is one without columns: all of them are reported removed | `OtherTablesAreExact` is about other tables |
| `engine.py:183` | `README.md:64` keyed on each table's primary key | the key is the base side's where the two sides' differ; changed keys, nullability and defaults are reported nowhere | `KeyFor`, and `Shape` has no more |
| `web/app.py:103` | | a tab on a run that is deleted, or whose process is dead, polls for ever | `TabSeesTheEnd` |
| `web/app.py:53` | | a log buffer stays until its run is deleted in the web app; one is never removed if the run is deleted before `jobs[run_id] = job` | no property |
| `cli.py:51` | | the run deleted from the web app meanwhile: `--json` ends in a `KeyError`, or writes a file with empty parts | `ExportIsWhole` |

### Fairness

`DiffRuns` assumes weak fairness of each job's next step (`Work(j)`): a thread
and a command are scheduled, and the calls they make return or raise.  Nothing
obliges a run to be started, shown or deleted.  `EveryRunSettles` says that a
run that is running is settled or deleted at last unless its process is killed:
nothing marks the runs of a dead process.  It is checked with a store that
accepts the error status; without it the property does not hold (see the known
limits).  `RunViews` adds a tab that goes on polling (htmx does every second) and
a command that goes on with its export.  `EphemeralRun` assumes weak fairness of
each run's next step: its process is scheduled and docker commands return.  No
server has to come up: what ends the wait is the start-up timeout.  `RestoreDump`
assumes weak fairness of the writer, of the client (it goes on when it has input
and room for output) and of the main thread, and none of failures.  A client that hangs is
outside it: the code has no timeout there.

## What is proved

The proofs hold for all values of the constants under the assumptions named in
the modules (`DiffRunsAssumption`, `SnapshotCacheAssumption`,
`RestoreDumpAssumption`, `EphemeralRunAssumption`, `SchemaDiffAssumption`,
`RowDiffAssumption`): any number of runs, tables, rows, tabs, processes,
snapshots, containers, ports, DDL statements and writes, any cap, any
configuration, any dump and pipe size.  `SchemaDiffAssumption` takes the set of
table names to be finite (MySQL's have 64 characters at most) and
`RowDiffAssumption` each table to have finitely many rows: counts of them are
numbers only then.  Conditions of single theorems are named with them below.
Every safety invariant and every action property of the passing runs is the
statement of a theorem, and so are both refinements.

`DiffRunsProofs`

* `Invariance`: `Spec => []IInv`, and from it `TypeCorrect` (`TypeOK`),
  `DoneRunsAreComplete` (`DoneIsComplete`) and `StoreHasNoOrphans`
  (`NoOrphanRows`).
* `SettledRunsAreFrozen` (`SettledIsFrozen`), on the condition that writing a
  progress line does not fail: `log("done.")` is inside the `try` block, so a
  failure there turns a done run into one in error.  `DoneIsComplete` needs no
  such condition: it is about every run that has its summary, in error or not.

`DoneIsComplete` is not inductive: nothing in it says that the job about to
mark a run done has stored what its summary says.  `IInv` adds `JobMatchesStore`
(while a job's run exists, the store holds what the job remembers, and the run is
marked running), `JobVisitsAll` (a stored schema change of an included table has
a result or a place among the tables to visit), and `OwnId` with `JobOfRun` (two
jobs never have one id, because ids are never reused), which carries the first
two over the steps of other jobs and over deletions.

`SnapshotCacheProofs`

* `TypeCorrect` (`TypeOK`), whether or not commands overlap.
* `Invariance` (`IInv`) and from it `HitsAreWhole` (`RegisteredIsWhole`), when they
  do not.  The strengthening
  says that at most one process is past "idle" (`OneAtATime`) and that the
  schema of a command in the middle of a miss has left the registry before it is
  filled and holds the first `loaded` tables of its dump (`Restoring`), so that
  `Register` registers a whole one; a kill anywhere leaves it unregistered.  The
  condition is needed: with `Serial` FALSE and two commands on one snapshot TLC
  violates `RegisteredIsWhole`.

And when besides no two uses get one time (without either condition, or with a
smaller cap, TLC violates the property):

* `CapHolds` (`CapHoldsAfterMiss`), for a cap of one or more.  `CapInv` adds to
  `IInv` that the snapshot just registered was used last (`Newest`), so that it is
  none of the victims and evicting all of them is enough (`UnderCap`).
* `DiffsReadTheirDumps` (`DiffReadsItsDumps`), for a cap of two or more and dumps
  of different names.  `DiffInv` says that the side ensured first stays whole and
  registered, and was used later than anything but the second side
  (`FirstKept`); by `LatestStays`, a count of what lies between, the eviction for
  the second side does not take it.

`RestoreDumpProofs`

* `Invariance` (`IInv`): what was sent is applied, in the pipe or in the buffer
  as long as the client lives, and the client exits with 0 only at the end of an
  input that is complete unless `feed_error` is set.
* `TypeCorrect` (`TypeOK`), `ReturnedMeansWhole` (`SuccessIsWhole`) and
  `RestoreIsImplemented` (`RefinesRestore`) follow from it: every step of the code
  is a step of `Restore` or leaves its variables alone.  A client that goes on
  after `docker exec` was killed executes chunks that were sent (`IInv`), and only
  a call that sees a client's exit with 0 returns, so no orphan follows success.

`RunHistoryProofs`, from `IInv` of `DiffRunsProofs`

* `PagesAreWhole` (`PageIsWhole`), with no condition.  `PageInv` says that what a
  page of a done run has read so far is what the store holds, while it holds the
  run (`Matches`).  It rests on two lemmas: no step of anyone changes the rows of
  a run that has settled (`StepKeepsRows`: not even the last progress line that
  fails, which changes a status alone), and no step brings a deleted run back
  (`StepBringsNothingBack`).
* `HistoryIsImplemented` (`RefinesHistory`), on the condition that writing a
  progress line does not fail, as above.  A report names a table once, which
  needs `OnceInv`: what a job has had diffs of so far (`Had`: its summary and the
  diff in hand) names each table once, and none that it has still to visit
  (`VisitsOnce`).  The
  proof that a step refines goes by what the step does to the runs: create one,
  delete one, settle one, or none of these, a stutter.

`RunViewsProofs`, from `OnceInv` of `RunHistoryProofs`, which the steps of
`RunViews` keep (`ViewsStep`: each is a step of `DiffRuns`, or a failed export)

* `ExportsAreWhole` (`ExportIsWhole`).  `Exported` says what each part that was
  read is while the run is there (the store's), and `Drawn` what it is in any
  case: what `run_diff` had found of that table, whole, or nothing.  A command's
  run is settled and stored from its return on (`Returned`), so that by
  `StepKeepsRows` the later reads find what the first one found.
* `PagesCover` (`PagesCoverRows`).  `AtPage` adds to the property what a tab has
  seen at an offset: all rows up to it.  An offset stays below the number of rows
  because the link to the next page is there only if there are more.
* `ViewsTyped` (`ViewsTypeOK`), from both.

`EphemeralRunProofs`

* `TypeCorrect` (`TypeOK`).
* `WhatEndsIsClean` (`NothingLeft`): about containers and volumes, not about the
  directory of the downloads, which the code leaves (known limits).  `CleanInv` says where in its life a run may
  have a container or a volume at all: from `docker run` to the `finally` clause,
  and afterwards only if it is in `faulted`.
* `DiffsItsOwnDumps` (`RunReadsItsDumps`).  `ReadInv` follows a dump along its
  way: what is in the run's directory is what was downloaded (`Fetched`), what is
  in its databases is what was restored (`Restored`), and a connection made while
  the run's server is up is to that server (`Connected`, `Up`).  The last needs
  what docker guarantees, that two live containers never have one port
  (`PortsApart`).

`SchemaDiffProofs`

* `DdlStaysLocal` (`OtherTablesAreExact`).  `ExactInv` says of a table that nobody
  has altered that each of the three answers, once it is given, is what the
  server holds (`Exact`), and of a result that it follows from the answers
  (`Follows`), its key included: `KeyUsed` of the columns and keys that were read
  is the one the two servers call for, and is empty where the rows are matched
  whole.  Without the history variable `touched` the property could not be
  stated, and without `Exact` for each statement it is not inductive.
* `ChangesArePatch` (`SchemaChangesPatchBase`).  What is stored is what the two
  snapshots compare to (`SavedInv`); that this is a patch is `ColumnsPatched`: a
  column with no change has one type on both sides, and no change of a kind or a
  table is taken for one of another (`KindsApart`).
* `TypeCorrect` (`TypeOK`).
* `TablesAreVisitedOnce` (`EveryTableOnce`) and `SummaryIsOfTheResults`
  (`SummaryMatchesResults`), both from `TallyInv`: a table has one
  result at most, of the status that its sides give it, and in the end each
  table that is visited has one (`ResultsOnce`); each number of the summary is
  the cardinality of the set of results it counts (`Tally`), or, for `added` and
  `removed`, which are set before the tables are visited, of the included tables
  of one side.

`RowDiffProofs`, for tables of any size and content, any cap and any number of
writes between the statements

* With no condition: `TypeCorrect` (`TypeOK`), `DetailIsReal` (`DetailWasReal`)
  and `DetailFits` (`DetailMatchesCounts`).
* `CountsExact` (`CountsAreExact`), `CountsHaveAMoment` (`CountsOfOneMoment`)
  and `DetailIsPatch` (`ChangesPatchBase`), if `HashesApart` and `KeysHold`.
* `DetailIsComplete` (`KeylessDetailIsComplete`), if `HashesApart`.

The conditions are about the data and not about the program.  `KeysHold`: a key
that is used is unique and never NULL on both sides.  The engine takes the base
side's primary key, for which MySQL sees to both there, and on the new side too if
the key is the same there, or the one that the user configured, for which nobody
does.  The condition is needed: `RowDiff_nullkey` shows counts that are not
exact without it.  `HashesApart`: MD5 over the joined texts tells different rows
apart, and no cell holds the text that stands for NULL (see the known limits).
Both hold of the constants of `RowDiff_rest` and `RowDiff_live`, so that
the theorems speak of the cases those runs check.

The invariants follow the statements.  `RealInv` says that what was fetched under
a key was, at some time, a row of that side with that key.  `ScanInv` says
that each scan is of what its side held at some time, and that the streaming and
the keyless counts are taken from the two scans; `MomentInv` adds that each count
in SQL is that of some content.  What is counted is related to what
`Exactly` defines by bijections: keys that are joined and pairs of rows
(`KeysArePairs`), hashes and displayed rows with their number of copies
(`SameSums`).  So nothing is proved by induction over the rows, and with one
writer or two the counts that the two scans give are exact for those two contents.
`SqlInv`, `StreamInv` and `KeylessInv` say what each algorithm has listed when
nobody writes meanwhile: in SQL a subset of what was counted, of the size of the
cap at most and all of it if there is no note; in the stream one change for
each key, from a row fetched for it; without a key rows whose hash has a surplus.
`PatchWorks` draws the patch from that for both keyed algorithms.  `ListedInv`
says of the streaming diff what stays true when somebody does write: the list
has one change for each key that the scans classified, whatever was fetched for
it, and so as many as were counted (`OneForEachKey`).

The inductive invariants of `DiffRuns`, `SnapshotCache` and `RestoreDump` are
invariants of their runs as well.

Checked by TLC only: liveness (`EveryRunSettles`, `TabSeesTheEnd`,
`ContainersGo`, `RestoreEnds`).  Fairness and ENABLED are out of reach of the
proof system.

## What is not modelled

* Text: DSNs, redaction of passwords, S3 addresses, labels and names of schemas,
  the wording of logs, summaries and pages.  They decide nothing that the
  properties tell apart, except that two names may be one, which the constants
  `Name` say.
* YAML and the matching of glob patterns: a pattern is the set of tables it
  matches.
* `index`, `runs list` and `cache list`: a single read each.
* Templates and static files: rendering.  What the links and the polling of
  `_rows.html` and `_progress.html` do is in `RunViews`.
* The JSON forms of values, collations, and the rendering of values by MySQL: a
  row whose column was retyped may differ in SQL and agree in Python, or the other
  way round.
* The batches in which `RowDiff` fetches rows, and the order of rows.
* A clock that goes back, and docker commands that hang.

## Plan

Done, in this order: `RunHistory` and `DiffRuns` (the core: what a reader of the
history is promised), `DiffRunsProofs`, `RowDiff` (the answer itself),
`SnapshotCache` (sharing and crashes), `Restore` and `RestoreDump` with
`RestoreDumpProofs`, `SnapshotCacheProofs`; then `EphemeralRun` (uncached runs),
`SchemaDiff` (what is compared at all), `RunViews` (who reads a run),
`RowDiff` on live data, and `EphemeralRunProofs`, `RunHistoryProofs`,
`SchemaDiffProofs`, `RunViewsProofs`, `RowDiffProofs`.

To come: `CachedRun`, the composition of the cache, through `Restore`, with the
engine, so that `DoneIsComplete` says what was compared and not only that it was
stored; the cache's restore as an instance of `Restore`.

A new module gets one run for all of its properties where one configuration
serves them, as here, so that checking everything stays a matter of minutes.

## Running

    tlc -config DiffRuns_store.cfg MCDiffRuns
    tlc -config RestoreDump_all.cfg RestoreDump
    tlc -config EphemeralRun_two.cfg MCEphemeralRun
    tlapm DiffRunsProofs.tla
    tlapm RunHistoryProofs.tla
    tlapm RowDiffProofs.tla

A run's configuration has the name of the run; `PROJECT.json` names its module,
the lines each definition stands for, the findings with their quotations, the
hazards and the theorems.
