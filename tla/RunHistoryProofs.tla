-------------------------- MODULE RunHistoryProofs --------------------------
(***************************************************************************)
(* Proofs about what readers of DiffRuns see: pages are whole, and the     *)
(* store implements RunHistory.                                            *)
(***************************************************************************)
EXTENDS DiffRunsProofs

-----------------------------------------------------------------------------
(* The rows of a settled run are not touched, even by a command that turns  *)
(* its own done run into one in error because its last log line failed.     *)

LEMMA StepKeepsRows ==
  ASSUME IInv, [Next]_vars, NEW r \in DOMAIN runs, SettledRun(r), r \in DOMAIN runs'
  PROVE  /\ SettledRun(r)'
         /\ ResultsOf(r)' = ResultsOf(r) /\ DetailOf(r)' = DetailOf(r)
         /\ SchemaOf(r)' = SchemaOf(r)
<1>1. /\ TypeOK /\ \A i \in Job : JobOfRun(i) /\ JobMatchesStore(i)
  BY DEF IInv
<1>2. ASSUME Untouched(r)
      PROVE  /\ SettledRun(r)'
             /\ ResultsOf(r)' = ResultsOf(r) /\ DetailOf(r)' = DetailOf(r)
             /\ SchemaOf(r)' = SchemaOf(r)
  BY <1>2 DEF Untouched, SettledRun
<1>3. ASSUME NEW j \in Job, Work(j)
      PROVE  /\ SettledRun(r)'
             /\ ResultsOf(r)' = ResultsOf(r) /\ DetailOf(r)' = DetailOf(r)
             /\ SchemaOf(r)' = SchemaOf(r)
  <2>1. CASE r # run_id[j]
    BY <1>1, <1>2, <1>3, <2>1, WritesOwnRun
  <2>2. CASE r = run_id[j]
    <3>1. pc[j] \notin InTry \cup {"created"}
      BY <1>1, <2>2 DEF JobMatchesStore, Recorded, SettledRun
    <3>2. UNCHANGED store \/ SetError(j)
      BY <1>3, <3>1 DEF Work, SpawnWorker, SaveSchemaDiff, DiffTable, AddRowChanges, CountTable,
         SetSummary, SetDone, Raise, SetErrorFails, ExitCommand, InTry
    <3>3. CASE SetError(j)
      BY <1>1, <3>3 DEF SetError, SetStatus, SettledRun, ResultsOf, DetailOf, SchemaOf, TablesOf,
                            TypeOK
    <3> QED BY <1>2, <3>2, <3>3, StoreUnchanged
  <2> QED BY <2>1, <2>2
<1>4. ASSUME NEW j \in Job, StartRun(j) \/ RunCommand(j)
      PROVE  Untouched(r)
  BY <1>1, <1>4 DEF StartRun, RunCommand, CreateRun, NextRunId, Untouched, ResultsOf, DetailOf,
                    SchemaOf, TablesOf, TypeOK
<1>5. ASSUME NEW q \in 1..seq, DeleteRun(q)
      PROVE  Untouched(r)
  BY <1>5 DEF DeleteRun, Untouched, ResultsOf, DetailOf, SchemaOf, TablesOf
<1>6. CASE CrashServer \/ UNCHANGED vars \/ \E j \in Job : KillCommand(j)
  BY <1>2, <1>6, StoreUnchanged DEF CrashServer, KillCommand, vars
<1>7. ASSUME NEW p \in Pages, Show(p)
      PROVE  Untouched(r)
  BY <1>7, StoreUnchanged DEF Show, OpenPage, ReadSchemaChanges, ReadTableResults, ClosePage
<1> QED BY <1>2, <1>3, <1>4, <1>5, <1>6, <1>7 DEF Next

\* A run that has been deleted does not come back.
LEMMA StepBringsNothingBack ==
  ASSUME IInv, [Next]_vars, NEW r \in 1..seq, r \notin DOMAIN runs
  PROVE  r \notin DOMAIN runs'
<1>1. TypeOK
  BY DEF IInv
<1>2. ASSUME NEW j \in Job, Work(j)
      PROVE  DOMAIN runs' = DOMAIN runs
  BY <1>2, WorkKeepsForeignKeys
<1>3. ASSUME NEW j \in Job, StartRun(j) \/ RunCommand(j)
      PROVE  r \notin DOMAIN runs'
  BY <1>1, <1>3 DEF StartRun, RunCommand, CreateRun, NextRunId, TypeOK
<1>4. ASSUME NEW q \in 1..seq, DeleteRun(q)
      PROVE  r \notin DOMAIN runs'
  BY <1>4 DEF DeleteRun
<1>5. CASE CrashServer \/ UNCHANGED vars \/ \E j \in Job : KillCommand(j)
  BY <1>5 DEF CrashServer, KillCommand, vars, store
<1>6. ASSUME NEW p \in Pages, Show(p)
      PROVE  UNCHANGED runs
  BY <1>6 DEF Show, OpenPage, ReadSchemaChanges, ReadTableResults, ClosePage, store
<1> QED BY <1>2, <1>3, <1>4, <1>5, <1>6 DEF Next

LEMMA IdsGrow ==
  ASSUME IInv, [Next]_vars
  PROVE  1..seq \subseteq 1..seq'
<1>1. TypeOK
  BY DEF IInv
<1>2. ASSUME NEW j \in Job, Work(j)
      PROVE  seq' = seq
  BY <1>2, WorkKeepsForeignKeys
<1>3. ASSUME NEW j \in Job, StartRun(j) \/ RunCommand(j)
      PROVE  seq' = seq + 1
  BY <1>3 DEF StartRun, RunCommand, CreateRun, NextRunId
<1>4. ASSUME CrashServer \/ UNCHANGED vars \/ \E j \in Job : KillCommand(j)
      PROVE  seq' = seq
  BY <1>4 DEF CrashServer, KillCommand, vars, store
<1>5. ASSUME NEW r \in 1..seq, DeleteRun(r)
      PROVE  seq' = seq
  BY <1>5 DEF DeleteRun
<1>6. ASSUME NEW p \in Pages, Show(p)
      PROVE  seq' = seq
  BY <1>6 DEF Show, OpenPage, ReadSchemaChanges, ReadTableResults, ClosePage, store
<1>7. seq' = seq \/ seq' = seq + 1
  BY <1>2, <1>3, <1>4, <1>5, <1>6 DEF Next
<1> QED BY <1>1, <1>7 DEF TypeOK

-----------------------------------------------------------------------------
(* Pages.                                                                   *)

\* What page g of a done run has read so far is what the store holds, while
\* it holds the run.
Matches(g) ==
  g.at # "blank" /\ g.status = "done" =>
    /\ g.run \in 1..seq
    /\ g.run \in DOMAIN runs =>
         /\ SettledRun(g.run)
         /\ ResultsOf(g.run) = Counted(g.summary)
         /\ g.at \in {"schema", "shown"} => g.schema = SchemaOf(g.run)
         /\ g.at = "shown" => g.tables = Counted(g.summary)
    /\ g.at = "shown" => g.tables \in {Counted(g.summary), {}}

PageInv == IInv /\ \A p \in Pages : Matches(page[p])

\* What a page has read stays true in the store, whoever works, deletes or dies.
LEMMA PageStays ==
  ASSUME IInv, [Next]_vars, NEW g, Matches(g)
  PROVE  Matches(g)'
<1> SUFFICES ASSUME g.at # "blank", g.status = "done"
             PROVE  Matches(g)'
  BY DEF Matches
<1>1. g.run \in 1..seq /\ g.run \in 1..seq'
  BY IdsGrow DEF Matches
<1>2. ASSUME g.run \in DOMAIN runs'
      PROVE  /\ g.run \in DOMAIN runs /\ SettledRun(g.run)'
             /\ ResultsOf(g.run)' = ResultsOf(g.run) /\ SchemaOf(g.run)' = SchemaOf(g.run)
  <2>1. g.run \in DOMAIN runs
    BY <1>1, <1>2, StepBringsNothingBack
  <2>2. SettledRun(g.run)
    BY <2>1 DEF Matches
  <2> QED BY <1>2, <2>1, <2>2, StepKeepsRows
<1> QED BY <1>1, <1>2 DEF Matches, Counted

\* A read of the store adds what the store holds.
LEMMA ReadMatches ==
  ASSUME PageInv, NEW p \in Pages, Show(p)
  PROVE  Matches(page'[p])
<1>1. TypeOK /\ NoOrphanRows /\ DoneIsComplete /\ page \in [Pages -> Page] /\ Matches(page[p])
  BY DEF PageInv, IInv, TypeOK
<1>2. ASSUME NEW r \in 1..seq, OpenPage(p, r)
      PROVE  Matches(page'[p])
  <2>1. r \in DOMAIN runs
    BY <1>2 DEF OpenPage
  <2>2. /\ page'[p].run = r /\ page'[p].status = runs[r].status /\ page'[p].summary = runs[r].summary
        /\ page'[p].at = IF runs[r].status = "running" THEN "shown" ELSE "row"
    BY <1>1, <1>2 DEF OpenPage, BlankPage
  <2> QED BY <1>1, <2>1, <2>2 DEF Matches, SettledRun, DoneIsComplete
<1>3. CASE ReadSchemaChanges(p)
  <2>1. /\ page[p].at = "row" /\ page'[p].at = "schema" /\ page'[p].schema = SchemaOf(page[p].run)
        /\ page'[p].run = page[p].run /\ page'[p].status = page[p].status
        /\ page'[p].summary = page[p].summary
    BY <1>1, <1>3 DEF ReadSchemaChanges, Page
  <2> QED BY <1>1, <2>1 DEF Matches
<1>4. CASE ReadTableResults(p)
  <2>1. /\ page[p].at = "schema" /\ page'[p].at = "shown" /\ page'[p].tables = ResultsOf(page[p].run)
        /\ page'[p].run = page[p].run /\ page'[p].status = page[p].status
        /\ page'[p].summary = page[p].summary /\ page'[p].schema = page[p].schema
    BY <1>1, <1>4 DEF ReadTableResults, Page
  <2>2. page[p].run \notin DOMAIN runs => ResultsOf(page[p].run) = {}
    BY <1>1 DEF NoOrphanRows, ResultsOf
  <2> QED BY <1>1, <2>1, <2>2 DEF Matches
<1>5. CASE ClosePage(p)
  BY <1>1, <1>5 DEF ClosePage, BlankPage, Matches
<1> QED BY <1>2, <1>3, <1>4, <1>5 DEF Show

LEMMA PageStep ==
  ASSUME PageInv, [Next]_vars
  PROVE  PageInv'
<1>1. IInv /\ IInv' /\ page \in [Pages -> Page]
  BY InvStep DEF PageInv, IInv, TypeOK
<1>2. ASSUME NEW p \in Pages, page'[p] = page[p]
      PROVE  Matches(page[p])'
  <2>1. PICK g : g = page[p]
    OBVIOUS
  <2>2. Matches(g)'
    BY <1>1, <2>1, PageStays DEF PageInv
  <2>3. g = page'[p]
    BY <1>2, <2>1
  <2> QED BY <2>2, <2>3 DEF Matches, ResultsOf, SchemaOf, TablesOf, Counted, SettledRun
<1>3. ASSUME NEW q \in Pages, Show(q), NEW p \in Pages
      PROVE  Matches(page[p])'
  <2>1. CASE p = q
    <3>1. Matches(page'[p])
      BY <1>3, <2>1, ReadMatches
    <3>2. UNCHANGED store
      BY <1>3 DEF Show, OpenPage, ReadSchemaChanges, ReadTableResults, ClosePage
    <3> QED BY <3>1, <3>2 DEF store, Matches, ResultsOf, SchemaOf, TablesOf, Counted, SettledRun
  <2>2. CASE p # q
    <3>1. page'[p] = page[p]
      BY <1>1, <1>3, <2>2 DEF Show, OpenPage, ReadSchemaChanges, ReadTableResults, ClosePage
    <3> QED BY <1>2, <3>1
  <2> QED BY <2>1, <2>2
<1>4. ASSUME CrashServer, NEW p \in Pages
      PROVE  Matches(page[p])'
  BY <1>4 DEF CrashServer, BlankPage, Matches
<1>5. CASE UNCHANGED page
  BY <1>1, <1>2, <1>5 DEF PageInv
<1>6. UNCHANGED page \/ CrashServer \/ \E p \in Pages : Show(p)
  BY DEF Next, Work, StartRun, RunCommand, CreateRun, SpawnWorker, SaveSchemaDiff, DiffTable,
         AddRowChanges, CountTable, SetSummary, SetDone, SetStatus, Raise, SetError, SetErrorFails,
         ExitCommand, KillCommand, DeleteRun, vars
<1> QED BY <1>1, <1>3, <1>4, <1>5, <1>6 DEF PageInv

\* A page of a done run shows all of it, for any number of runs, tabs, deletions
\* and crashes: its first read saw the run done, and nothing is added to a done
\* run later.
THEOREM PagesAreWhole == Spec => []PageIsWhole
<1>1. Init => PageInv
  BY InvInit DEF Init, PageInv, BlankPage, Matches
<1>2. PageInv /\ [Next]_vars => PageInv'
  BY PageStep
<1>3. PageInv => PageIsWhole
  BY DEF PageInv, Matches, PageIsWhole
<1> QED BY <1>1, <1>2, <1>3, PTL DEF Spec

-----------------------------------------------------------------------------
(* A report names no table twice: a job visits each table once.             *)

Once(S) == \A x, y \in S : x.table = y.table => x = y

\* The diffs a job has made, the one it is saving included.
Had(j) == summary[j] \cup (IF pc[j] = "rows" THEN {td[j]} ELSE {})

VisitsOnce(j) ==
  /\ Once(todo[j])
  /\ Once(Had(j))
  /\ \A x \in Had(j), w \in todo[j] : x.table # w.table

OnceInv == IInv /\ \A j \in Job : VisitsOnce(j)

LEMMA WorkVisitsOnce ==
  ASSUME OnceInv, NEW j \in Job, Work(j)
  PROVE  VisitsOnce(j)'
<1>1. /\ TypeOK /\ JobOfRun(j) /\ VisitsOnce(j)
  BY DEF OnceInv, IInv
<1>2. CASE SaveSchemaDiff(j)
  <2>1. PICK sdiff \in [Tables -> Status \cup {"absent"}] :
          todo' = [todo EXCEPT ![j] = {[table |-> t, status |-> sdiff[t]] : t \in Present(sdiff)}]
    BY <1>2 DEF SaveSchemaDiff
  <2>2. Once(todo'[j])
    BY <1>1, <2>1 DEF Once, TypeOK
  <2>3. Had(j)' = {}
    BY <1>1, <1>2 DEF SaveSchemaDiff, GoTo, JobOfRun, Had, TypeOK
  <2> QED BY <2>2, <2>3 DEF VisitsOnce, Once
<1>3. ASSUME NEW w \in todo[j], NEW n, SaveTableResult(j, w, n), pc[j] = "tables",
             NEW x, x.table = w.table, Had(j)' = Had(j) \cup {x}
      PROVE  VisitsOnce(j)'
  <2>1. todo'[j] = todo[j] \ {w}
    BY <1>1, <1>3 DEF SaveTableResult, TypeOK
  <2> QED BY <1>1, <1>3, <2>1 DEF VisitsOnce, Once
<1>4. CASE DiffTable(j)
  <2>1. PICK w \in todo[j], d \in Diffs :
          /\ SaveTableResult(j, w, d.n)
          /\ td' = [td EXCEPT ![j] = [table |-> w.table, status |-> w.status,
                                     n |-> d.n, listed |-> d.listed]]
    BY <1>4 DEF DiffTable
  <2>2. td'[j].table = w.table /\ pc[j] = "tables" /\ pc'[j] = "rows" /\ summary' = summary
    BY <1>1, <1>4, <2>1 DEF DiffTable, GoTo, TypeOK
  <2> QED BY <1>3, <2>1, <2>2 DEF Had
<1>5. CASE CountTable(j)
  <2>1. PICK w \in todo[j], n \in 0..MaxRows :
          /\ SaveTableResult(j, w, n)
          /\ summary' = [summary EXCEPT ![j] = @ \cup {[table |-> w.table, status |-> w.status,
                                                       n |-> n, listed |-> 0]}]
    BY <1>5 DEF CountTable
  <2>2. pc[j] = "tables" /\ pc' = pc
    BY <1>5 DEF CountTable
  <2>3. Had(j)' = Had(j) \cup {[table |-> w.table, status |-> w.status, n |-> n, listed |-> 0]}
    BY <1>1, <2>1, <2>2 DEF Had, TypeOK
  <2> QED BY <1>3, <2>1, <2>2, <2>3
<1>6. CASE AddRowChanges(j) \/ SetSummary(j)
  <2>1. UNCHANGED todo /\ Had(j)' = Had(j)
    BY <1>1, <1>6 DEF AddRowChanges, SetSummary, GoTo, local, Had, TypeOK
  <2> QED BY <1>1, <2>1 DEF VisitsOnce
<1>7. CASE SpawnWorker(j) \/ SetDone(j) \/ Raise(j) \/ SetError(j) \/ SetErrorFails(j) \/ ExitCommand(j)
  <2>1. /\ todo'[j] \in {todo[j], {}} /\ summary'[j] \in {summary[j], {}}
        /\ pc'[j] # "rows"
    BY <1>1, <1>7 DEF SpawnWorker, SetDone, Raise, SetError, SetErrorFails, ExitCommand, LeaveRunDiff, GoTo,
                      local, TypeOK
  <2>2. Had(j)' \subseteq Had(j)
    BY <2>1 DEF Had
  <2> QED BY <1>1, <2>1, <2>2 DEF VisitsOnce, Once
<1> QED BY <1>2, <1>4, <1>5, <1>6, <1>7 DEF Work

LEMMA OnceStep ==
  ASSUME OnceInv, [Next]_vars
  PROVE  OnceInv'
<1>1. /\ IInv /\ IInv' /\ TypeOK
      /\ \A i \in Job : JobOfRun(i) /\ VisitsOnce(i)
  BY InvStep DEF OnceInv, IInv
<1>2. ASSUME NEW i \in Job, Idle(i)
      PROVE  VisitsOnce(i)'
  BY <1>1, <1>2 DEF Idle, VisitsOnce, Had
<1>3. ASSUME NEW i \in Job, todo'[i] = {}, summary'[i] = {}, pc'[i] # "rows"
      PROVE  VisitsOnce(i)'
  BY <1>3 DEF VisitsOnce, Once, Had
<1>4. ASSUME NEW j \in Job, Work(j) \/ KillCommand(j), NEW i \in Job
      PROVE  VisitsOnce(i)'
  <2>1. CASE i = j /\ Work(j)
    BY <2>1, WorkVisitsOnce
  <2>2. CASE i = j /\ KillCommand(j)
    BY <1>1, <1>3, <2>2 DEF KillCommand, LeaveRunDiff, GoTo, TypeOK
  <2>3. CASE i # j
    BY <1>1, <1>2, <1>4, <2>3, OthersIdle
  <2> QED BY <1>4, <2>1, <2>2, <2>3
<1>5. ASSUME NEW j \in Job, StartRun(j) \/ RunCommand(j), NEW i \in Job
      PROVE  VisitsOnce(i)'
  <2>1. /\ UNCHANGED <<todo, td, summary>> /\ pc[j] = "idle" /\ pc'[j] \in {"created", "resolve"}
        /\ \A k \in Job : k # j => pc'[k] = pc[k] /\ run_id'[k] = run_id[k]
    BY <1>1, <1>5 DEF StartRun, RunCommand, CreateRun, GoTo, TypeOK
  <2>2. CASE i = j
    <3>1. Had(i)' = Had(i)
      BY <2>1, <2>2 DEF Had
    <3> QED BY <1>1, <2>1, <3>1 DEF VisitsOnce
  <2>3. CASE i # j
    BY <1>2, <2>1, <2>3 DEF Idle
  <2> QED BY <2>2, <2>3
<1>6. ASSUME CrashServer, NEW i \in Job
      PROVE  VisitsOnce(i)'
  <2>1. CASE i \in WebJobs
    <3>1. pc'[i] # "rows"
      BY <1>6, <2>1 DEF CrashServer, Alive, InTry
    <3> QED BY <1>3, <1>6, <2>1, <3>1 DEF CrashServer, LeaveRunDiff
  <2>2. CASE i \notin WebJobs
    BY <1>2, <1>6, <2>2 DEF CrashServer, LeaveRunDiff, Idle
  <2> QED BY <2>1, <2>2
<1>7. ASSUME UNCHANGED <<local, pc>>, NEW i \in Job
      PROVE  VisitsOnce(i)'
  BY <1>2, <1>7 DEF Idle, local
<1>8. ASSUME UNCHANGED vars \/ (\E p \in Pages : Show(p)) \/ \E r \in 1..seq : DeleteRun(r)
      PROVE  UNCHANGED <<local, pc>>
  BY <1>8 DEF Show, OpenPage, ReadSchemaChanges, ReadTableResults, ClosePage, DeleteRun, vars
<1>9. \A i \in Job : VisitsOnce(i)'
  BY <1>4, <1>5, <1>6, <1>7, <1>8 DEF Next
<1> QED BY <1>1, <1>9 DEF OnceInv

-----------------------------------------------------------------------------
(* The refinement of RunHistory.                                            *)

Phase == [r \in 1..seq |-> IF r \in DOMAIN runs THEN runs[r].status ELSE "deleted"]
Shown == [r \in 1..seq |-> IF SettledRun(r) /\ runs[r].status = "done" THEN ResultsOf(r) ELSE {}]

\* A step that settles, deletes and creates nothing is a stutter.
LEMMA Stutters ==
  ASSUME seq' = seq, DOMAIN runs' = DOMAIN runs,
         \A r \in DOMAIN runs :
           /\ runs'[r].status = runs[r].status
           /\ runs[r].status = "done" => ResultsOf(r)' = ResultsOf(r)
  PROVE  UNCHANGED History!vars
<1>1. Phase' = Phase
  BY DEF Phase
<1>2. \A r : SettledRun(r)' <=> SettledRun(r)
  BY DEF SettledRun
<1>3. \A r \in 1..seq : SettledRun(r) /\ runs[r].status = "done" => ResultsOf(r)' = ResultsOf(r)
  BY DEF SettledRun
<1>4. Shown' = Shown
  BY <1>2, <1>3 DEF Shown, SettledRun, ResultsOf
<1> QED BY <1>1, <1>4 DEF Phase, Shown, History!vars

\* The status of one run changes, from running, and no other run does.
LEMMA OneSettles ==
  ASSUME TypeOK, seq' = seq, DOMAIN runs' = DOMAIN runs, NEW r \in DOMAIN runs, NEW st \in {"done", "error"},
         runs[r].status = "running", runs'[r].status = st,
         \A q \in DOMAIN runs \ {r} : Untouched(q),
         ResultsOf(r)' = ResultsOf(r)
  PROVE  /\ r \in 1..seq /\ Phase[r] = "running"
         /\ Phase' = [Phase EXCEPT ![r] = st]
         /\ Shown' = [Shown EXCEPT ![r] = IF st = "done" THEN ResultsOf(r) ELSE {}]
         /\ st = "error" => Shown' = Shown
<1>1. r \in 1..seq /\ Phase[r] = "running"
  BY DEF TypeOK, Phase
<1>2. \A q \in DOMAIN runs \ {r} : runs'[q] = runs[q] /\ ResultsOf(q)' = ResultsOf(q)
  BY DEF Untouched
<1>3. Phase' = [Phase EXCEPT ![r] = st]
  BY <1>1, <1>2 DEF Phase
<1> DEFINE Then == [Shown EXCEPT ![r] = IF st = "done" THEN ResultsOf(r) ELSE {}]
           now(q) == IF SettledRun(q) /\ runs[q].status = "done" THEN ResultsOf(q) ELSE {}
<1>4. Shown' = [q \in 1..seq |-> now(q)'] /\ Shown = [q \in 1..seq |-> now(q)]
  BY DEF Shown
<1>5. \A q \in 1..seq \ {r} : now(q)' = now(q)
  BY <1>2 DEF SettledRun
<1>6. now(r)' = IF st = "done" THEN ResultsOf(r) ELSE {}
  BY DEF SettledRun
<1>7. now(r) = {}
  BY DEF SettledRun
<1> HIDE DEF now
<1> QED BY <1>1, <1>3, <1>4, <1>5, <1>6, <1>7

LEMMA CreatesARun ==
  ASSUME IInv, NEW j \in Job, NEW label \in {"created", "resolve"}, CreateRun(j, label)
  PROVE  History!Create
<1>1. TypeOK /\ NoOrphanRows
  BY DEF IInv
<1>2. /\ seq' = seq + 1 /\ seq \in Nat /\ seq + 1 \notin DOMAIN runs
      /\ DOMAIN runs' = DOMAIN runs \cup {seq + 1} /\ runs'[seq + 1].status = "running"
      /\ \A r \in DOMAIN runs : runs'[r] = runs[r]
      /\ table_results' = table_results
  BY <1>1 DEF CreateRun, NextRunId, TypeOK
<1>3. Phase' = [r \in 1..(seq + 1) |-> IF r = seq + 1 THEN "running" ELSE Phase[r]]
  BY <1>2 DEF Phase
<1>4. \A r : ResultsOf(r)' = ResultsOf(r)
  BY <1>2 DEF ResultsOf
<1> DEFINE now(q) == IF SettledRun(q) /\ runs[q].status = "done" THEN ResultsOf(q) ELSE {}
<1>5. Shown' = [q \in 1..seq' |-> now(q)'] /\ Shown = [q \in 1..seq |-> now(q)]
  BY DEF Shown
<1>6. \A q \in 1..seq : now(q)' = now(q)
  BY <1>2, <1>4 DEF SettledRun
<1>7. \A q : q = seq + 1 => now(q)' = {}
  BY <1>2 DEF SettledRun
<1> HIDE DEF now
<1>8. Shown' = [r \in 1..(seq + 1) |-> IF r = seq + 1 THEN {} ELSE Shown[r]]
  BY <1>2, <1>5, <1>6, <1>7
<1> QED BY <1>2, <1>3, <1>8 DEF Phase, Shown, History!Create

LEMMA DeletesARun ==
  ASSUME IInv, NEW r \in 1..seq, DeleteRun(r)
  PROVE  History!Delete(r)
<1>1. TypeOK
  BY DEF IInv
<1>2. /\ r \in DOMAIN runs /\ DOMAIN runs' = DOMAIN runs \ {r} /\ seq' = seq
      /\ \A q \in DOMAIN runs \ {r} : runs'[q] = runs[q] /\ ResultsOf(q)' = ResultsOf(q)
      /\ runs[r].status \in {"running", "done", "error"}
  BY <1>1 DEF DeleteRun, ResultsOf, TypeOK
<1>3. Phase[r] # "deleted" /\ Phase' = [Phase EXCEPT ![r] = "deleted"]
  BY <1>2 DEF Phase
<1> DEFINE now(q) == IF SettledRun(q) /\ runs[q].status = "done" THEN ResultsOf(q) ELSE {}
<1>4. Shown' = [q \in 1..seq |-> now(q)'] /\ Shown = [q \in 1..seq |-> now(q)]
  BY <1>2 DEF Shown
<1>5. \A q \in 1..seq \ {r} : now(q)' = now(q)
  BY <1>2 DEF SettledRun
<1>6. now(r)' = {}
  BY <1>2 DEF SettledRun
<1> HIDE DEF now
<1>7. Shown' = [Shown EXCEPT ![r] = {}]
  BY <1>4, <1>5, <1>6
<1> QED BY <1>2, <1>3, <1>7 DEF Phase, Shown, History!Delete

\* What is published is a report: results of the run, one for each table.
LEMMA PublishesAReport ==
  ASSUME OnceInv, NEW j \in Job, SetDone(j), Recorded(j)
  PROVE  ResultsOf(run_id[j]) \in Reports
<1>1. TypeOK /\ VisitsOnce(j) /\ JobMatchesStore(j) /\ pc[j] = "status"
  BY DEF OnceInv, IInv, SetDone
<1>2. ResultsOf(run_id[j]) = Counted(summary[j]) /\ ResultsOf(run_id[j]) \in SUBSET TableResult
  BY <1>1, ReadsTyped DEF JobMatchesStore
<1>3. Once(summary[j])
  BY <1>1 DEF VisitsOnce, Had
<1>4. Once(Counted(summary[j]))
  BY <1>3 DEF Once, Counted
<1> QED BY <1>2, <1>4 DEF Once, Reports

LEMMA WorkRefines ==
  ASSUME ~LogFaults, OnceInv, NEW j \in Job, Work(j), [Next]_vars
  PROVE  [History!Next]_(History!vars)
<1>1. /\ IInv /\ TypeOK /\ JobMatchesStore(j)
      /\ DOMAIN runs' = DOMAIN runs /\ run_id' = run_id /\ seq' = seq
  BY WorkKeepsForeignKeys DEF OnceInv, IInv
<1> PICK r : r = run_id[j]
  OBVIOUS
<1>2. \A q \in DOMAIN runs \ {r} : Untouched(q)
  BY <1>1, WritesOwnRun
<1>3. CASE ~Recorded(j)
  <2>1. \A q \in DOMAIN runs : Untouched(q)
    BY <1>2, <1>3 DEF Recorded
  <2> QED BY <1>1, <2>1, Stutters DEF Untouched
<1>4. CASE Recorded(j) /\ (SetDone(j) \/ SetError(j))
  <2>1. runs[r].status = "running"
    BY <1>1, <1>4 DEF SetDone, SetError, JobMatchesStore, InTry
  <2>2. PICK st \in {"done", "error"} : SetStatus(j, st) /\ (st = "done" => SetDone(j))
    BY <1>4 DEF SetDone, SetError
  <2>3. r \in DOMAIN runs /\ runs'[r].status = st /\ ResultsOf(r)' = ResultsOf(r)
    BY <1>1, <1>4, <2>2 DEF SetStatus, Recorded, ResultsOf, TypeOK
  <2>4. /\ r \in 1..seq /\ Phase[r] = "running"
        /\ Phase' = [Phase EXCEPT ![r] = st]
        /\ Shown' = [Shown EXCEPT ![r] = IF st = "done" THEN ResultsOf(r) ELSE {}]
        /\ st = "error" => Shown' = Shown
    BY <1>1, <1>2, <2>1, <2>3, OneSettles
  <2>5. CASE st = "done"
    <3>1. ResultsOf(r) \in Reports
      BY <1>4, <2>2, <2>5, PublishesAReport
    <3>2. History!Publish(r)
      BY <1>1, <2>4, <2>5, <3>1 DEF Phase, Shown, History!Publish
    <3> QED BY <2>4, <3>2 DEF History!Next
  <2>6. CASE st = "error"
    <3>1. History!Fail(r)
      BY <1>1, <2>4, <2>6 DEF Phase, Shown, History!Fail
    <3> QED BY <2>4, <3>1 DEF History!Next
  <2> QED BY <2>5, <2>6
<1>5. CASE Recorded(j) /\ ~(SetDone(j) \/ SetError(j))
  <2>1. runs'[r].status = runs[r].status
    BY <1>1, <1>5 DEF Work, SpawnWorker, SaveSchemaDiff, DiffTable, AddRowChanges, CountTable,
       SetSummary, Raise, SetErrorFails, ExitCommand, store, Recorded, TypeOK
  <2>2. runs[r].status = "done" => ResultsOf(r)' = ResultsOf(r)
    BY <1>1, <1>5, StepKeepsRows DEF Recorded, SettledRun
  <2>3. \A q \in DOMAIN runs :
          /\ runs'[q].status = runs[q].status
          /\ runs[q].status = "done" => ResultsOf(q)' = ResultsOf(q)
    BY <1>2, <2>1, <2>2 DEF Untouched
  <2> QED BY <1>1, <2>3, Stutters
<1> QED BY <1>3, <1>4, <1>5

LEMMA HistoryStep ==
  ASSUME ~LogFaults, OnceInv, [Next]_vars
  PROVE  [History!Next]_(History!vars)
<1>1. IInv
  BY DEF OnceInv
<1>2. ASSUME NEW j \in Job, Work(j)
      PROVE  [History!Next]_(History!vars)
  BY <1>2, WorkRefines
<1>3. ASSUME NEW j \in Job, StartRun(j) \/ RunCommand(j)
      PROVE  History!Next
  BY <1>1, <1>3, CreatesARun DEF StartRun, RunCommand, History!Next
<1>4. ASSUME NEW r \in 1..seq, DeleteRun(r)
      PROVE  History!Next
  BY <1>1, <1>4, DeletesARun DEF History!Next
<1>5. ASSUME UNCHANGED store
      PROVE  UNCHANGED History!vars
  BY <1>5, Stutters DEF store, ResultsOf
<1>6. CASE CrashServer \/ UNCHANGED vars \/ \E j \in Job : KillCommand(j)
  BY <1>5, <1>6 DEF CrashServer, KillCommand, vars
<1>7. ASSUME NEW p \in Pages, Show(p)
      PROVE  UNCHANGED store
  BY <1>7 DEF Show, OpenPage, ReadSchemaChanges, ReadTableResults, ClosePage
<1> QED BY <1>2, <1>3, <1>4, <1>5, <1>6, <1>7 DEF Next

\* The store, written piece by piece by any number of workers and commands and
\* deleted from meanwhile, implements the history its readers rely on, unless a
\* command's own last progress line can fail after it marked its run done.
THEOREM HistoryIsImplemented ==
  ASSUME ~LogFaults
  PROVE  Spec => RefinesHistory
<1>1. Init => OnceInv
  BY InvInit DEF Init, OnceInv, VisitsOnce, Once, Had
<1>2. OnceInv /\ [Next]_vars => OnceInv'
  BY OnceStep
<1>3. Init => History!Init
  BY DEF Init, History!Init
<1>4. OnceInv /\ [Next]_vars => [History!Next]_(History!vars)
  BY HistoryStep
<1> QED BY <1>1, <1>2, <1>3, <1>4, PTL DEF Spec, RefinesHistory, History!Spec
=============================================================================
