----------------------------- MODULE SchemaDiff -----------------------------
(***************************************************************************)
(* What a diff decides before it looks at a row: introspect reads each     *)
(* side in three statements, while a live side may be altered in between;  *)
(* diff_schemas compares the two; the configuration says which tables are  *)
(* visited, on which key and without which columns; the summary counts     *)
(* them.  The diff of a table's rows is its number of changed rows         *)
(* (RowDiff).  A table that changes after the introspection makes a query  *)
(* fail, which is Raise of DiffRuns.                                       *)
(***************************************************************************)
EXTENDS Naturals, FiniteSets

CONSTANTS
  Tables,
  Columns,
  Types,
  Shapes,    \* for each table, the forms it may have
  Configs,   \* the configurations considered
  Live,      \* the sides that are live databases
  MaxDdl     \* bound: DDL statements during the introspection

Side == {"base", "new"}
AnyTable == "*"
NoType == "none"
NoColumns == [c \in {} |-> NoType]

\* Columns are a name and a type: nullability and defaults are read but never
\* compared.  A key is the set of its columns.
Shape == [cols : UNION {[C -> Types] : C \in SUBSET Columns}, pk : SUBSET Columns]

\* A pattern of `include` and `exclude` is the set of tables it matches.
Config == [include : SUBSET SUBSET Tables, exclude : SUBSET SUBSET Tables,
           keys : UNION {[T -> SUBSET Columns] : T \in SUBSET Tables},
           ignore : UNION {[T -> SUBSET Columns] : T \in SUBSET (Tables \cup {AnyTable})}]

ASSUME SchemaDiffAssumption ==
  /\ IsFiniteSet(Tables)
  /\ AnyTable \notin Tables /\ NoType \notin Types
  /\ \A t \in Tables : Shapes[t] \subseteq Shape
  /\ Configs \subseteq Config
  /\ Live \subseteq Side
  /\ MaxDdl \in Nat

VARIABLES
  config,    \* Config
  server,    \* the tables of each side, as functions
  ddl,       \* DDL statements so far
  touched,   \* tables they were about
  pc,        \* names, columns, keys, compare, tables or done
  side,      \* the side that introspect is reading
  read,      \* what its statements have returned
  changes,   \* the rows of schema_changes
  results,   \* the rows of table_results
  summary    \* RunSummary

external == <<config, server, ddl, touched>>
vars == <<external, pc, side, read, changes, results, summary>>

Kinds == {"table_added", "table_removed", "column_added", "column_removed", "column_type_changed"}
Whole == {"added", "removed"}

TypeOK ==
  /\ config \in Configs
  /\ \A s \in Side : DOMAIN server[s] \subseteq Tables /\
       \A t \in DOMAIN server[s] : server[s][t] \in Shapes[t]
  /\ ddl \in 0..MaxDdl /\ touched \subseteq Tables
  /\ pc \in {"names", "columns", "keys", "compare", "tables", "done"}
  /\ side \in Side
  /\ \A s \in Side : read[s].names \subseteq Tables
  /\ \A x \in changes :
       /\ x.kind \in Kinds /\ x.table \in Tables /\ x.column \in Columns \cup {NoType}
       /\ x.base_type \in Types \cup {NoType} /\ x.new_type \in Types \cup {NoType}
  /\ \A x \in results :
       /\ x.table \in Tables /\ x.status \in {"same", "changed"} \cup Whole
       /\ x.key \subseteq Columns /\ x.ignored \subseteq Columns /\ x.keyed \in BOOLEAN
  /\ summary \in [{"compared", "changed", "added", "removed", "keyless", "rows"} -> Nat]

NothingRead == [names |-> {}, cols |-> [t \in {} |-> NoColumns], pk |-> [t \in {} |-> {}]]

Init ==
  /\ config \in Configs
  /\ server \in [Side -> UNION {{f \in [T -> UNION {Shapes[t] : t \in T}] :
                                   \A t \in T : f[t] \in Shapes[t]} : T \in SUBSET Tables}]
  /\ ddl = 0 /\ touched = {}
  /\ pc = "names" /\ side = "base"
  /\ read = [s \in Side |-> NothingRead]
  /\ changes = {} /\ results = {}
  /\ summary = [x \in {"compared", "changed", "added", "removed", "keyless", "rows"} |-> 0]

-----------------------------------------------------------------------------
(* introspect: three statements, each about all tables of the schema.       *)

\* Mutant of ReadNames: table_type is not looked at.
ReadViewsToo ==
  /\ pc = "names"
  /\ read' = [read EXCEPT ![side].names = DOMAIN server[side] \cup {"a view"}]
  /\ pc' = "columns"
  /\ UNCHANGED <<external, side, changes, results, summary>>

\* Base tables only.
ReadNames ==
  /\ pc = "names"
  /\ read' = [read EXCEPT ![side].names = DOMAIN server[side]]
  /\ pc' = "columns"
  /\ UNCHANGED <<external, side, changes, results, summary>>

ReadColumns ==
  /\ pc = "columns"
  /\ read' = [read EXCEPT ![side].cols = [t \in DOMAIN server[side] |-> server[side][t].cols]]
  /\ pc' = "keys"
  /\ UNCHANGED <<external, side, changes, results, summary>>

\* Only tables that have a PRIMARY index are in the answer.
ReadKeys ==
  /\ pc = "keys"
  /\ LET keyed == {t \in DOMAIN server[side] : server[side][t].pk # {}}
     IN read' = [read EXCEPT ![side].pk = [t \in keyed |-> server[side][t].pk]]
  /\ pc' = IF side = "base" THEN "names" ELSE "compare"
  /\ side' = "new"
  /\ UNCHANGED <<external, changes, results, summary>>

GetOr(f, x, default) == IF x \in DOMAIN f THEN f[x] ELSE default

\* The three answers are put together under the names read first.
Snapshot(s) ==
  [t \in read[s].names |->
     [cols |-> GetOr(read[s].cols, t, NoColumns), pk |-> GetOr(read[s].pk, t, {})]]

\* Another client of a live side creates, alters or drops a table.
Ddl ==
  /\ pc \in {"names", "columns", "keys"}
  /\ ddl < MaxDdl
  /\ ddl' = ddl + 1
  /\ \E s \in Live, t \in Tables :
       /\ touched' = touched \cup {t}
       /\ \/ \E x \in Shapes[t] : server' =
                [server EXCEPT ![s] = [u \in DOMAIN @ \cup {t} |-> IF u = t THEN x ELSE @[u]]]
          \/ server' = [server EXCEPT ![s] = [u \in DOMAIN @ \ {t} |-> @[u]]]
  /\ UNCHANGED <<config, pc, side, read, changes, results, summary>>

-----------------------------------------------------------------------------
(* diff_schemas and save_schema_diff.                                       *)

Change(kind, t, c, b, n) ==
  [kind |-> kind, table |-> t, column |-> c, base_type |-> b, new_type |-> n]

\* Mutant of ColumnChanges: a column that was retyped is not looked at.
NamesOnly(t, b, n) ==
  {Change("column_added", t, c, NoType, n[c]) : c \in DOMAIN n \ DOMAIN b} \cup
  {Change("column_removed", t, c, b[c], NoType) : c \in DOMAIN b \ DOMAIN n}

ColumnChanges(t, b, n) ==
  {Change("column_added", t, c, NoType, n[c]) : c \in DOMAIN n \ DOMAIN b} \cup
  {Change("column_removed", t, c, b[c], NoType) : c \in DOMAIN b \ DOMAIN n} \cup
  {Change("column_type_changed", t, c, b[c], n[c]) :
     c \in {x \in DOMAIN b \cap DOMAIN n : b[x] # n[x]}}

Names(s) == DOMAIN Snapshot(s)
Common == Names("base") \cap Names("new")
ChangesOf(t) == ColumnChanges(t, Snapshot("base")[t].cols, Snapshot("new")[t].cols)

TablesAdded == Names("new") \ Names("base")
TablesRemoved == Names("base") \ Names("new")

-----------------------------------------------------------------------------
(* Config.                                                                  *)

\* Mutant of IsIncluded: an included table is not excluded.
IncludeWins(t) ==
  \/ \E p \in config.include : t \in p
  \/ config.include = {} /\ \A p \in config.exclude : t \notin p

IsIncluded(t) ==
  /\ config.include = {} \/ \E p \in config.include : t \in p
  /\ \A p \in config.exclude : t \notin p

\* Mutant of KeyFor: a configured key that is empty is taken for none.
KeyForUnlessEmpty(t, pk) == IF GetOr(config.keys, t, {}) # {} THEN config.keys[t] ELSE pk

KeyFor(t, pk) == GetOr(config.keys, t, pk)

\* The key that the rows are matched on: that of the base side, unless a
\* column of it is missing on a side; then they are matched without a key.
KeyUsed(t) ==
  LET b == Snapshot("base")[t]
      key == KeyFor(t, b.pk)
  IN IF key \subseteq DOMAIN b.cols \cap DOMAIN Snapshot("new")[t].cols THEN key ELSE {}

IgnoredColumns(t) == GetOr(config.ignore, AnyTable, {}) \cup GetOr(config.ignore, t, {})

-----------------------------------------------------------------------------
(* _diff_endpoints.                                                         *)

Included(T) == {t \in T : IsIncluded(t)}

SaveSchemaDiff ==
  /\ pc = "compare"
  /\ changes' =
       {Change("table_added", t, NoType, NoType, NoType) : t \in TablesAdded} \cup
       {Change("table_removed", t, NoType, NoType, NoType) : t \in TablesRemoved} \cup
       UNION {ChangesOf(t) : t \in Common}
  /\ summary' = [summary EXCEPT !.added = Cardinality(Included(TablesAdded)),
                                !.removed = Cardinality(Included(TablesRemoved))]
  /\ pc' = "tables"
  /\ UNCHANGED <<external, side, read, results>>

ToVisit(T) == {t \in Included(T) : \A x \in results : x.table # t}

\* A table of both sides.
DiffTable ==
  /\ pc = "tables"
  /\ \E t \in ToVisit(Common), n \in {0, 1} :
       LET key == KeyUsed(t) keyed == key # {}
       IN /\ results' = results \cup
               {[table |-> t, status |-> IF ChangesOf(t) # {} THEN "changed" ELSE "same",
                 key |-> key, ignored |-> IgnoredColumns(t), keyed |-> keyed, n |-> n]}
          /\ summary' = [summary EXCEPT !.compared = @ + 1, !.changed = @ + n, !.rows = @ + n,
                                        !.keyless = IF keyed THEN @ ELSE @ + 1]
  /\ UNCHANGED <<external, pc, side, read, changes>>

\* Mutant of CountTable: excluded tables are counted too.
CountAnyTable ==
  /\ pc = "tables"
  /\ ToVisit(Common) = {}
  /\ \E t \in TablesAdded \cup TablesRemoved, n \in {0, 1} :
       /\ \A x \in results : x.table # t
       /\ results' = results \cup
            {[table |-> t, status |-> IF t \in TablesAdded THEN "added" ELSE "removed",
              key |-> {}, ignored |-> {}, keyed |-> FALSE, n |-> n]}
       /\ summary' = [summary EXCEPT !.rows = @ + n]
  /\ UNCHANGED <<external, pc, side, read, changes>>

\* An added or removed table: its rows are counted.
CountTable ==
  /\ pc = "tables"
  /\ ToVisit(Common) = {}
  /\ \E t \in ToVisit(TablesAdded \cup TablesRemoved), n \in {0, 1} :
       /\ results' = results \cup
            {[table |-> t, status |-> IF t \in TablesAdded THEN "added" ELSE "removed",
              key |-> {}, ignored |-> {}, keyed |-> FALSE, n |-> n]}
       /\ summary' = [summary EXCEPT !.rows = @ + n]
  /\ UNCHANGED <<external, pc, side, read, changes>>

Finish ==
  /\ pc = "tables"
  /\ ToVisit(Common \cup TablesAdded \cup TablesRemoved) = {}
  /\ pc' = "done"
  /\ UNCHANGED <<external, side, read, changes, results, summary>>

Next ==
  \/ ReadNames \/ ReadColumns \/ ReadKeys \/ Ddl
  \/ SaveSchemaDiff \/ DiffTable \/ CountTable \/ Finish

Spec == Init /\ [][Next]_vars

-----------------------------------------------------------------------------
(* Properties.                                                              *)

\* A side's tables after the stored changes are made to the other side's.
Patched(S) ==
  LET gone == {x.table : x \in {y \in changes : y.kind = "table_removed"}}
      made == {x.table : x \in {y \in changes : y.kind = "table_added"}}
      Of(t, kind) == {y \in changes : y.table = t /\ y.kind = kind}
      cols(t) ==
        LET dropped == {y.column : y \in Of(t, "column_removed")}
            typed == Of(t, "column_added") \cup Of(t, "column_type_changed")
        IN [c \in (DOMAIN S[t].cols \ dropped) \cup {y.column : y \in typed} |->
              IF \E y \in typed : y.column = c
              THEN (CHOOSE y \in typed : y.column = c).new_type ELSE S[t].cols[c]]
  IN [tables |-> (DOMAIN S \ gone) \cup made,
      cols |-> [t \in DOMAIN S \ gone |-> cols(t)]]

\* Altering the base side as the stored schema changes say gives the tables,
\* columns and types of the new side: no change is missed or of another table.
SchemaChangesPatchBase ==
  pc \in {"tables", "done"} =>
    LET p == Patched(Snapshot("base")) n == Snapshot("new")
    IN /\ p.tables = DOMAIN n
       /\ \A t \in DOMAIN p.cols : p.cols[t] = n[t].cols

Untouched == Tables \ touched

\* DDL on one table during the introspection does not disturb what is said of
\* another: it is reported as what the two servers hold, and matched on the key
\* that is configured for it or is its own where both servers have that key, and
\* without a key, which is what the report says then, where they have not.
OtherTablesAreExact ==
  pc \in {"tables", "done"} =>
    /\ \A t \in Untouched, s \in Side :
         /\ t \in Names(s) <=> t \in DOMAIN server[s]
         /\ t \in Names(s) => Snapshot(s)[t] = server[s][t]
    /\ \A x \in results : x.table \in Untouched /\ x.status \notin Whole =>
         LET b == server["base"][x.table] n == server["new"][x.table]
             k == IF x.table \in DOMAIN config.keys THEN config.keys[x.table] ELSE b.pk
         IN /\ x.status = "same" <=> b.cols = n.cols
            /\ x.key = IF k \subseteq DOMAIN b.cols \cap DOMAIN n.cols THEN k ELSE {}
            /\ x.keyed <=> x.key # {}

\* When the run is done every included table of either side, and no excluded
\* one, has one result, and those of one side are in schema_changes as well.
EveryTableOnce ==
  pc = "done" =>
    /\ \A t \in Tables : Cardinality({x \in results : x.table = t}) =
         IF /\ t \in Names("base") \cup Names("new")
            /\ config.include = {} \/ t \in UNION config.include
            /\ t \notin UNION config.exclude
         THEN 1 ELSE 0
    /\ \A x \in results : x.status \in Whole <=>
         \E y \in changes : y.table = x.table /\ y.kind \in {"table_added", "table_removed"}

HasChanges == summary.rows + summary.added + summary.removed > 0

Counted(P(_)) == Cardinality({x \in results : P(x)})

\* The summary, counted in three places, says what the stored results say; and
\* when it says that nothing changed, nothing but columns of tables on both
\* sides or excluded tables did.
SummaryMatchesResults ==
  pc = "done" =>
    /\ summary.added = Counted(LAMBDA x : x.status = "added")
    /\ summary.removed = Counted(LAMBDA x : x.status = "removed")
    /\ summary.compared = Counted(LAMBDA x : x.status \notin Whole)
    /\ summary.changed = Counted(LAMBDA x : x.status \notin Whole /\ x.n > 0)
    /\ summary.keyless = Counted(LAMBDA x : x.status \notin Whole /\ ~x.keyed)
    /\ summary.rows = Counted(LAMBDA x : x.n > 0)
    /\ ~HasChanges => Included(Names("base")) = Included(Names("new"))
=============================================================================
