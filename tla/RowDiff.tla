------------------------------ MODULE RowDiff -------------------------------
(***************************************************************************)
(* The row diff of one table that is on both sides (row_diff.py), one      *)
(* action per SQL statement.  The engine picks diff_table_sql when both    *)
(* sides are on one server and diff_table when they are not; both fall     *)
(* back to _diff_keyless.  A live side may be written between statements.  *)
(***************************************************************************)
EXTENDS Integers, FiniteSets, FiniteSetsExt

CONSTANTS
  BaseColumns, NewColumns,   \* the columns of the table on each side
  Keys,         \* the keys that may be passed: an override, or the base primary key
  FirstKey,     \* key[0]
  Ignored,      \* columns the configuration leaves out of change detection
  Value, Null,  \* what a column can hold
  Sentinel,     \* the text hashed in the place of NULL
  Join(_),      \* MD5(CONCAT_WS(CHAR(31), ..)) of the texts of some columns
  Caps,         \* values of DETAIL_CAP
  Servers,      \* TRUE: both endpoints may have one host and port; FALSE: two
  BaseTables(_), NewTables(_),   \* the contents each side may have, given the key
  MaxWrites     \* bound: writes by other clients while the diff runs

Common == BaseColumns \cap NewColumns
Column == BaseColumns \cup NewColumns
\* A table is a function on the identities of its rows.
Rows(T) == {T[i] : i \in DOMAIN T}
IsTable(T, cols) ==
  /\ DOMAIN T \subseteq Nat \ {0} /\ IsFiniteSet(DOMAIN T)
  /\ Rows(T) \subseteq [cols -> Value \cup {Null}]

ASSUME RowDiffAssumption ==
  /\ Null \notin Value /\ Sentinel \in Value
  /\ \A k \in Keys : k \cap Common # {} => FirstKey \in k
  /\ Caps \subseteq Nat /\ MaxWrites \in Nat
  /\ Servers \subseteq BOOLEAN
  /\ \A k \in Keys : \A T \in BaseTables(k) : IsTable(T, BaseColumns)
  /\ \A k \in Keys : \A T \in NewTables(k) : IsTable(T, NewColumns)

VARIABLES
  key, cap, same_server,     \* arguments of the diff
  base, new,    \* the table on each side
  writes,       \* writes by other clients so far
  pc,           \* the statement to be run next
  scan,         \* what the scans of the two sides returned
  news,         \* rows fetched from the new side, by key
  count,        \* rows inserted, deleted, modified
  noted,        \* the note says that the detail is capped
  changes,      \* td.changes
  seen          \* history: the contents each side has had

call == <<key, cap, same_server>>
sides == <<call, base, new, writes, seen>>
vars == <<sides, pc, scan, news, count, noted, changes>>

Empty == [x \in {} |-> x]
NoScan == [base |-> Empty, new |-> Empty]
NoCount == [inserted |-> 0, deleted |-> 0, modified |-> 0]

\* A key that is not on both sides is not used.
Keyed == key # {} /\ key \subseteq Common

KeyOf(r) == [c \in key |-> r[c]]
Show(r, cols) == [c \in cols |-> IF c \in DOMAIN r THEN r[c] ELSE Null]

\* A column that is not on this side hashes like NULL.
Hash(r, cols) ==
  Join([c \in cols |-> IF c \notin DOMAIN r THEN Sentinel
                       ELSE IF r[c] = Null THEN Sentinel ELSE r[c]])

\* compare_cols, cmp_cols and hash_cols
Compared ==
  IF ~Keyed THEN Common \ Ignored
  ELSE (IF same_server THEN Column ELSE Common) \ (key \cup Ignored)

Change(type, k, old, nu, changed, at) ==
  [type |-> type, key |-> k, old |-> old, new |-> nu, changed |-> changed, at |-> at]

OfType(type) == {ch \in changes : ch.type = type}

\* Mutant of Limit: one row too many.
LimitPlusOne(S) == IF Cardinality(S) <= cap + 1 THEN {S} ELSE kSubset(cap + 1, S)

\* A LIMIT, or a slice of an unordered result: any cap of them.
Limit(S) == IF Cardinality(S) <= cap THEN {S} ELSE kSubset(cap, S)

Init ==
  /\ key \in Keys
  /\ cap \in Caps
  /\ same_server \in Servers
  /\ base \in BaseTables(key)
  /\ new \in NewTables(key)
  /\ writes = 0
  /\ pc = IF ~Keyed THEN "count_base" ELSE IF same_server THEN "count" ELSE "scan_base"
  /\ scan = NoScan
  /\ news = Empty
  /\ count = NoCount
  /\ noted = FALSE
  /\ changes = {}
  /\ seen = [base |-> {base}, new |-> {new}]

GoTo(label) == pc' = label

-----------------------------------------------------------------------------
(* diff_table: scan both sides, classify by key, fetch the changed rows.    *)

\* out[key] = hash row by row: of rows with one key the last one stays.
ScanHashes(T) ==
  LET keys == {KeyOf(r) : r \in Rows(T)}
  IN {f \in [keys -> {Hash(r, Compared) : r \in Rows(T)}] :
        \A k \in keys : \E r \in Rows(T) : KeyOf(r) = k /\ f[k] = Hash(r, Compared)}

ScanBase ==
  /\ pc = "scan_base"
  /\ \E h \in ScanHashes(base) : scan' = [scan EXCEPT !.base = h]
  /\ GoTo("scan_new")
  /\ UNCHANGED <<sides, news, count, noted, changes>>

InsertedKeys == DOMAIN scan.new \ DOMAIN scan.base
DeletedKeys == DOMAIN scan.base \ DOMAIN scan.new
ModifiedKeys == {k \in DOMAIN scan.base \cap DOMAIN scan.new : scan.base[k] # scan.new[k]}

ScanNew ==
  /\ pc = "scan_new"
  /\ \E h \in ScanHashes(new) : scan' = [scan EXCEPT !.new = h]
  /\ count' = [inserted |-> Cardinality(InsertedKeys'),
               deleted |-> Cardinality(DeletedKeys'),
               modified |-> Cardinality(ModifiedKeys')]
  /\ GoTo("fetch_new")
  /\ UNCHANGED <<sides, news, noted, changes>>

\* Mutant of FetchRows: the rows of a batch are matched to the wrong keys.
FetchRowsAnyOrder(T, keys) ==
  LET found == {k \in keys : \E r \in Rows(T) : KeyOf(r) = k}
  IN [found -> {Show(r, Common) : r \in Rows(T)}]

\* WHERE key IN (..): never true of a NULL; of rows with one key the last stays.
FetchRows(T, keys) ==
  LET found == {k \in keys : /\ \A c \in key : k[c] # Null
                             /\ \E r \in Rows(T) : KeyOf(r) = k}
  IN {f \in [found -> {Show(r, Common) : r \in Rows(T)}] : \A k \in found : KeyOf(f[k]) = k}

\* Mutant of FetchNew: what counts as inserted is what is found now.
FetchNewCounting ==
  /\ pc = "fetch_new"
  /\ news' \in FetchRows(new, InsertedKeys \cup ModifiedKeys)
  /\ count' = [count EXCEPT !.inserted = Cardinality(InsertedKeys \cap DOMAIN news')]
  /\ GoTo("fetch_base")
  /\ UNCHANGED <<sides, scan, noted, changes>>

FetchNew ==
  /\ pc = "fetch_new"
  /\ news' \in FetchRows(new, InsertedKeys \cup ModifiedKeys)
  /\ GoTo("fetch_base")
  /\ UNCHANGED <<sides, scan, count, noted, changes>>

Get(rows, k) == IF k \in DOMAIN rows THEN {rows[k]} ELSE {}

\* row.get(col) if row else None
Cell(row, c) == IF row = {} THEN Null ELSE (CHOOSE r \in row : TRUE)[c]

\* Mutant of FetchBase: a deleted row is listed only if it is still found.
FetchBaseIfFound ==
  /\ pc = "fetch_base"
  /\ \E olds \in FetchRows(base, DeletedKeys \cup ModifiedKeys) :
       changes' =
         {Change("inserted", k, {}, Get(news, k), {}, <<0, 0>>) : k \in InsertedKeys} \cup
         {Change("deleted", k, Get(olds, k), {}, {}, <<0, 0>>) : k \in DeletedKeys \cap DOMAIN olds} \cup
         {Change("modified", k, Get(olds, k), Get(news, k),
                 {c \in Compared : Cell(Get(olds, k), c) # Cell(Get(news, k), c)},
                 <<0, 0>>) : k \in ModifiedKeys}
  /\ GoTo("done")
  /\ UNCHANGED <<sides, scan, news, count, noted>>

FetchBase ==
  /\ pc = "fetch_base"
  /\ \E olds \in FetchRows(base, DeletedKeys \cup ModifiedKeys) :
       changes' =
         {Change("inserted", k, {}, Get(news, k), {}, <<0, 0>>) : k \in InsertedKeys} \cup
         {Change("deleted", k, Get(olds, k), {}, {}, <<0, 0>>) : k \in DeletedKeys} \cup
         {Change("modified", k, Get(olds, k), Get(news, k),
                 {c \in Compared : Cell(Get(olds, k), c) # Cell(Get(news, k), c)},
                 <<0, 0>>) : k \in ModifiedKeys}
  /\ GoTo("done")
  /\ UNCHANGED <<sides, scan, news, count, noted>>

-----------------------------------------------------------------------------
(* diff_table_sql: three counts, then three capped lists, of joins on the   *)
(* key that pair NULL with NULL (<=>).                                      *)

PairsOf(B, N) == {p \in (DOMAIN B) \X (DOMAIN N) : KeyOf(B[p[1]]) = KeyOf(N[p[2]])}
Pairs == PairsOf(base, new)

\* LEFT JOIN .. WHERE <other side>.key[0] IS NULL
OnlyInNew ==
  {<<0, j>> : j \in {k \in DOMAIN new : \A p \in Pairs : p[2] # k}} \cup
  {p \in Pairs : base[p[1]][FirstKey] = Null}
OnlyInBase ==
  {<<i, 0>> : i \in {k \in DOMAIN base : \A p \in Pairs : p[1] # k}} \cup
  {p \in Pairs : new[p[2]][FirstKey] = Null}
Differing == {p \in Pairs : Hash(base[p[1]], Compared) # Hash(new[p[2]], Compared)}

\* Mutant of CountChange: the capped rows are counted, not all of them.
CountCapped(label, type, rows, next) ==
  /\ pc = label
  /\ \E S \in Limit(rows) : count' = [count EXCEPT ![type] = Cardinality(S)]
  /\ noted' = (noted \/ Cardinality(rows) > cap)
  /\ GoTo(next)
  /\ UNCHANGED <<sides, scan, news, changes>>

CountChange(label, type, rows, next) ==
  /\ pc = label
  /\ count' = [count EXCEPT ![type] = Cardinality(rows)]
  /\ noted' = (noted \/ Cardinality(rows) > cap)
  /\ GoTo(next)
  /\ UNCHANGED <<sides, scan, news, changes>>

CountInserted == CountChange("count", "inserted", OnlyInNew, "count_deleted")
CountDeleted == CountChange("count_deleted", "deleted", OnlyInBase, "count_modified")
CountModified == CountChange("count_modified", "modified", Differing, "list_inserted")

List(found, next) ==
  /\ changes' = changes \cup found
  /\ GoTo(next)
  /\ UNCHANGED <<sides, scan, news, count, noted>>

ListInserted ==
  /\ pc = "list_inserted"
  /\ \E S \in Limit(OnlyInNew) :
       List({Change("inserted", KeyOf(new[p[2]]), {}, {new[p[2]]}, {}, p) : p \in S},
            "list_deleted")

ListDeleted ==
  /\ pc = "list_deleted"
  /\ \E S \in Limit(OnlyInBase) :
       List({Change("deleted", KeyOf(base[p[1]]), {base[p[1]]}, {}, {}, p) : p \in S},
            "list_modified")

\* disp: the key, the common columns, and the compared ones of one side only
Displayed == key \cup Common \cup Compared

\* Mutant of ModifiedChange: only common columns are named as changed.
ModifiedInCommon(p) ==
  LET old == Show(base[p[1]], Displayed)
      nu == Show(new[p[2]], Displayed)
  IN Change("modified", KeyOf(old), {old}, {nu},
            {c \in Compared \cap Common : old[c] # nu[c]}, p)

\* Mutant of ModifiedChange: ignored columns are named as changed.
ModifiedAnywhere(p) ==
  LET old == Show(base[p[1]], Displayed)
      nu == Show(new[p[2]], Displayed)
  IN Change("modified", KeyOf(old), {old}, {nu}, {c \in Displayed : old[c] # nu[c]}, p)

ModifiedChange(p) ==
  LET old == Show(base[p[1]], Displayed)
      nu == Show(new[p[2]], Displayed)
  IN Change("modified", KeyOf(old), {old}, {nu}, {c \in Compared : old[c] # nu[c]}, p)

ListModified ==
  /\ pc = "list_modified"
  /\ \E S \in Limit(Differing) : List({ModifiedChange(p) : p \in S}, "done")

-----------------------------------------------------------------------------
(* _diff_keyless: multisets of row hashes.                                  *)

HashCounts(T) ==
  [h \in {Hash(r, Compared) : r \in Rows(T)} |->
     Cardinality({i \in DOMAIN T : Hash(T[i], Compared) = h})]

CountBaseHashes ==
  /\ pc = "count_base"
  /\ scan' = [scan EXCEPT !.base = HashCounts(base)]
  /\ GoTo("count_new")
  /\ UNCHANGED <<sides, news, count, noted, changes>>

Excess(a, b) ==
  LET At(f, h) == IF h \in DOMAIN f THEN f[h] ELSE 0
  IN [h \in {x \in DOMAIN a : a[x] > At(b, x)} |-> a[h] - At(b, h)]
\* sum(f.values()), as the number of pairs of an h and one of its f[h] units
SumOf(f) == Cardinality(UNION {{h} \X (1..f[h]) : h \in DOMAIN f})

CountNewHashes ==
  /\ pc = "count_new"
  /\ scan' = [scan EXCEPT !.new = HashCounts(new)]
  /\ count' = [NoCount EXCEPT !.inserted = SumOf(Excess(scan'.new, scan'.base)),
                              !.deleted = SumOf(Excess(scan'.base, scan'.new))]
  /\ noted' = (count'.inserted > cap \/ count'.deleted > cap)
  /\ GoTo("fetch_inserted")
  /\ UNCHANGED <<sides, news, changes>>

\* Mutant of ByHash: one row for each hash.
OneByHash(T, hashes) ==
  UNION {Limit({CHOOSE i \in DOMAIN T : Hash(T[i], Compared) = h : h \in H}) : H \in Limit(hashes)}

\* _fetch_by_hash: all rows that have one of (at most cap) hashes.
ByHash(T, hashes) ==
  UNION {Limit({i \in DOMAIN T : Hash(T[i], Compared) \in H}) : H \in Limit(hashes)}

FetchInserted ==
  /\ pc = "fetch_inserted"
  /\ \E S \in ByHash(new, DOMAIN Excess(scan.new, scan.base)) :
       List({Change("inserted", Empty, {}, {Show(new[j], Common)}, {}, <<0, j>>) : j \in S},
            "fetch_deleted")

FetchDeleted ==
  /\ pc = "fetch_deleted"
  /\ \E S \in ByHash(base, DOMAIN Excess(scan.base, scan.new)) :
       List({Change("deleted", Empty, {Show(base[i], Common)}, {}, {}, <<i, 0>>) : i \in S},
            "done")

-----------------------------------------------------------------------------
(* Statements are autocommitted and read no common snapshot: another client *)
(* may write a live side between any two of them.                           *)

Write ==
  /\ writes < MaxWrites
  /\ pc # "done"
  /\ writes' = writes + 1
  /\ \/ base' \in BaseTables(key) /\ UNCHANGED new
     \/ new' \in NewTables(key) /\ UNCHANGED base
  /\ seen' = [base |-> seen.base \cup {base'}, new |-> seen.new \cup {new'}]
  /\ UNCHANGED <<call, pc, scan, news, count, noted, changes>>

Next ==
  \/ ScanBase \/ ScanNew \/ FetchNew \/ FetchBase
  \/ CountInserted \/ CountDeleted \/ CountModified
  \/ ListInserted \/ ListDeleted \/ ListModified
  \/ CountBaseHashes \/ CountNewHashes \/ FetchInserted \/ FetchDeleted
  \/ Write

Spec == Init /\ [][Next]_vars

-----------------------------------------------------------------------------
(* Properties.                                                              *)

TypeOK ==
  /\ key \in Keys /\ cap \in Caps /\ same_server \in Servers
  /\ IsTable(base, BaseColumns) /\ IsTable(new, NewColumns)
  /\ writes \in 0..MaxWrites
  /\ pc \in {"scan_base", "scan_new", "fetch_new", "fetch_base",
            "count", "count_deleted", "count_modified",
            "list_inserted", "list_deleted", "list_modified",
            "count_base", "count_new", "fetch_inserted", "fetch_deleted", "done"}
  /\ count \in [{"inserted", "deleted", "modified"} -> Nat]
  /\ noted \in BOOLEAN
  /\ \A ch \in changes :
       /\ ch.type \in {"inserted", "deleted", "modified"}
       /\ Cardinality(ch.old) <= 1 /\ Cardinality(ch.new) <= 1
       /\ ch.changed \subseteq Compared
  /\ base \in seen.base /\ new \in seen.new

\* The diff is over and nobody wrote the tables meanwhile.
Quiet == pc = "done" /\ writes = 0

View(r) == Show(r, IF Keyed THEN key \cup Compared ELSE Compared)
Copies(T, v) == Cardinality({i \in DOMAIN T : View(T[i]) = v})
Views(B, N) == {View(r) : r \in Rows(B) \cup Rows(N)}
Over(n, m) == IF n > m THEN n - m ELSE 0

\* What the counts should be of contents B and N: the rows whose key is on one
\* side only and the pairs whose compared columns differ; without a key, the
\* copies of a row that one side has more of.
Exactly(type, B, N) ==
  count[type] =
    IF Keyed
    THEN CASE type = "inserted" -> Cardinality({j \in DOMAIN N : \A p \in PairsOf(B, N) : p[2] # j})
           [] type = "deleted" -> Cardinality({i \in DOMAIN B : \A p \in PairsOf(B, N) : p[1] # i})
           [] type = "modified" -> Cardinality({p \in PairsOf(B, N) : View(B[p[1]]) # View(N[p[2]])})
    ELSE CASE type = "inserted" ->
                SumOf([v \in Views(B, N) |-> Over(Copies(N, v), Copies(B, v))])
           [] type = "deleted" ->
                SumOf([v \in Views(B, N) |-> Over(Copies(B, v), Copies(N, v))])
           [] type = "modified" -> 0

ExactlyCounts(B, N) == \A type \in DOMAIN count : Exactly(type, B, N)

\* "Counts are exact", whatever NULLs, duplicates and one-sided columns the two
\* tables hold.
CountsAreExact == Quiet => ExactlyCounts(base, new)

\* When one side only is written meanwhile, the counts are those of one moment:
\* of what that side held at some time.  Each scan being one statement, no
\* count mixes two contents.  With both sides on one server the three counts
\* are statements of their own, and so may be of three moments.
CountsOfOneMoment ==
  pc = "done" /\ (Cardinality(seen.base) = 1 \/ Cardinality(seen.new) = 1) =>
    IF Keyed /\ same_server
    THEN \A type \in DOMAIN count : \E B \in seen.base, N \in seen.new : Exactly(type, B, N)
    ELSE \E B \in seen.base, N \in seen.new : ExactlyCounts(B, N)

\* The detail is a patch: deleting, inserting and changing what it lists, only
\* in the columns it names, turns the base table into the new one; and every
\* modified row names a column.
ChangesPatchBase ==
  Quiet /\ Keyed /\ ~noted =>
    LET gone == {ch.key : ch \in OfType("deleted") \cup OfType("modified")}
        kept == {View(r) : r \in {x \in Rows(base) : KeyOf(x) \notin gone}}
        added == UNION {{View(r) : r \in ch.new} : ch \in OfType("inserted")}
        mended == {[c \in key \cup Compared |-> IF c \in ch.changed THEN Cell(ch.new, c)
                                               ELSE Cell(ch.old, c)] : ch \in OfType("modified")}
    IN /\ kept \cup added \cup mended = {View(r) : r \in Rows(new)}
       /\ \A ch \in OfType("modified") : ch.changed # {}

\* "Counts are exact; detail is capped": of each type of change as many are
\* listed as were counted, up to the cap in SQL, without one on two servers.
\* There it holds even if the rows are written between the scans and the fetch
\* (a counted row that is gone by then is listed without its columns), while the
\* counts and lists in SQL are statements of their own and part on a live side.
DetailMatchesCounts ==
  pc = "done" /\ Keyed => \A type \in DOMAIN count :
    IF same_server
    THEN writes = 0 => Cardinality(OfType(type)) = IF count[type] > cap THEN cap ELSE count[type]
    ELSE Cardinality(OfType(type)) = count[type]

\* Rows of T of which T has more copies than U.
Surplus(T, U) == {i \in DOMAIN T : Copies(T, View(T[i])) > Copies(U, View(T[i]))}

\* Without a key: no row is shown that the side does not have more copies of,
\* and if its surplus rows fit under the cap each is shown often enough.  The
\* note is no help here: it counts the surplus copies, while all copies of a
\* surplus row are fetched.
KeylessDetailIsComplete ==
  Quiet /\ ~Keyed =>
    \A v \in Views(base, new) :
      LET listed(type) ==
            Cardinality({ch \in OfType(type) : \A r \in ch.old \cup ch.new : Show(r, Compared) = v})
          more == Over(Copies(new, v), Copies(base, v))
          less == Over(Copies(base, v), Copies(new, v))
      IN /\ more = 0 => listed("inserted") = 0
         /\ less = 0 => listed("deleted") = 0
         /\ Cardinality(Surplus(new, base)) <= cap => listed("inserted") >= more
         /\ Cardinality(Surplus(base, new)) <= cap => listed("deleted") >= less

\* Even while other clients write the tables, a row shown for a key is a row
\* with that key that this side really held.
DetailWasReal ==
  \A ch \in changes :
    /\ \A r \in ch.old : \E x \in UNION {Rows(B) : B \in seen.base} : r = Show(x, DOMAIN r) /\ (Keyed => KeyOf(x) = ch.key)
    /\ \A r \in ch.new : \E x \in UNION {Rows(N) : N \in seen.new} : r = Show(x, DOMAIN r) /\ (Keyed => KeyOf(x) = ch.key)
=============================================================================
