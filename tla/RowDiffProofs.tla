---------------------------- MODULE RowDiffProofs ----------------------------
(***************************************************************************)
(* Proofs about RowDiff, for tables of any size and content, any keys and  *)
(* caps and any number of writes by other clients.                         *)
(***************************************************************************)
EXTENDS RowDiff, FiniteSetTheorems, TLAPS

Label == {"scan_base", "scan_new", "fetch_new", "fetch_base",
          "count", "count_deleted", "count_modified",
          "list_inserted", "list_deleted", "list_modified",
          "count_base", "count_new", "fetch_inserted", "fetch_deleted", "done"}
Streaming == {"scan_base", "scan_new", "fetch_new", "fetch_base"}
InSql == {"count", "count_deleted", "count_modified",
          "list_inserted", "list_deleted", "list_modified"}
WithoutKey == {"count_base", "count_new", "fetch_inserted", "fetch_deleted"}

\* Where the diff is, and what the two sides have held.
Placed ==
  /\ key \in Keys /\ cap \in Caps /\ same_server \in Servers
  /\ pc \in Label /\ writes \in 0..MaxWrites
  /\ pc \in Streaming => Keyed /\ ~same_server
  /\ pc \in InSql => Keyed /\ same_server
  /\ pc \in WithoutKey => ~Keyed
  /\ base \in seen.base /\ new \in seen.new
  /\ seen.base \subseteq BaseTables(key) /\ seen.new \subseteq NewTables(key)
  /\ writes = 0 => seen.base = {base} /\ seen.new = {new}

LEMMA PlacedInit == Init => Placed
<1> SUFFICES ASSUME Init PROVE Placed
  OBVIOUS
<1>1. seen.base = {base} /\ seen.new = {new} /\ same_server \in BOOLEAN
  BY RowDiffAssumption DEF Init
<1> QED BY <1>1, RowDiffAssumption DEF Init, Placed, Label, Streaming, InSql, WithoutKey

LEMMA PlacedStep ==
  ASSUME Placed, [Next]_vars
  PROVE  Placed' /\ UNCHANGED call /\ seen.base \subseteq seen'.base /\ seen.new \subseteq seen'.new
<1>1. CASE Write
  <2>1. /\ UNCHANGED <<call, pc>> /\ writes' \in 0..MaxWrites /\ writes' # 0
        /\ base' \in BaseTables(key) /\ new' \in NewTables(key)
    BY <1>1, RowDiffAssumption DEF Write, Placed
  <2>2. seen'.base = seen.base \cup {base'} /\ seen'.new = seen.new \cup {new'}
    BY <1>1 DEF Write
  <2> QED BY <2>1, <2>2 DEF Placed, call, Keyed, Common
<1>2. CASE ~Write
  <2>1. UNCHANGED <<call, base, new, writes, seen>>
    BY <1>2 DEF Next, vars, sides, ScanBase, ScanNew, FetchNew, FetchBase, CountInserted, CountDeleted,
       CountModified, CountChange, ListInserted, ListDeleted, ListModified, List, CountBaseHashes,
       CountNewHashes, FetchInserted, FetchDeleted
  <2>2. pc' \in Label /\ (pc' # pc => pc \notin {"done"})
        /\ (pc' \in Streaming => pc \in Streaming) /\ (pc' \in InSql => pc \in InSql)
        /\ (pc' \in WithoutKey => pc \in WithoutKey)
    BY <1>2 DEF Placed, Next, vars, ScanBase, ScanNew, FetchNew, FetchBase, CountInserted, CountDeleted,
       CountModified, CountChange, ListInserted, ListDeleted, ListModified, List, CountBaseHashes,
       CountNewHashes, FetchInserted, FetchDeleted, GoTo, Label, Streaming, InSql, WithoutKey
  <2> QED BY <2>1, <2>2 DEF Placed, call, Keyed, Common
<1> QED BY <1>1, <1>2

LEMMA PlacedHolds == Spec => []Placed
  BY PlacedInit, PlacedStep, PTL DEF Spec

\* What is computed from the arguments stays as they do.
LEMMA CallKept ==
  ASSUME UNCHANGED call
  PROVE  /\ Keyed' = Keyed /\ Compared' = Compared /\ Displayed' = Displayed
         /\ \A r : KeyOf(r)' = KeyOf(r)
         /\ \A r : View(r)' = View(r)
         /\ \A B, N : PairsOf(B, N)' = PairsOf(B, N)
         /\ \A T : ScanHashes(T)' = ScanHashes(T)
         /\ \A T : HashCounts(T)' = HashCounts(T)
         /\ \A B, N : Views(B, N)' = Views(B, N)
         /\ \A T, v : Copies(T, v)' = Copies(T, v)
         /\ \A S : Limit(S)' = Limit(S)
<1>1. key' = key /\ cap' = cap /\ same_server' = same_server
  BY DEF call
<1>2. Keyed' = Keyed
  BY <1>1 DEF Keyed
<1>3. Compared' = Compared
  BY <1>1, <1>2 DEF Compared
<1>4. Displayed' = Displayed
  BY <1>1, <1>3 DEF Displayed
<1>5. \A r : KeyOf(r)' = KeyOf(r)
  BY <1>1 DEF KeyOf
<1>6. \A r : View(r)' = View(r)
  BY <1>1, <1>2, <1>3 DEF View, Show
<1>7. \A B, N : PairsOf(B, N)' = PairsOf(B, N)
  BY <1>1 DEF PairsOf, KeyOf
<1>8. \A T : ScanHashes(T)' = ScanHashes(T)
  BY <1>1, <1>3 DEF ScanHashes, KeyOf, Hash
<1>9. \A T : HashCounts(T)' = HashCounts(T)
  BY <1>3 DEF HashCounts, Hash
<1>10. \A B, N : Views(B, N)' = Views(B, N)
  BY <1>1, <1>2, <1>3 DEF Views, View, Show
<1>11. \A T, v : Copies(T, v)' = Copies(T, v)
  BY <1>1, <1>2, <1>3 DEF Copies, View, Show
<1>12. \A S : Limit(S)' = Limit(S)
  BY <1>1 DEF Limit, kSubset
<1> QED BY <1>2, <1>3, <1>4, <1>5, <1>6, <1>7, <1>8, <1>9, <1>10, <1>11, <1>12

-----------------------------------------------------------------------------
(* Every row shown was there.                                               *)

LEMMA RowTypes ==
  ASSUME Placed
  PROVE  /\ \A B \in seen.base : IsTable(B, BaseColumns)
         /\ \A N \in seen.new : IsTable(N, NewColumns)
         /\ IsTable(base, BaseColumns) /\ IsTable(new, NewColumns)
  BY RowDiffAssumption DEF Placed

BaseRows == UNION {Rows(B) : B \in seen.base}
NewRows == UNION {Rows(N) : N \in seen.new}

\* r shows, under key k, a row of the set given.
Shows(r, rows, k) == \E x \in rows : r = Show(x, DOMAIN r) /\ (Keyed => KeyOf(x) = k)

NewsReal == \A k \in DOMAIN news : Shows(news[k], NewRows, k)
ChangeReal(ch) ==
  /\ \A r \in ch.old : Shows(r, BaseRows, ch.key)
  /\ \A r \in ch.new : Shows(r, NewRows, ch.key)

RealInv == Placed /\ NewsReal /\ \A ch \in changes : ChangeReal(ch)

LEMMA LimitWithin ==
  ASSUME NEW S, NEW L \in Limit(S)
  PROVE  L \subseteq S
  BY DEF Limit, kSubset

LEMMA ByHashWithin ==
  ASSUME NEW T, NEW hashes, NEW S \in ByHash(T, hashes)
  PROVE  S \subseteq {i \in DOMAIN T : Hash(T[i], Compared) \in hashes}
<1>1. PICK H \in Limit(hashes) : S \in Limit({i \in DOMAIN T : Hash(T[i], Compared) \in H})
  BY DEF ByHash
<1>2. H \subseteq hashes
  BY LimitWithin
<1>3. S \subseteq {i \in DOMAIN T : Hash(T[i], Compared) \in H}
  BY <1>1, LimitWithin
<1> QED BY <1>2, <1>3

\* The columns shown of a row include its key.
LEMMA KeyShown ==
  ASSUME Keyed, NEW r, NEW cols, key \subseteq cols, key \subseteq DOMAIN r
  PROVE  KeyOf(Show(r, cols)) = KeyOf(r)
  BY DEF KeyOf, Show

LEMMA ShownIsReal ==
  ASSUME NEW rows, NEW x \in rows, NEW cols
  PROVE  Shows(Show(x, cols), rows, KeyOf(x))
<1>1. DOMAIN Show(x, cols) = cols
  BY DEF Show
<1> QED BY <1>1 DEF Shows

LEMMA RowIsReal ==
  ASSUME NEW rows, NEW x \in rows, NEW cols, x \in [cols -> Value \cup {Null}]
  PROVE  Shows(x, rows, KeyOf(x))
<1>1. x = Show(x, DOMAIN x)
  BY DEF Show
<1> QED BY <1>1 DEF Shows

LEMMA FetchedReal ==
  ASSUME Keyed, NEW T, NEW cols, IsTable(T, cols), Common \subseteq cols,
         NEW keys, NEW f \in FetchRows(T, keys), NEW k \in DOMAIN f
  PROVE  \E x \in Rows(T) : f[k] = Show(x, Common) /\ KeyOf(x) = k
<1>1. f[k] \in {Show(r, Common) : r \in Rows(T)} /\ KeyOf(f[k]) = k
  BY DEF FetchRows
<1>2. PICK x \in Rows(T) : f[k] = Show(x, Common)
  BY <1>1
<1>3. x \in [cols -> Value \cup {Null}]
  BY DEF IsTable
<1>4. KeyOf(Show(x, Common)) = KeyOf(x)
  BY <1>3, KeyShown DEF Keyed
<1> QED BY <1>1, <1>2, <1>4

LEMMA FetchedShows ==
  ASSUME Keyed, NEW T, NEW cols, IsTable(T, cols), Common \subseteq cols,
         NEW keys, NEW f \in FetchRows(T, keys), NEW rows, Rows(T) \subseteq rows
  PROVE  \A k \in DOMAIN f : Shows(f[k], rows, k)
<1> SUFFICES ASSUME NEW k \in DOMAIN f PROVE Shows(f[k], rows, k)
  OBVIOUS
<1>1. PICK x \in Rows(T) : f[k] = Show(x, Common) /\ KeyOf(x) = k
  BY FetchedReal
<1> QED BY <1>1, ShownIsReal

\* What is real stays real: sides only come to have held more.
LEMMA RealKept ==
  ASSUME UNCHANGED call, seen.base \subseteq seen'.base, seen.new \subseteq seen'.new
  PROVE  /\ \A r, k : Shows(r, BaseRows, k) => Shows(r, BaseRows, k)'
         /\ \A r, k : Shows(r, NewRows, k) => Shows(r, NewRows, k)'
<1>1. Keyed' = Keyed /\ key' = key
  BY DEF call, Keyed, Common
<1>2. BaseRows \subseteq BaseRows' /\ NewRows \subseteq NewRows'
  BY DEF BaseRows, NewRows
<1> QED BY <1>1, <1>2 DEF Shows, KeyOf

LEMMA RealStep ==
  ASSUME RealInv, [Next]_vars
  PROVE  RealInv'
<1>1. Placed /\ Placed'
  BY PlacedStep DEF RealInv
<1>2. /\ \A r, k : Shows(r, BaseRows, k) => Shows(r, BaseRows, k)'
      /\ \A r, k : Shows(r, NewRows, k) => Shows(r, NewRows, k)'
  BY <1>1, PlacedStep, RealKept
<1>3. \A ch : ChangeReal(ch) => ChangeReal(ch)'
  BY <1>2 DEF ChangeReal
<1>4. /\ Rows(base) \subseteq BaseRows /\ Rows(new) \subseteq NewRows
      /\ IsTable(base, BaseColumns) /\ IsTable(new, NewColumns)
      /\ Common \subseteq BaseColumns /\ Common \subseteq NewColumns
  BY <1>1, RowTypes DEF Placed, BaseRows, NewRows, Common
<1>5. CASE UNCHANGED <<news, changes>>
  BY <1>1, <1>2, <1>3, <1>5 DEF RealInv, NewsReal
<1>6. CASE FetchNew
  <2>1. Keyed
    BY <1>1, <1>6 DEF Placed, FetchNew, Streaming
  <2>2. news' \in FetchRows(new, InsertedKeys \cup ModifiedKeys) /\ changes' = changes
    BY <1>6 DEF FetchNew
  <2>3. \A k \in DOMAIN news' : Shows(news'[k], NewRows, k)
    BY <1>4, <2>1, <2>2, FetchedShows
  <2>4. NewsReal'
    BY <1>2, <2>3 DEF NewsReal
  <2> QED BY <1>1, <1>3, <2>2, <2>4 DEF RealInv
<1>7. CASE FetchBase
  <2>1. PICK olds \in FetchRows(base, DeletedKeys \cup ModifiedKeys) :
          changes' =
            {Change("inserted", k, {}, Get(news, k), {}, <<0, 0>>) : k \in InsertedKeys} \cup
            {Change("deleted", k, Get(olds, k), {}, {}, <<0, 0>>) : k \in DeletedKeys} \cup
            {Change("modified", k, Get(olds, k), Get(news, k),
                    {c \in Compared : Cell(Get(olds, k), c) # Cell(Get(news, k), c)},
                    <<0, 0>>) : k \in ModifiedKeys}
    BY <1>7 DEF FetchBase
  <2>2. Keyed
    BY <1>1, <1>7 DEF Placed, FetchBase, Streaming
  <2>3. \A k \in DOMAIN olds : Shows(olds[k], BaseRows, k)
    BY <1>4, <2>2, FetchedShows
  <2>4. \A k : \A r \in Get(olds, k) : Shows(r, BaseRows, k)
    BY <2>3 DEF Get
  <2>5. \A k : \A r \in Get(news, k) : Shows(r, NewRows, k)
    BY DEF Get, RealInv, NewsReal
  <2>6. ASSUME NEW ch \in changes'
        PROVE  ChangeReal(ch)
    <3>1. \E k : ch.key = k /\ ch.old \in {{}, Get(olds, k)} /\ ch.new \in {{}, Get(news, k)}
      BY <2>1 DEF Change
    <3> QED BY <3>1, <2>4, <2>5 DEF ChangeReal
  <2>7. NewsReal'
    BY <1>2, <1>7 DEF FetchBase, RealInv, NewsReal
  <2> QED BY <1>1, <1>3, <2>6, <2>7 DEF RealInv
<1>8. ASSUME ListInserted \/ ListDeleted \/ ListModified \/ FetchInserted \/ FetchDeleted
      PROVE  RealInv'
  <2>1. news' = news
    BY <1>8 DEF ListInserted, ListDeleted, ListModified, FetchInserted, FetchDeleted, List
  <2>2. ASSUME NEW ch \in changes', ch \notin changes
        PROVE  ChangeReal(ch)
    <3>1. CASE ListInserted
      <4>1. PICK S \in Limit(OnlyInNew) : changes' = changes \cup
              {Change("inserted", KeyOf(new[p[2]]), {}, {new[p[2]]}, {}, p) : p \in S}
        BY <3>1 DEF ListInserted, List
      <4>2. PICK p \in S : ch = Change("inserted", KeyOf(new[p[2]]), {}, {new[p[2]]}, {}, p)
        BY <2>2, <4>1
      <4>3. p[2] \in DOMAIN new
        BY LimitWithin DEF OnlyInNew, Pairs, PairsOf
      <4>4. new[p[2]] \in NewRows /\ new[p[2]] \in [NewColumns -> Value \cup {Null}]
        BY <1>4, <4>3 DEF Rows, IsTable
      <4> QED BY <4>2, <4>4, RowIsReal DEF Change, ChangeReal
    <3>2. CASE ListDeleted
      <4>1. PICK S \in Limit(OnlyInBase) : changes' = changes \cup
              {Change("deleted", KeyOf(base[p[1]]), {base[p[1]]}, {}, {}, p) : p \in S}
        BY <3>2 DEF ListDeleted, List
      <4>2. PICK p \in S : ch = Change("deleted", KeyOf(base[p[1]]), {base[p[1]]}, {}, {}, p)
        BY <2>2, <4>1
      <4>3. p[1] \in DOMAIN base
        BY LimitWithin DEF OnlyInBase, Pairs, PairsOf
      <4>4. base[p[1]] \in BaseRows /\ base[p[1]] \in [BaseColumns -> Value \cup {Null}]
        BY <1>4, <4>3 DEF Rows, IsTable
      <4> QED BY <4>2, <4>4, RowIsReal DEF Change, ChangeReal
    <3>3. CASE ListModified
      <4>1. PICK S \in Limit(Differing) : changes' = changes \cup {ModifiedChange(p) : p \in S}
        BY <3>3 DEF ListModified, List
      <4>2. PICK p \in S : ch = ModifiedChange(p)
        BY <2>2, <4>1
      <4>3. p[1] \in DOMAIN base /\ p[2] \in DOMAIN new /\ KeyOf(base[p[1]]) = KeyOf(new[p[2]])
        BY LimitWithin DEF Differing, Pairs, PairsOf
      <4>4. /\ base[p[1]] \in BaseRows /\ base[p[1]] \in [BaseColumns -> Value \cup {Null}]
            /\ new[p[2]] \in NewRows
        BY <1>4, <4>3 DEF Rows, IsTable
      <4>5. /\ ch.key = KeyOf(Show(base[p[1]], Displayed))
            /\ ch.old = {Show(base[p[1]], Displayed)} /\ ch.new = {Show(new[p[2]], Displayed)}
        BY <4>2 DEF ModifiedChange, Change
      <4>6. Keyed
        BY <1>1, <3>3 DEF Placed, ListModified, InSql
      <4>7. KeyOf(Show(base[p[1]], Displayed)) = KeyOf(base[p[1]])
        BY <1>4, <4>4, <4>6, KeyShown DEF Displayed, Keyed
      <4> QED BY <4>3, <4>4, <4>5, <4>7, ShownIsReal DEF ChangeReal
    <3>4. CASE FetchInserted
      <4>1. PICK S \in ByHash(new, DOMAIN Excess(scan.new, scan.base)) : changes' = changes \cup
              {Change("inserted", Empty, {}, {Show(new[j], Common)}, {}, <<0, j>>) : j \in S}
        BY <3>4 DEF FetchInserted, List
      <4>2. PICK j \in S : ch = Change("inserted", Empty, {}, {Show(new[j], Common)}, {}, <<0, j>>)
        BY <2>2, <4>1
      <4>3. j \in DOMAIN new /\ ~Keyed
        <5>1. S \subseteq DOMAIN new
          BY <4>1, ByHashWithin
        <5>2. ~Keyed
          BY <1>1, <3>4 DEF Placed, FetchInserted, WithoutKey
        <5> QED BY <4>2, <5>1, <5>2
      <4>4. new[j] \in NewRows
        BY <1>4, <4>3 DEF Rows
      <4>5. Shows(Show(new[j], Common), NewRows, KeyOf(new[j]))
        BY <4>4, ShownIsReal
      <4>6. Shows(Show(new[j], Common), NewRows, Empty)
        BY <4>3, <4>5 DEF Shows
      <4> QED BY <4>2, <4>6 DEF Change, ChangeReal
    <3>5. CASE FetchDeleted
      <4>1. PICK S \in ByHash(base, DOMAIN Excess(scan.base, scan.new)) : changes' = changes \cup
              {Change("deleted", Empty, {Show(base[i], Common)}, {}, {}, <<i, 0>>) : i \in S}
        BY <3>5 DEF FetchDeleted, List
      <4>2. PICK i \in S : ch = Change("deleted", Empty, {Show(base[i], Common)}, {}, {}, <<i, 0>>)
        BY <2>2, <4>1
      <4>3. i \in DOMAIN base /\ ~Keyed
        <5>1. S \subseteq DOMAIN base
          BY <4>1, ByHashWithin
        <5>2. ~Keyed
          BY <1>1, <3>5 DEF Placed, FetchDeleted, WithoutKey
        <5> QED BY <4>2, <5>1, <5>2
      <4>4. base[i] \in BaseRows
        BY <1>4, <4>3 DEF Rows
      <4>5. Shows(Show(base[i], Common), BaseRows, KeyOf(base[i]))
        BY <4>4, ShownIsReal
      <4>6. Shows(Show(base[i], Common), BaseRows, Empty)
        BY <4>3, <4>5 DEF Shows
      <4> QED BY <4>2, <4>6 DEF Change, ChangeReal
    <3> QED BY <1>8, <3>1, <3>2, <3>3, <3>4, <3>5
  <2> QED BY <1>1, <1>2, <1>3, <2>1, <2>2 DEF RealInv, NewsReal
<1> QED BY <1>5, <1>6, <1>7, <1>8 DEF Next, vars, sides, ScanBase, ScanNew, CountInserted,
    CountDeleted, CountModified, CountChange, CountBaseHashes, CountNewHashes, Write

\* A row shown for a key is a row with that key that its side really held,
\* however often other clients write the tables meanwhile.
THEOREM DetailIsReal == Spec => []DetailWasReal
<1>1. Init => RealInv
  BY PlacedInit DEF Init, RealInv, NewsReal, Empty
<1>2. RealInv /\ [Next]_vars => RealInv'
  BY RealStep
<1>3. RealInv => DetailWasReal
  BY DEF RealInv, ChangeReal, Shows, BaseRows, NewRows, DetailWasReal
<1> QED BY <1>1, <1>2, <1>3, PTL DEF Spec

-----------------------------------------------------------------------------
(* What the scans hold.                                                     *)

StreamingOrDone == pc \in {"fetch_new", "fetch_base"} \/ (pc = "done" /\ Keyed /\ ~same_server)
WithoutKeyOrDone == pc \in {"fetch_inserted", "fetch_deleted"} \/ (pc = "done" /\ ~Keyed)

StreamCounts ==
  [inserted |-> Cardinality(InsertedKeys), deleted |-> Cardinality(DeletedKeys),
   modified |-> Cardinality(ModifiedKeys)]
HashCount ==
  [inserted |-> SumOf(Excess(scan.new, scan.base)),
   deleted |-> SumOf(Excess(scan.base, scan.new)), modified |-> 0]

\* Each scan is of what its side held at some time, and the counts are taken
\* from both.
ScanInv ==
  /\ Placed
  /\ DOMAIN scan = {"base", "new"}
  /\ pc = "scan_new" => \E B \in seen.base : scan.base \in ScanHashes(B)
  /\ pc = "count_new" => \E B \in seen.base : scan.base = HashCounts(B)
  /\ StreamingOrDone =>
       /\ \E B \in seen.base : scan.base \in ScanHashes(B)
       /\ \E N \in seen.new : scan.new \in ScanHashes(N)
       /\ count = StreamCounts
  /\ WithoutKeyOrDone =>
       /\ \E B \in seen.base : scan.base = HashCounts(B)
       /\ \E N \in seen.new : scan.new = HashCounts(N)
       /\ count = HashCount

LEMMA ScanKept ==
  ASSUME ScanInv, [Next]_vars, UNCHANGED <<pc, scan, count>>
  PROVE  ScanInv'
<1>1. /\ Placed' /\ UNCHANGED call /\ seen.base \subseteq seen'.base /\ seen.new \subseteq seen'.new
  BY PlacedStep DEF ScanInv
<1>2. /\ Keyed' = Keyed /\ \A T : ScanHashes(T)' = ScanHashes(T) /\ HashCounts(T)' = HashCounts(T)
  BY <1>1, CallKept
<1>3. StreamCounts' = StreamCounts /\ HashCount' = HashCount
  BY DEF StreamCounts, HashCount, InsertedKeys, DeletedKeys, ModifiedKeys
<1>4. StreamingOrDone' = StreamingOrDone /\ WithoutKeyOrDone' = WithoutKeyOrDone
  BY <1>1, <1>2 DEF StreamingOrDone, WithoutKeyOrDone, call
<1> QED BY <1>1, <1>2, <1>3, <1>4 DEF ScanInv

LEMMA ScanStep ==
  ASSUME ScanInv, [Next]_vars
  PROVE  ScanInv'
<1>1. /\ Placed /\ Placed' /\ UNCHANGED call /\ seen.base \subseteq seen'.base /\ seen.new \subseteq seen'.new
  BY PlacedStep DEF ScanInv
<1>2. /\ Keyed' = Keyed /\ \A T : ScanHashes(T)' = ScanHashes(T) /\ HashCounts(T)' = HashCounts(T)
      /\ same_server' = same_server
  BY <1>1, CallKept DEF call
<1>3. base \in seen.base /\ new \in seen.new
  BY <1>1 DEF Placed
<1>4. CASE ScanBase
  <2>1. PICK h \in ScanHashes(base) : scan' = [scan EXCEPT !.base = h]
    BY <1>4 DEF ScanBase
  <2>2. pc' = "scan_new" /\ scan'.base \in ScanHashes(base) /\ DOMAIN scan' = {"base", "new"}
    BY <1>4, <2>1 DEF ScanBase, GoTo, ScanInv
  <2> QED BY <1>1, <1>2, <1>3, <2>2 DEF ScanInv, StreamingOrDone, WithoutKeyOrDone
<1>5. CASE ScanNew
  <2>1. PICK h \in ScanHashes(new) : scan' = [scan EXCEPT !.new = h]
    BY <1>5 DEF ScanNew
  <2>2. /\ pc = "scan_new" /\ pc' = "fetch_new" /\ scan'.new \in ScanHashes(new)
        /\ scan'.base = scan.base /\ DOMAIN scan' = {"base", "new"}
    BY <1>5, <2>1 DEF ScanNew, GoTo, ScanInv
  <2>3. count' = StreamCounts'
    BY <1>5 DEF ScanNew, StreamCounts
  <2>4. \E B \in seen.base : scan.base \in ScanHashes(B)
    BY <2>2 DEF ScanInv
  <2> QED BY <1>1, <1>2, <1>3, <2>2, <2>3, <2>4 DEF ScanInv, StreamingOrDone, WithoutKeyOrDone
<1>6. CASE CountBaseHashes
  <2>1. pc' = "count_new" /\ scan'.base = HashCounts(base) /\ DOMAIN scan' = {"base", "new"}
    BY <1>6 DEF CountBaseHashes, GoTo, ScanInv
  <2> QED BY <1>1, <1>2, <1>3, <2>1 DEF ScanInv, StreamingOrDone, WithoutKeyOrDone
<1>7. CASE CountNewHashes
  <2>1. /\ pc = "count_new" /\ pc' = "fetch_inserted" /\ scan'.new = HashCounts(new)
        /\ scan'.base = scan.base /\ DOMAIN scan' = {"base", "new"}
    BY <1>7 DEF CountNewHashes, GoTo, ScanInv
  <2>2. count' = HashCount'
    BY <1>7 DEF CountNewHashes, HashCount, NoCount
  <2>3. \E B \in seen.base : scan.base = HashCounts(B)
    BY <2>1 DEF ScanInv
  <2> QED BY <1>1, <1>2, <1>3, <2>1, <2>2, <2>3 DEF ScanInv, StreamingOrDone, WithoutKeyOrDone
<1>8. CASE FetchNew \/ FetchBase \/ FetchInserted \/ FetchDeleted
  <2>1. UNCHANGED <<scan, count>>
    BY <1>8 DEF FetchNew, FetchBase, FetchInserted, FetchDeleted, List
  <2>2. /\ StreamingOrDone' <=> StreamingOrDone
        /\ WithoutKeyOrDone' <=> WithoutKeyOrDone
        /\ pc' \notin {"scan_new", "count_new"}
    BY <1>1, <1>2, <1>8 DEF FetchNew, FetchBase, FetchInserted, FetchDeleted, List, GoTo, Placed,
       StreamingOrDone, WithoutKeyOrDone, Streaming, WithoutKey
  <2>3. StreamCounts' = StreamCounts /\ HashCount' = HashCount
    BY <2>1 DEF StreamCounts, HashCount, InsertedKeys, DeletedKeys, ModifiedKeys
  <2> QED BY <1>1, <1>2, <2>1, <2>2, <2>3 DEF ScanInv
<1>9. CASE CountInserted \/ CountDeleted \/ CountModified \/ ListInserted \/ ListDeleted \/ ListModified
  <2>1. scan' = scan /\ pc \in InSql /\ pc' \in InSql \cup {"done"}
    BY <1>9 DEF CountInserted, CountDeleted, CountModified, CountChange, ListInserted, ListDeleted,
       ListModified, List, GoTo, InSql
  <2>2. Keyed' /\ same_server'
    BY <1>1, <1>2, <2>1 DEF Placed
  <2> QED BY <1>1, <2>1, <2>2 DEF ScanInv, InSql, StreamingOrDone, WithoutKeyOrDone
<1>10. CASE Write \/ UNCHANGED vars
  <2>1. UNCHANGED <<pc, scan, count>>
    BY <1>10 DEF Write, vars
  <2> QED BY <2>1, ScanKept
<1> QED BY <1>4, <1>5, <1>6, <1>7, <1>8, <1>9, <1>10 DEF Next

LEMMA ScanInit == Init => ScanInv
<1> SUFFICES ASSUME Init PROVE ScanInv
  OBVIOUS
<1>1. DOMAIN scan = {"base", "new"} /\ pc \in {"scan_base", "count", "count_base"}
  BY DEF Init, NoScan
<1> QED BY <1>1, PlacedInit DEF ScanInv, StreamingOrDone, WithoutKeyOrDone

-----------------------------------------------------------------------------
(* Type correctness: everything that is counted is finite.                  *)

LEMMA ImageFinite ==
  ASSUME NEW S, IsFiniteSet(S), NEW f
  PROVE  IsFiniteSet({f[x] : x \in S}) /\ Cardinality({f[x] : x \in S}) <= Cardinality(S)
<1> DEFINE g == [x \in S |-> f[x]]
           T == {f[x] : x \in S}
<1>1. g \in Surjection(S, T)
  BY DEF Surjection
<1> QED BY <1>1, FS_Surjection

LEMMA RowsFinite ==
  ASSUME NEW T, IsFiniteSet(DOMAIN T)
  PROVE  IsFiniteSet(Rows(T))
  BY ImageFinite DEF Rows

LEMMA PairsFinite ==
  ASSUME NEW B, NEW N, IsFiniteSet(DOMAIN B), IsFiniteSet(DOMAIN N)
  PROVE  IsFiniteSet(PairsOf(B, N))
<1>1. IsFiniteSet((DOMAIN B) \X (DOMAIN N))
  BY FS_Product
<1>2. PairsOf(B, N) \in SUBSET ((DOMAIN B) \X (DOMAIN N))
  BY DEF PairsOf
<1> QED BY <1>1, <1>2, FS_Subset

LEMMA ScanFinite ==
  ASSUME NEW T, IsFiniteSet(DOMAIN T), NEW h \in ScanHashes(T)
  PROVE  DOMAIN h = {KeyOf(r) : r \in Rows(T)} /\ IsFiniteSet(DOMAIN h)
<1>1. DOMAIN h = {KeyOf(r) : r \in Rows(T)}
  BY DEF ScanHashes
<1> DEFINE f == [r \in Rows(T) |-> KeyOf(r)]
<1>2. IsFiniteSet({f[r] : r \in Rows(T)})
  BY RowsFinite, ImageFinite
<1>3. {f[r] : r \in Rows(T)} = DOMAIN h
  BY <1>1
<1> QED BY <1>1, <1>2, <1>3

\* A multiset of hashes, as a function.
IsCounter(f) == IsFiniteSet(DOMAIN f) /\ \A h \in DOMAIN f : f[h] \in Nat

LEMMA HashCountsTyped ==
  ASSUME NEW T, IsFiniteSet(DOMAIN T)
  PROVE  IsCounter(HashCounts(T))
<1> DEFINE f == [r \in Rows(T) |-> Hash(r, Compared)]
<1>1. DOMAIN HashCounts(T) = {f[r] : r \in Rows(T)}
  BY DEF HashCounts
<1>2. IsFiniteSet(DOMAIN HashCounts(T))
  <2> HIDE DEF f
  <2> QED BY <1>1, RowsFinite, ImageFinite
<1>3. ASSUME NEW h \in DOMAIN HashCounts(T)
      PROVE  HashCounts(T)[h] \in Nat
  <2>1. {i \in DOMAIN T : Hash(T[i], Compared) = h} \in SUBSET DOMAIN T
    OBVIOUS
  <2>2. Cardinality({i \in DOMAIN T : Hash(T[i], Compared) = h}) \in Nat
    BY <2>1, FS_Subset, FS_CardinalityType
  <2> QED BY <2>2 DEF HashCounts
<1> QED BY <1>2, <1>3 DEF IsCounter

LEMMA ExcessTyped ==
  ASSUME NEW a, NEW b, IsCounter(a), IsCounter(b)
  PROVE  IsCounter(Excess(a, b))
<1>1. DOMAIN Excess(a, b) \in SUBSET DOMAIN a
  BY DEF Excess
<1>2. IsFiniteSet(DOMAIN Excess(a, b))
  BY <1>1, FS_Subset DEF IsCounter
<1>3. \A h \in DOMAIN Excess(a, b) : Excess(a, b)[h] \in Nat
  BY DEF Excess, IsCounter
<1> QED BY <1>2, <1>3 DEF IsCounter

\* The units that SumOf counts.
Units(f) == UNION {{h} \X (1..f[h]) : h \in DOMAIN f}

LEMMA UnitsFinite ==
  ASSUME NEW f, IsCounter(f)
  PROVE  IsFiniteSet(Units(f)) /\ SumOf(f) = Cardinality(Units(f)) /\ SumOf(f) \in Nat
<1> DEFINE g == [h \in DOMAIN f |-> {h} \X (1..f[h])]
           G == {g[h] : h \in DOMAIN f}
<1>1. IsFiniteSet(G)
  <2> HIDE DEF g
  <2> QED BY ImageFinite DEF IsCounter
<1>2. ASSUME NEW S \in G
      PROVE  IsFiniteSet(S)
  <2>1. PICK h \in DOMAIN f : S = {h} \X (1..f[h])
    BY <1>2
  <2>2. f[h] \in Int /\ 1 \in Int
    BY <2>1 DEF IsCounter
  <2>3. IsFiniteSet({h}) /\ IsFiniteSet(1..f[h])
    BY <2>2, FS_Singleton, FS_Interval
  <2> QED BY <2>1, <2>3, FS_Product
<1>3. IsFiniteSet(UNION G)
  BY <1>1, <1>2, FS_UNION
<1>4. UNION G = Units(f)
  BY DEF Units
<1> QED BY <1>3, <1>4, FS_CardinalityType DEF SumOf, Units

CountType == [{"inserted", "deleted", "modified"} -> Nat]

LEMMA StreamCountsTyped ==
  ASSUME NEW B, NEW N, IsFiniteSet(DOMAIN B), IsFiniteSet(DOMAIN N),
         NEW b \in ScanHashes(B), NEW n \in ScanHashes(N)
  PROVE  /\ Cardinality(DOMAIN n \ DOMAIN b) \in Nat
         /\ Cardinality(DOMAIN b \ DOMAIN n) \in Nat
         /\ Cardinality({k \in DOMAIN b \cap DOMAIN n : b[k] # n[k]}) \in Nat
<1>1. IsFiniteSet(DOMAIN b) /\ IsFiniteSet(DOMAIN n)
  BY ScanFinite
<1>2. /\ DOMAIN n \ DOMAIN b \in SUBSET DOMAIN n
      /\ DOMAIN b \ DOMAIN n \in SUBSET DOMAIN b
      /\ {k \in DOMAIN b \cap DOMAIN n : b[k] # n[k]} \in SUBSET DOMAIN b
  OBVIOUS
<1> QED BY <1>1, <1>2, FS_Subset, FS_CardinalityType

LEMMA HashCountTyped ==
  ASSUME NEW B, NEW N, IsFiniteSet(DOMAIN B), IsFiniteSet(DOMAIN N)
  PROVE  SumOf(Excess(HashCounts(N), HashCounts(B))) \in Nat
  BY HashCountsTyped, ExcessTyped, UnitsFinite

LEMMA JoinsFinite ==
  ASSUME Placed
  PROVE  /\ IsFiniteSet(OnlyInNew) /\ IsFiniteSet(OnlyInBase) /\ IsFiniteSet(Differing)
         /\ Cardinality(OnlyInNew) \in Nat /\ Cardinality(OnlyInBase) \in Nat
         /\ Cardinality(Differing) \in Nat
<1>1. IsFiniteSet(DOMAIN base) /\ IsFiniteSet(DOMAIN new)
  BY RowTypes DEF IsTable
<1>2. IsFiniteSet({0} \X DOMAIN new) /\ IsFiniteSet((DOMAIN base) \X {0}) /\ IsFiniteSet(Pairs)
  BY <1>1, FS_Product, FS_Singleton, PairsFinite DEF Pairs
<1>3. IsFiniteSet(({0} \X DOMAIN new) \cup Pairs) /\ IsFiniteSet(((DOMAIN base) \X {0}) \cup Pairs)
  BY <1>2, FS_Union
<1>4. /\ OnlyInNew \in SUBSET (({0} \X DOMAIN new) \cup Pairs)
      /\ OnlyInBase \in SUBSET (((DOMAIN base) \X {0}) \cup Pairs)
      /\ Differing \in SUBSET Pairs
  BY DEF OnlyInNew, OnlyInBase, Differing
<1>5. IsFiniteSet(OnlyInNew) /\ IsFiniteSet(OnlyInBase) /\ IsFiniteSet(Differing)
  BY <1>2, <1>3, <1>4, FS_Subset
<1> QED BY <1>5, FS_CardinalityType

ChangeTyped(ch) ==
  /\ ch.type \in {"inserted", "deleted", "modified"}
  /\ Cardinality(ch.old) <= 1 /\ Cardinality(ch.new) <= 1
  /\ ch.changed \subseteq Compared

TypeInv ==
  /\ ScanInv
  /\ count \in CountType /\ noted \in BOOLEAN
  /\ \A ch \in changes : ChangeTyped(ch)

LEMMA OneOrNone ==
  /\ Cardinality({}) <= 1
  /\ \A x : Cardinality({x}) <= 1
  /\ \A f, k : Cardinality(Get(f, k)) <= 1
<1>1. Cardinality({}) = 0 /\ \A x : Cardinality({x}) = 1
  BY FS_EmptySet, FS_Singleton
<1>2. Cardinality({}) <= 1
  BY <1>1
<1>3. ASSUME NEW x
      PROVE  Cardinality({x}) <= 1
  <2>1. Cardinality({x}) = 1
    BY <1>1
  <2> QED BY <2>1
<1>4. ASSUME NEW f, NEW k
      PROVE  Cardinality(Get(f, k)) <= 1
  <2>1. CASE k \in DOMAIN f
    <3>1. Get(f, k) = {f[k]}
      BY <2>1 DEF Get
    <3> QED BY <1>3, <3>1
  <2>2. CASE k \notin DOMAIN f
    <3>1. Get(f, k) = {}
      BY <2>2 DEF Get
    <3> QED BY <1>2, <3>1
  <2> QED BY <2>1, <2>2
<1> QED BY <1>2, <1>3, <1>4

LEMMA ChangesTyped ==
  ASSUME TypeInv, [Next]_vars
  PROVE  \A ch \in changes' : ChangeTyped(ch)
<1>1. CASE UNCHANGED changes
  BY <1>1 DEF TypeInv
<1>2. CASE FetchBase
  <2>1. PICK olds \in FetchRows(base, DeletedKeys \cup ModifiedKeys) :
          changes' =
            {Change("inserted", k, {}, Get(news, k), {}, <<0, 0>>) : k \in InsertedKeys} \cup
            {Change("deleted", k, Get(olds, k), {}, {}, <<0, 0>>) : k \in DeletedKeys} \cup
            {Change("modified", k, Get(olds, k), Get(news, k),
                    {c \in Compared : Cell(Get(olds, k), c) # Cell(Get(news, k), c)},
                    <<0, 0>>) : k \in ModifiedKeys}
    BY <1>2 DEF FetchBase
  <2>2. ASSUME NEW k
        PROVE  /\ ChangeTyped(Change("inserted", k, {}, Get(news, k), {}, <<0, 0>>))
               /\ ChangeTyped(Change("deleted", k, Get(olds, k), {}, {}, <<0, 0>>))
               /\ ChangeTyped(Change("modified", k, Get(olds, k), Get(news, k),
                    {c \in Compared : Cell(Get(olds, k), c) # Cell(Get(news, k), c)}, <<0, 0>>))
    BY OneOrNone DEF Change, ChangeTyped
  <2> QED BY <2>1, <2>2
<1>3. CASE ListInserted
  <2>1. \A p : ChangeTyped(Change("inserted", KeyOf(new[p[2]]), {}, {new[p[2]]}, {}, p))
    BY OneOrNone DEF Change, ChangeTyped
  <2> QED BY <1>3, <2>1 DEF ListInserted, List, TypeInv
<1>4. CASE ListDeleted
  <2>1. \A p : ChangeTyped(Change("deleted", KeyOf(base[p[1]]), {base[p[1]]}, {}, {}, p))
    BY OneOrNone DEF Change, ChangeTyped
  <2> QED BY <1>4, <2>1 DEF ListDeleted, List, TypeInv
<1>5. CASE ListModified
  <2>1. \A p : ChangeTyped(ModifiedChange(p))
    BY OneOrNone DEF ModifiedChange, Change, ChangeTyped
  <2> QED BY <1>5, <2>1 DEF ListModified, List, TypeInv
<1>6. CASE FetchInserted
  <2>1. \A j : ChangeTyped(Change("inserted", Empty, {}, {Show(new[j], Common)}, {}, <<0, j>>))
    BY OneOrNone DEF Change, ChangeTyped
  <2> QED BY <1>6, <2>1 DEF FetchInserted, List, TypeInv
<1>7. CASE FetchDeleted
  <2>1. \A i : ChangeTyped(Change("deleted", Empty, {Show(base[i], Common)}, {}, {}, <<i, 0>>))
    BY OneOrNone DEF Change, ChangeTyped
  <2> QED BY <1>7, <2>1 DEF FetchDeleted, List, TypeInv
<1> QED BY <1>1, <1>2, <1>3, <1>4, <1>5, <1>6, <1>7 DEF Next, vars, ScanBase, ScanNew, FetchNew,
    CountInserted, CountDeleted, CountModified, CountChange, CountBaseHashes, CountNewHashes, Write

LEMMA CountTyped ==
  ASSUME TypeInv, [Next]_vars
  PROVE  count' \in CountType /\ noted' \in BOOLEAN
<1>1. /\ ScanInv' /\ Placed
      /\ \A T : ScanHashes(T)' = ScanHashes(T) /\ HashCounts(T)' = HashCounts(T)
      /\ \A B \in seen'.base : IsFiniteSet(DOMAIN B)
      /\ \A N \in seen'.new : IsFiniteSet(DOMAIN N)
  <2>1. ScanInv' /\ Placed /\ Placed' /\ UNCHANGED call
    BY ScanStep, PlacedStep DEF TypeInv, ScanInv
  <2>2. \A T : ScanHashes(T)' = ScanHashes(T) /\ HashCounts(T)' = HashCounts(T)
    BY <2>1, CallKept
  <2>3. /\ \A B \in BaseTables(key') : IsFiniteSet(DOMAIN B)
        /\ \A N \in NewTables(key') : IsFiniteSet(DOMAIN N)
    BY <2>1, RowDiffAssumption DEF Placed, IsTable
  <2> QED BY <2>1, <2>2, <2>3 DEF Placed
<1>2. CASE UNCHANGED <<count, noted>>
  BY <1>2 DEF TypeInv
<1>3. CASE ScanNew
  <2>1. pc' = "fetch_new" /\ noted' = noted
    BY <1>3 DEF ScanNew, GoTo
  <2>2. PICK B \in seen'.base : scan'.base \in ScanHashes(B)
    BY <1>1, <2>1 DEF ScanInv, StreamingOrDone
  <2>3. PICK N \in seen'.new : scan'.new \in ScanHashes(N)
    BY <1>1, <2>1 DEF ScanInv, StreamingOrDone
  <2>4. /\ Cardinality(InsertedKeys') \in Nat /\ Cardinality(DeletedKeys') \in Nat
        /\ Cardinality(ModifiedKeys') \in Nat
    <3>1. PICK b \in ScanHashes(B) : b = scan'.base
      BY <2>2
    <3>2. PICK n \in ScanHashes(N) : n = scan'.new
      BY <2>3
    <3>3. IsFiniteSet(DOMAIN B) /\ IsFiniteSet(DOMAIN N)
      BY <1>1
    <3>4. /\ Cardinality(DOMAIN n \ DOMAIN b) \in Nat /\ Cardinality(DOMAIN b \ DOMAIN n) \in Nat
          /\ Cardinality({k \in DOMAIN b \cap DOMAIN n : b[k] # n[k]}) \in Nat
      BY <3>3, StreamCountsTyped
    <3> QED BY <3>1, <3>2, <3>4 DEF InsertedKeys, DeletedKeys, ModifiedKeys
  <2>5. count' \in CountType
    BY <1>3, <2>4 DEF ScanNew, CountType
  <2> QED BY <2>1, <2>5 DEF TypeInv
<1>4. CASE CountNewHashes
  <2>1. pc' = "fetch_inserted" /\ noted' \in BOOLEAN
    BY <1>4 DEF CountNewHashes, GoTo
  <2>2. PICK B \in seen'.base : scan'.base = HashCounts(B)
    BY <1>1, <2>1 DEF ScanInv, WithoutKeyOrDone
  <2>3. PICK N \in seen'.new : scan'.new = HashCounts(N)
    BY <1>1, <2>1 DEF ScanInv, WithoutKeyOrDone
  <2>4. /\ SumOf(Excess(scan'.new, scan'.base)) \in Nat
        /\ SumOf(Excess(scan'.base, scan'.new)) \in Nat
    BY <1>1, <2>2, <2>3, HashCountTyped
  <2>5. count' = HashCount'
    BY <1>1, <2>1 DEF ScanInv, WithoutKeyOrDone
  <2>6. count' \in CountType
    BY <2>4, <2>5 DEF HashCount, CountType
  <2> QED BY <2>1, <2>6
<1>5. CASE CountInserted \/ CountDeleted \/ CountModified
  BY <1>1, <1>5, JoinsFinite DEF CountInserted, CountDeleted, CountModified, CountChange, TypeInv, CountType
<1> QED BY <1>2, <1>3, <1>4, <1>5 DEF Next, vars, ScanBase, FetchNew, FetchBase, ListInserted, ListDeleted,
    ListModified, List, CountBaseHashes, FetchInserted, FetchDeleted, Write

\* Type correctness, for tables of any size and any number of writes.
THEOREM TypeCorrect == Spec => []TypeOK
<1>1. Init => count \in CountType /\ noted \in BOOLEAN /\ \A ch \in changes : ChangeTyped(ch)
  <2>1. NoCount \in CountType
    BY DEF NoCount, CountType
  <2> QED BY <2>1 DEF Init
<1>2. TypeInv /\ [Next]_vars => TypeInv'
  <2> SUFFICES ASSUME TypeInv, [Next]_vars PROVE TypeInv'
    OBVIOUS
  <2>1. ScanInv' /\ Compared' = Compared
    BY ScanStep, PlacedStep, CallKept DEF TypeInv, ScanInv
  <2> QED BY <2>1, ChangesTyped, CountTyped DEF TypeInv, ChangeTyped
<1>3. ASSUME TypeInv PROVE TypeOK
  <2>1. Placed
    BY <1>3 DEF TypeInv, ScanInv
  <2>2. IsTable(base, BaseColumns) /\ IsTable(new, NewColumns)
    BY <2>1, RowTypes
  <2> QED BY <1>3, <2>1, <2>2 DEF TypeInv, Placed, Label, ChangeTyped, CountType, TypeOK
<1>4. TypeInv => TypeOK
  BY <1>3
<1>5. Init => TypeInv
  BY <1>1, ScanInit DEF TypeInv
<1> QED BY <1>2, <1>4, <1>5, PTL DEF Spec

-----------------------------------------------------------------------------
(* The counts.  They are exact for tables whose key is one, and as far as   *)
(* hashes tell rows apart.                                                  *)

\* Rows that differ have different hashes, and no cell holds the text that
\* stands for NULL.
HashesApart ==
  /\ \A cols \in SUBSET Column : \A f, g \in [cols -> Value] : Join(f) = Join(g) => f = g
  /\ \A k \in Keys : \A T \in BaseTables(k) \cup NewTables(k) :
       \A i \in DOMAIN T : \A c \in DOMAIN T[i] : T[i][c] # Sentinel

\* A key that is used is unique and never NULL, on both sides.
KeyHolds(T, k) ==
  /\ \A i \in DOMAIN T : \A c \in k : T[i][c] # Null
  /\ \A i, j \in DOMAIN T : (\A c \in k : T[i][c] = T[j][c]) => i = j
KeysHold ==
  \A k \in Keys : k # {} /\ k \subseteq Common =>
    \A T \in BaseTables(k) \cup NewTables(k) : KeyHolds(T, k)

Clean(r) == \A c \in DOMAIN r : r[c] \in Value \cup {Null} /\ r[c] # Sentinel

Good(T, cols) ==
  /\ DOMAIN T \subseteq Nat \ {0} /\ IsFiniteSet(DOMAIN T)
  /\ \A i \in DOMAIN T : DOMAIN T[i] = cols /\ Clean(T[i])
  /\ Keyed => KeyHolds(T, key)

LEMMA SeenGood ==
  ASSUME Placed, HashesApart, Keyed => KeysHold
  PROVE  /\ \A B \in seen.base : Good(B, BaseColumns)
         /\ \A N \in seen.new : Good(N, NewColumns)
<1>1. ASSUME NEW T, NEW cols, IsTable(T, cols), T \in BaseTables(key) \cup NewTables(key)
      PROVE  Good(T, cols)
  <2>1. /\ DOMAIN T \subseteq Nat \ {0} /\ IsFiniteSet(DOMAIN T)
        /\ \A i \in DOMAIN T : T[i] \in [cols -> Value \cup {Null}]
    BY <1>1 DEF IsTable, Rows
  <2>2. \A i \in DOMAIN T : \A c \in DOMAIN T[i] : T[i][c] # Sentinel
    BY <1>1 DEF HashesApart, Placed
  <2>3. Keyed => KeyHolds(T, key)
    BY <1>1 DEF KeysHold, Placed, Keyed
  <2> QED BY <2>1, <2>2, <2>3 DEF Good, Clean
<1> QED BY <1>1, RowTypes DEF Placed

\* A hash tells what Show tells: a column that is not there is like NULL.
LEMMA HashShows ==
  ASSUME HashesApart, NEW cols \in SUBSET Column, NEW r, NEW s, Clean(r), Clean(s)
  PROVE  Hash(r, cols) = Hash(s, cols) <=> Show(r, cols) = Show(s, cols)
<1> DEFINE Text(x) == [c \in cols |-> IF c \notin DOMAIN x THEN Sentinel
                                      ELSE IF x[c] = Null THEN Sentinel ELSE x[c]]
<1>1. Text(r) \in [cols -> Value] /\ Text(s) \in [cols -> Value]
  BY RowDiffAssumption DEF Clean
<1>2. Hash(r, cols) = Join(Text(r)) /\ Hash(s, cols) = Join(Text(s))
  BY DEF Hash
<1>3. Join(Text(r)) = Join(Text(s)) <=> Text(r) = Text(s)
  <2> HIDE DEF Text
  <2> QED BY <1>1 DEF HashesApart
<1>4. \A c \in cols : Text(r)[c] = Text(s)[c] <=> Show(r, cols)[c] = Show(s, cols)[c]
  BY RowDiffAssumption DEF Clean, Show
<1>5. Text(r) = Text(s) <=> \A c \in cols : Text(r)[c] = Text(s)[c]
  OBVIOUS
<1>6. Show(r, cols) = Show(s, cols) <=> \A c \in cols : Show(r, cols)[c] = Show(s, cols)[c]
  BY DEF Show
<1> QED BY <1>2, <1>3, <1>4, <1>5, <1>6

LEMMA ComparedColumns == Compared \in SUBSET Column
  BY DEF Compared, Column, Common

\* Of a pair, the compared columns differ if what is viewed of it does.
LEMMA HashViews ==
  ASSUME HashesApart, Keyed, NEW r, NEW s, Clean(r), Clean(s), KeyOf(r) = KeyOf(s),
         key \subseteq DOMAIN r, key \subseteq DOMAIN s
  PROVE  Hash(r, Compared) = Hash(s, Compared) <=> View(r) = View(s)
<1>1. Hash(r, Compared) = Hash(s, Compared) <=> Show(r, Compared) = Show(s, Compared)
  BY HashShows, ComparedColumns
<1>2. \A c \in key : r[c] = s[c]
  <2>1. \A c \in key : KeyOf(r)[c] = r[c] /\ KeyOf(s)[c] = s[c]
    BY DEF KeyOf
  <2> QED BY <2>1
<1>3. \A c \in key : Show(r, key \cup Compared)[c] = Show(s, key \cup Compared)[c]
  BY <1>2 DEF Show
<1>4. \A c \in Compared : /\ Show(r, key \cup Compared)[c] = Show(r, Compared)[c]
                          /\ Show(s, key \cup Compared)[c] = Show(s, Compared)[c]
  BY DEF Show
<1>5. Show(r, key \cup Compared) = Show(s, key \cup Compared) <=>
        \A c \in key \cup Compared : Show(r, key \cup Compared)[c] = Show(s, key \cup Compared)[c]
  BY DEF Show
<1>6. Show(r, Compared) = Show(s, Compared) <=>
        \A c \in Compared : Show(r, Compared)[c] = Show(s, Compared)[c]
  BY DEF Show
<1> QED BY <1>1, <1>3, <1>4, <1>5, <1>6 DEF View

\* A key names one row.
LEMMA KeyNames ==
  ASSUME Keyed, NEW T, NEW cols, Good(T, cols), NEW i \in DOMAIN T, NEW j \in DOMAIN T,
         KeyOf(T[i]) = KeyOf(T[j])
  PROVE  i = j
<1>1. \A c \in key : KeyOf(T[i])[c] = T[i][c] /\ KeyOf(T[j])[c] = T[j][c]
  BY DEF KeyOf
<1>2. \A c \in key : T[i][c] = T[j][c]
  BY <1>1
<1> QED BY <1>2 DEF Good, KeyHolds

Unpaired(B, N) == {j \in DOMAIN N : \A p \in PairsOf(B, N) : p[2] # j}
UnpairedBase(B, N) == {i \in DOMAIN B : \A p \in PairsOf(B, N) : p[1] # i}
DifferingOf(B, N) == {p \in PairsOf(B, N) : View(B[p[1]]) # View(N[p[2]])}

LEMMA Unpaireds ==
  ASSUME NEW B, NEW N
  PROVE  /\ Unpaired(B, N) = {j \in DOMAIN N : \A i \in DOMAIN B : KeyOf(B[i]) # KeyOf(N[j])}
         /\ UnpairedBase(B, N) = {i \in DOMAIN B : \A j \in DOMAIN N : KeyOf(B[i]) # KeyOf(N[j])}
<1>1. \A i \in DOMAIN B, j \in DOMAIN N : <<i, j>> \in PairsOf(B, N) <=> KeyOf(B[i]) = KeyOf(N[j])
  BY DEF PairsOf
<1>2. \A p \in PairsOf(B, N) : p[1] \in DOMAIN B /\ p[2] \in DOMAIN N /\ p = <<p[1], p[2]>>
  BY DEF PairsOf
<1>3. ASSUME NEW j \in DOMAIN N
      PROVE  (\A p \in PairsOf(B, N) : p[2] # j) <=> \A i \in DOMAIN B : KeyOf(B[i]) # KeyOf(N[j])
  <2>1. ASSUME \A p \in PairsOf(B, N) : p[2] # j, NEW i \in DOMAIN B
        PROVE  KeyOf(B[i]) # KeyOf(N[j])
    <3>1. <<i, j>>[2] = j
      OBVIOUS
    <3> QED BY <1>1, <1>3, <2>1, <3>1
  <2>2. ASSUME \A i \in DOMAIN B : KeyOf(B[i]) # KeyOf(N[j]), NEW p \in PairsOf(B, N)
        PROVE  p[2] # j
    BY <1>1, <1>2, <2>2
  <2> QED BY <2>1, <2>2
<1>4. ASSUME NEW i \in DOMAIN B
      PROVE  (\A p \in PairsOf(B, N) : p[1] # i) <=> \A j \in DOMAIN N : KeyOf(B[i]) # KeyOf(N[j])
  <2>1. ASSUME \A p \in PairsOf(B, N) : p[1] # i, NEW j \in DOMAIN N
        PROVE  KeyOf(B[i]) # KeyOf(N[j])
    <3>1. <<i, j>>[1] = i
      OBVIOUS
    <3> QED BY <1>1, <1>4, <2>1, <3>1
  <2>2. ASSUME \A j \in DOMAIN N : KeyOf(B[i]) # KeyOf(N[j]), NEW p \in PairsOf(B, N)
        PROVE  p[1] # i
    BY <1>1, <1>2, <2>2
  <2> QED BY <2>1, <2>2
<1> QED BY <1>3, <1>4 DEF Unpaired, UnpairedBase

LEMMA SameSize ==
  ASSUME NEW S, IsFiniteSet(S), NEW T, NEW f \in [S -> T],
         \A x, y \in S : f[x] = f[y] => x = y,
         \A y \in T : \E x \in S : f[x] = y
  PROVE  Cardinality(T) = Cardinality(S) /\ IsFiniteSet(T)
<1>1. f \in Bijection(S, T)
  BY DEF Bijection, Injection, Surjection, IsInjective
<1> QED BY <1>1, FS_Bijection DEF ExistsBijection
\* The scan of a table holds the key of each row, with the row's own hash.
LEMMA ScanTells ==
  ASSUME Keyed, NEW T, NEW cols, Good(T, cols), NEW h \in ScanHashes(T)
  PROVE  /\ DOMAIN h = {KeyOf(T[i]) : i \in DOMAIN T}
         /\ \A i \in DOMAIN T : h[KeyOf(T[i])] = Hash(T[i], Compared)
<1>1. DOMAIN h = {KeyOf(r) : r \in Rows(T)}
  BY DEF ScanHashes
<1>2. ASSUME NEW i \in DOMAIN T
      PROVE  h[KeyOf(T[i])] = Hash(T[i], Compared)
  <2>1. PICK r \in Rows(T) : KeyOf(r) = KeyOf(T[i]) /\ h[KeyOf(T[i])] = Hash(r, Compared)
    BY <1>2 DEF ScanHashes, Rows
  <2>2. PICK j \in DOMAIN T : r = T[j]
    BY <2>1 DEF Rows
  <2>3. i = j
    BY <1>2, <2>1, <2>2, KeyNames
  <2> QED BY <2>1, <2>2, <2>3
<1> QED BY <1>1, <1>2 DEF Rows

\* The keys that only the scan of T has are as many as the rows of T without
\* a partner in U.
LEMMA KeysAreRows ==
  ASSUME Keyed, NEW T, NEW U, NEW cols, NEW cols2, Good(T, cols), Good(U, cols2),
         NEW t \in ScanHashes(T), NEW u \in ScanHashes(U)
  PROVE  Cardinality(DOMAIN t \ DOMAIN u)
           = Cardinality({j \in DOMAIN T : \A i \in DOMAIN U : KeyOf(U[i]) # KeyOf(T[j])})
<1> DEFINE S == {j \in DOMAIN T : \A i \in DOMAIN U : KeyOf(U[i]) # KeyOf(T[j])}
           f == [j \in S |-> KeyOf(T[j])]
           K == DOMAIN t \ DOMAIN u
<1>1. /\ DOMAIN t = {KeyOf(T[i]) : i \in DOMAIN T}
      /\ DOMAIN u = {KeyOf(U[i]) : i \in DOMAIN U}
  BY ScanTells
<1>2. IsFiniteSet(S)
  <2>1. IsFiniteSet(DOMAIN T) /\ S \in SUBSET DOMAIN T
    BY DEF Good
  <2> QED BY <2>1, FS_Subset
<1>3. f \in [S -> K]
  BY <1>1
<1>4. \A x, y \in S : f[x] = f[y] => x = y
  BY KeyNames
<1>5. \A k \in K : \E x \in S : f[x] = k
  BY <1>1
<1> HIDE DEF S, f, K
<1>6. Cardinality(K) = Cardinality(S)
  BY <1>2, <1>3, <1>4, <1>5, SameSize
<1> QED BY <1>6 DEF S, K

LEMMA PairOf ==
  ASSUME NEW B, NEW N, NEW p \in PairsOf(B, N)
  PROVE  /\ p[1] \in DOMAIN B /\ p[2] \in DOMAIN N /\ p = <<p[1], p[2]>>
         /\ KeyOf(B[p[1]]) = KeyOf(N[p[2]])
  BY DEF PairsOf

\* For the hashes of a pair to differ is for what is viewed of it to differ.
LEMMA PairDiffers ==
  ASSUME HashesApart, Keyed, NEW B, NEW N, Good(B, BaseColumns), Good(N, NewColumns),
         NEW p \in PairsOf(B, N)
  PROVE  Hash(B[p[1]], Compared) # Hash(N[p[2]], Compared) <=> View(B[p[1]]) # View(N[p[2]])
<1>1. /\ p[1] \in DOMAIN B /\ p[2] \in DOMAIN N
      /\ KeyOf(B[p[1]]) = KeyOf(N[p[2]])
  BY PairOf
<1>2. /\ Clean(B[p[1]]) /\ Clean(N[p[2]])
      /\ key \subseteq DOMAIN B[p[1]] /\ key \subseteq DOMAIN N[p[2]]
  BY <1>1 DEF Good, Keyed, Common
<1> DEFINE r == B[p[1]]
           s == N[p[2]]
<1> HIDE DEF r, s
<1>3. Clean(r) /\ Clean(s) /\ key \subseteq DOMAIN r /\ key \subseteq DOMAIN s /\ KeyOf(r) = KeyOf(s)
  BY <1>1, <1>2 DEF r, s
<1>4. Hash(r, Compared) = Hash(s, Compared) <=> View(r) = View(s)
  BY <1>3, HashViews
<1> QED BY <1>4 DEF r, s

\* Keys with two hashes are as many as pairs that differ.
LEMMA KeysArePairs ==
  ASSUME HashesApart, Keyed, NEW B, NEW N, Good(B, BaseColumns), Good(N, NewColumns),
         NEW b \in ScanHashes(B), NEW n \in ScanHashes(N)
  PROVE  Cardinality({k \in DOMAIN b \cap DOMAIN n : b[k] # n[k]}) = Cardinality(DifferingOf(B, N))
<1> DEFINE S == DifferingOf(B, N)
           f == [p \in S |-> KeyOf(B[p[1]])]
           K == {k \in DOMAIN b \cap DOMAIN n : b[k] # n[k]}
<1>1. /\ DOMAIN b = {KeyOf(B[i]) : i \in DOMAIN B}
      /\ \A i \in DOMAIN B : b[KeyOf(B[i])] = Hash(B[i], Compared)
      /\ DOMAIN n = {KeyOf(N[i]) : i \in DOMAIN N}
      /\ \A i \in DOMAIN N : n[KeyOf(N[i])] = Hash(N[i], Compared)
  BY ScanTells
<1>2. IsFiniteSet(S)
  <2>1. IsFiniteSet(PairsOf(B, N)) /\ S \in SUBSET PairsOf(B, N)
    BY PairsFinite DEF Good, DifferingOf
  <2> QED BY <2>1, FS_Subset
<1>3. ASSUME NEW p \in S
      PROVE  KeyOf(B[p[1]]) \in K
  <2>1. p \in PairsOf(B, N) /\ View(B[p[1]]) # View(N[p[2]])
    BY <1>3 DEF DifferingOf
  <2>2. /\ p[1] \in DOMAIN B /\ p[2] \in DOMAIN N /\ KeyOf(B[p[1]]) = KeyOf(N[p[2]])
        /\ Hash(B[p[1]], Compared) # Hash(N[p[2]], Compared)
    BY <2>1, PairOf, PairDiffers
  <2> QED BY <1>1, <2>2
<1>4. ASSUME NEW p \in S, NEW q \in S, KeyOf(B[p[1]]) = KeyOf(B[q[1]])
      PROVE  p = q
  <2>1. /\ p[1] \in DOMAIN B /\ p[2] \in DOMAIN N /\ p = <<p[1], p[2]>>
        /\ KeyOf(B[p[1]]) = KeyOf(N[p[2]])
    BY PairOf, <1>4 DEF DifferingOf
  <2>2. /\ q[1] \in DOMAIN B /\ q[2] \in DOMAIN N /\ q = <<q[1], q[2]>>
        /\ KeyOf(B[q[1]]) = KeyOf(N[q[2]])
    BY PairOf, <1>4 DEF DifferingOf
  <2>3. p[1] = q[1]
    BY <1>4, <2>1, <2>2, KeyNames
  <2>4. p[2] = q[2]
    BY <1>4, <2>1, <2>2, KeyNames
  <2> QED BY <2>1, <2>2, <2>3, <2>4
<1>5. ASSUME NEW k \in K
      PROVE  \E p \in S : KeyOf(B[p[1]]) = k
  <2>1. PICK i \in DOMAIN B : KeyOf(B[i]) = k
    BY <1>1, <1>5
  <2>2. PICK j \in DOMAIN N : KeyOf(N[j]) = k
    BY <1>1, <1>5
  <2>3. Hash(B[i], Compared) # Hash(N[j], Compared)
    BY <1>1, <1>5, <2>1, <2>2
  <2> DEFINE p == <<i, j>>
  <2>4. p[1] = i /\ p[2] = j /\ p \in PairsOf(B, N)
    BY <2>1, <2>2 DEF PairsOf
  <2> HIDE DEF p
  <2>5. View(B[p[1]]) # View(N[p[2]])
    BY <2>3, <2>4, PairDiffers
  <2>6. p \in S
    BY <2>4, <2>5 DEF DifferingOf
  <2> QED BY <2>1, <2>4, <2>6
<1>6. f \in [S -> K] /\ \A p, q \in S : f[p] = f[q] => p = q
  <2> HIDE DEF S, K
  <2> QED BY <1>3, <1>4
<1>7. \A k \in K : \E p \in S : f[p] = k
  <2> HIDE DEF S, K
  <2> QED BY <1>5
<1> HIDE DEF S, f, K
<1>8. Cardinality(K) = Cardinality(S)
  BY <1>2, <1>6, <1>7, SameSize
<1> QED BY <1>8 DEF S, K
\* The joins in SQL find the rows without a partner and the pairs that differ.
LEMMA JoinsTell ==
  ASSUME Placed, HashesApart, KeysHold, Keyed
  PROVE  /\ OnlyInNew = {<<0, j>> : j \in Unpaired(base, new)}
         /\ OnlyInBase = {<<i, 0>> : i \in UnpairedBase(base, new)}
         /\ Differing = DifferingOf(base, new)
<1>1. Good(base, BaseColumns) /\ Good(new, NewColumns)
  BY SeenGood DEF Placed
<1>2. FirstKey \in key
  BY RowDiffAssumption DEF Placed, Keyed
<1>3. \A p \in Pairs : base[p[1]][FirstKey] # Null /\ new[p[2]][FirstKey] # Null
  <2>1. \A p \in Pairs : p[1] \in DOMAIN base /\ p[2] \in DOMAIN new
    BY DEF Pairs, PairsOf
  <2>2. KeyHolds(base, key) /\ KeyHolds(new, key)
    BY <1>1 DEF Good
  <2> QED BY <1>2, <2>1, <2>2 DEF KeyHolds
<1>4. OnlyInNew = {<<0, j>> : j \in Unpaired(base, new)}
  BY <1>3 DEF OnlyInNew, Unpaired, Pairs
<1>5. OnlyInBase = {<<i, 0>> : i \in UnpairedBase(base, new)}
  BY <1>3 DEF OnlyInBase, UnpairedBase, Pairs
<1>6. \A p \in Pairs : Hash(base[p[1]], Compared) # Hash(new[p[2]], Compared)
                         <=> View(base[p[1]]) # View(new[p[2]])
  BY <1>1, PairDiffers DEF Pairs
<1> QED BY <1>4, <1>5, <1>6 DEF Differing, DifferingOf, Pairs

LEMMA UnpairedFinite ==
  ASSUME NEW B, NEW N, IsFiniteSet(DOMAIN B), IsFiniteSet(DOMAIN N)
  PROVE  /\ IsFiniteSet(Unpaired(B, N)) /\ IsFiniteSet(UnpairedBase(B, N))
         /\ IsFiniteSet(DifferingOf(B, N))
<1>1. /\ Unpaired(B, N) \in SUBSET DOMAIN N /\ UnpairedBase(B, N) \in SUBSET DOMAIN B
      /\ DifferingOf(B, N) \in SUBSET PairsOf(B, N)
  BY DEF Unpaired, UnpairedBase, DifferingOf
<1> QED BY <1>1, PairsFinite, FS_Subset

LEMMA JoinCounts ==
  ASSUME Placed, HashesApart, KeysHold, Keyed
  PROVE  /\ Cardinality(OnlyInNew) = Cardinality(Unpaired(base, new))
         /\ Cardinality(OnlyInBase) = Cardinality(UnpairedBase(base, new))
         /\ Cardinality(Differing) = Cardinality(DifferingOf(base, new))
<1>1. IsFiniteSet(Unpaired(base, new)) /\ IsFiniteSet(UnpairedBase(base, new))
  BY UnpairedFinite, RowTypes DEF IsTable
<1>2. ASSUME NEW S, IsFiniteSet(S)
      PROVE  /\ Cardinality({<<0, j>> : j \in S}) = Cardinality(S)
             /\ Cardinality({<<i, 0>> : i \in S}) = Cardinality(S)
  <2> DEFINE f == [j \in S |-> <<0, j>>]
             g == [i \in S |-> <<i, 0>>]
             F == {<<0, j>> : j \in S}
             G == {<<i, 0>> : i \in S}
  <2>1. f \in [S -> F] /\ (\A x, y \in S : f[x] = f[y] => x = y) /\ \A y \in F : \E x \in S : f[x] = y
    OBVIOUS
  <2>2. g \in [S -> G] /\ (\A x, y \in S : g[x] = g[y] => x = y) /\ \A y \in G : \E x \in S : g[x] = y
    OBVIOUS
  <2>3. Cardinality(F) = Cardinality(S)
    <3> HIDE DEF f, F
    <3> QED BY <1>2, <2>1, SameSize
  <2>4. Cardinality(G) = Cardinality(S)
    <3> HIDE DEF g, G
    <3> QED BY <1>2, <2>2, SameSize
  <2> QED BY <2>3, <2>4
<1> QED BY <1>1, <1>2, JoinsTell

-----------------------------------------------------------------------------
(* Without a key: hashes are counted, copies are meant.                     *)

LEMMA HashCopies ==
  ASSUME HashesApart, ~Keyed, NEW T, NEW cols, Good(T, cols), NEW r, Clean(r)
  PROVE  /\ Copies(T, View(r)) \in Nat
         /\ Hash(r, Compared) \in DOMAIN HashCounts(T) =>
              HashCounts(T)[Hash(r, Compared)] = Copies(T, View(r))
         /\ Hash(r, Compared) \notin DOMAIN HashCounts(T) => Copies(T, View(r)) = 0
<1> DEFINE h == Hash(r, Compared)
           I == {i \in DOMAIN T : View(T[i]) = View(r)}
<1>1. \A i \in DOMAIN T : Hash(T[i], Compared) = h <=> View(T[i]) = View(r)
  <2> SUFFICES ASSUME NEW i \in DOMAIN T
               PROVE  Hash(T[i], Compared) = h <=> View(T[i]) = View(r)
    OBVIOUS
  <2>1. Clean(T[i])
    BY DEF Good
  <2>2. Hash(T[i], Compared) = Hash(r, Compared) <=> Show(T[i], Compared) = Show(r, Compared)
    BY <2>1, HashShows, ComparedColumns
  <2> QED BY <2>2 DEF View
<1>2. {i \in DOMAIN T : Hash(T[i], Compared) = h} = I
  BY <1>1
<1>3. DOMAIN HashCounts(T) = {Hash(T[i], Compared) : i \in DOMAIN T}
  BY DEF HashCounts, Rows
<1>4. IsFiniteSet(I)
  <2>1. IsFiniteSet(DOMAIN T) /\ I \in SUBSET DOMAIN T
    BY DEF Good
  <2> QED BY <2>1, FS_Subset
<1>5. Copies(T, View(r)) = Cardinality(I)
  BY DEF Copies
<1>6. h \in DOMAIN HashCounts(T) => HashCounts(T)[h] = Cardinality(I)
  BY <1>2 DEF HashCounts
<1>7. h \notin DOMAIN HashCounts(T) => I = {}
  BY <1>1, <1>3
<1>8. Cardinality(I) \in Nat /\ Cardinality({}) = 0
  BY <1>4, FS_CardinalityType, FS_EmptySet
<1> HIDE DEF I
<1> QED BY <1>5, <1>6, <1>7, <1>8

\* What is viewed of a row hashes like the row.
LEMMA ViewHashes ==
  ASSUME ~Keyed, NEW r
  PROVE  Hash(View(r), Compared) = Hash(r, Compared)
<1>1. View(r) = Show(r, Compared)
  BY DEF View
<1>2. \A c \in Compared :
        (IF c \notin DOMAIN r THEN Sentinel ELSE IF r[c] = Null THEN Sentinel ELSE r[c])
          = (IF c \notin DOMAIN Show(r, Compared) THEN Sentinel
             ELSE IF Show(r, Compared)[c] = Null THEN Sentinel ELSE Show(r, Compared)[c])
  BY DEF Show
<1>3. [c \in Compared |-> IF c \notin DOMAIN r THEN Sentinel ELSE IF r[c] = Null THEN Sentinel ELSE r[c]]
        = [c \in Compared |-> IF c \notin DOMAIN Show(r, Compared) THEN Sentinel
             ELSE IF Show(r, Compared)[c] = Null THEN Sentinel ELSE Show(r, Compared)[c]]
  BY <1>2
<1> QED BY <1>1, <1>3 DEF Hash

\* Of the hash of a row T has as many in excess as it has more copies.
LEMMA ExcessCopies ==
  ASSUME HashesApart, ~Keyed, NEW T, NEW U, NEW cols, NEW cols2, Good(T, cols), Good(U, cols2),
         NEW r, Clean(r)
  PROVE  LET X == Excess(HashCounts(T), HashCounts(U))
             h == Hash(r, Compared)
         IN /\ h \in DOMAIN X <=> Copies(T, View(r)) > Copies(U, View(r))
            /\ h \in DOMAIN X => X[h] = Copies(T, View(r)) - Copies(U, View(r))
<1> DEFINE h == Hash(r, Compared)
           a == HashCounts(T)
           b == HashCounts(U)
           m == Copies(T, View(r))
           n == Copies(U, View(r))
<1>1. m \in Nat /\ (h \in DOMAIN a => a[h] = m) /\ (h \notin DOMAIN a => m = 0)
  BY HashCopies
<1>2. n \in Nat /\ (h \in DOMAIN b => b[h] = n) /\ (h \notin DOMAIN b => n = 0)
  BY HashCopies
<1> HIDE DEF h, a, b, m, n
<1>3. DOMAIN Excess(a, b) = {x \in DOMAIN a : a[x] > (IF x \in DOMAIN b THEN b[x] ELSE 0)}
  BY DEF Excess
<1>4. \A x \in DOMAIN Excess(a, b) : Excess(a, b)[x] = a[x] - (IF x \in DOMAIN b THEN b[x] ELSE 0)
  BY DEF Excess
<1>5. h \in DOMAIN Excess(a, b) <=> m > n
  BY <1>1, <1>2, <1>3
<1>6. h \in DOMAIN Excess(a, b) => Excess(a, b)[h] = m - n
  BY <1>1, <1>2, <1>3, <1>4
<1> QED BY <1>5, <1>6 DEF h, a, b, m, n

CopiesOver(T, U) == [v \in Views(T, U) |-> Over(Copies(T, v), Copies(U, v))]

LEMMA CopiesOverCounts ==
  ASSUME HashesApart, ~Keyed, NEW T, NEW U, NEW cols, NEW cols2, Good(T, cols), Good(U, cols2)
  PROVE  IsCounter(CopiesOver(T, U))
<1>1. IsFiniteSet(Rows(T) \cup Rows(U))
  BY RowsFinite, FS_Union DEF Good
<1> DEFINE f == [r \in Rows(T) \cup Rows(U) |-> View(r)]
<1>2. DOMAIN CopiesOver(T, U) = {f[r] : r \in Rows(T) \cup Rows(U)}
  BY DEF CopiesOver, Views
<1>3. IsFiniteSet(DOMAIN CopiesOver(T, U))
  <2> HIDE DEF f
  <2> QED BY <1>1, <1>2, ImageFinite
<1>4. ASSUME NEW v \in DOMAIN CopiesOver(T, U)
      PROVE  CopiesOver(T, U)[v] \in Nat
  <2>1. PICK r \in Rows(T) \cup Rows(U) : v = View(r)
    BY <1>4 DEF CopiesOver, Views
  <2>2. Clean(r)
    BY <2>1 DEF Good, Rows
  <2>3. Copies(T, v) \in Nat /\ Copies(U, v) \in Nat
    BY <2>1, <2>2, HashCopies
  <2>4. Over(Copies(T, v), Copies(U, v)) \in Nat
    BY <2>3 DEF Over
  <2> QED BY <2>4 DEF CopiesOver
<1> QED BY <1>3, <1>4 DEF IsCounter
LEMMA UnitOf ==
  ASSUME NEW f
  PROVE  /\ \A h \in DOMAIN f : \A n \in 1..f[h] : <<h, n>> \in Units(f)
         /\ \A u \in Units(f) : u = <<u[1], u[2]>> /\ u[1] \in DOMAIN f /\ u[2] \in 1..f[u[1]]
  BY DEF Units

\* The excess hashes are as many as the copies that T has more of.
LEMMA SameSums ==
  ASSUME HashesApart, ~Keyed, NEW T, NEW U, NEW cols, NEW cols2, Good(T, cols), Good(U, cols2)
  PROVE  SumOf(Excess(HashCounts(T), HashCounts(U))) = SumOf(CopiesOver(T, U))
<1> DEFINE X == Excess(HashCounts(T), HashCounts(U))
           G == CopiesOver(T, U)
           f == [u \in Units(G) |-> <<Hash(u[1], Compared), u[2]>>]
<1>1. IsCounter(X) /\ IsCounter(G)
  BY HashCountsTyped, ExcessTyped, CopiesOverCounts DEF Good
<1>2. \A r \in Rows(T) \cup Rows(U) : Clean(r)
  BY DEF Good, Rows
<1>3. ASSUME NEW r \in Rows(T) \cup Rows(U)
      PROVE  /\ View(r) \in DOMAIN G
             /\ Hash(r, Compared) \in DOMAIN X => X[Hash(r, Compared)] = G[View(r)]
             /\ Hash(r, Compared) \notin DOMAIN X => G[View(r)] = 0
  <2> DEFINE h == Hash(r, Compared)
             m == Copies(T, View(r))
             n == Copies(U, View(r))
  <2>1. Clean(r)
    BY <1>2, <1>3
  <2>2. m \in Nat /\ n \in Nat
    BY <2>1, HashCopies
  <2>3. (h \in DOMAIN X <=> m > n) /\ (h \in DOMAIN X => X[h] = m - n)
    BY <2>1, ExcessCopies
  <2>4. View(r) \in DOMAIN G /\ G[View(r)] = Over(m, n)
    BY <1>3 DEF CopiesOver, Views
  <2> HIDE DEF h, m, n, X, G
  <2>5. (h \in DOMAIN X => X[h] = G[View(r)]) /\ (h \notin DOMAIN X => G[View(r)] = 0)
    BY <2>2, <2>3, <2>4 DEF Over
  <2> QED BY <2>4, <2>5 DEF h
<1>4. ASSUME NEW u \in Units(G)
      PROVE  \E r \in Rows(T) \cup Rows(U) :
               /\ u = <<View(r), u[2]>> /\ u[2] \in 1..G[View(r)]
               /\ f[u] = <<Hash(r, Compared), u[2]>> /\ Hash(r, Compared) \in DOMAIN X
               /\ X[Hash(r, Compared)] = G[View(r)]
  <2>1. u = <<u[1], u[2]>> /\ u[1] \in DOMAIN G /\ u[2] \in 1..G[u[1]]
    BY UnitOf, <1>4
  <2>2. PICK r \in Rows(T) \cup Rows(U) : u[1] = View(r)
    BY <2>1 DEF CopiesOver, Views
  <2>3. Hash(u[1], Compared) = Hash(r, Compared)
    BY <2>2, ViewHashes
  <2>4. G[View(r)] # 0
    <3> HIDE DEF G
    <3> QED BY <2>1, <2>2
  <2>5. Hash(r, Compared) \in DOMAIN X /\ X[Hash(r, Compared)] = G[View(r)]
    BY <1>3, <2>2, <2>4
  <2>6. f[u] = <<Hash(r, Compared), u[2]>>
    BY <2>3, <1>4
  <2> HIDE DEF f, G, X
  <2> QED BY <2>1, <2>2, <2>5, <2>6
<1>5. f \in [Units(G) -> Units(X)]
  <2>1. \A u \in Units(G) : f[u] \in Units(X)
    <3> SUFFICES ASSUME NEW u \in Units(G) PROVE f[u] \in Units(X)
      OBVIOUS
    <3>1. PICK r \in Rows(T) \cup Rows(U) :
               /\ u = <<View(r), u[2]>> /\ u[2] \in 1..G[View(r)]
               /\ f[u] = <<Hash(r, Compared), u[2]>> /\ Hash(r, Compared) \in DOMAIN X
               /\ X[Hash(r, Compared)] = G[View(r)]
      BY <1>4
    <3> HIDE DEF f, G, X
    <3> QED BY <3>1, UnitOf
  <2> HIDE DEF G, X
  <2> QED BY <2>1
<1>6. ASSUME NEW u \in Units(G), NEW w \in Units(G), f[u] = f[w]
      PROVE  u = w
  <2>1. PICK r \in Rows(T) \cup Rows(U) :
             u = <<View(r), u[2]>> /\ f[u] = <<Hash(r, Compared), u[2]>>
    BY <1>4
  <2>2. PICK s \in Rows(T) \cup Rows(U) :
             w = <<View(s), w[2]>> /\ f[w] = <<Hash(s, Compared), w[2]>>
    BY <1>4
  <2> HIDE DEF f, G
  <2>3. Hash(r, Compared) = Hash(s, Compared) /\ u[2] = w[2]
    <3>1. <<Hash(r, Compared), u[2]>> = <<Hash(s, Compared), w[2]>>
      <4>1. f[u] = f[w] /\ f[u] = <<Hash(r, Compared), u[2]>> /\ f[w] = <<Hash(s, Compared), w[2]>>
        BY <1>6, <2>1, <2>2
      <4> QED BY <4>1
    <3>2. \A a, b, c, d : <<a, b>> = <<c, d>> => a = c /\ b = d
      OBVIOUS
    <3> QED BY <3>1, <3>2
  <2>4. Show(r, Compared) = Show(s, Compared)
    BY <1>2, <2>3, HashShows, ComparedColumns
  <2>5. View(r) = View(s)
    BY <2>4 DEF View
  <2> QED BY <2>1, <2>2, <2>3, <2>5
<1>7. ASSUME NEW x \in Units(X)
      PROVE  \E u \in Units(G) : f[u] = x
  <2>1. x = <<x[1], x[2]>> /\ x[1] \in DOMAIN X /\ x[2] \in 1..X[x[1]]
    BY UnitOf, <1>7
  <2>2. PICK r \in Rows(T) : x[1] = Hash(r, Compared)
    BY <2>1 DEF Excess, HashCounts
  <2>3. View(r) \in DOMAIN G /\ X[x[1]] = G[View(r)]
    BY <1>3, <2>1, <2>2
  <2> DEFINE u == <<View(r), x[2]>>
  <2>4. u \in Units(G)
    <3> HIDE DEF G, X
    <3> QED BY <2>1, <2>3, UnitOf
  <2>5. u[1] = View(r) /\ u[2] = x[2]
    OBVIOUS
  <2>6. f[u] = <<Hash(View(r), Compared), x[2]>>
    BY <2>4, <2>5
  <2>7. f[u] = x
    <3>1. Hash(View(r), Compared) = x[1]
      BY <2>2, ViewHashes
    <3> HIDE DEF f, u
    <3> QED BY <2>1, <2>6, <3>1
  <2> HIDE DEF f, G, u
  <2> QED BY <2>4, <2>7
<1>8. IsFiniteSet(Units(G)) /\ SumOf(G) = Cardinality(Units(G))
  <2> HIDE DEF G
  <2> QED BY <1>1, UnitsFinite
<1>9. SumOf(X) = Cardinality(Units(X))
  <2> HIDE DEF X
  <2> QED BY <1>1, UnitsFinite
<1>10. Cardinality(Units(X)) = Cardinality(Units(G))
  <2> HIDE DEF X, G, f
  <2> QED BY <1>5, <1>6, <1>7, <1>8, SameSize
<1> QED BY <1>8, <1>9, <1>10

LEMMA KeylessSums ==
  ASSUME HashesApart, ~Keyed, NEW B, NEW N, NEW cols, NEW cols2, Good(B, cols), Good(N, cols2)
  PROVE  /\ SumOf(Excess(HashCounts(N), HashCounts(B)))
              = SumOf([v \in Views(B, N) |-> Over(Copies(N, v), Copies(B, v))])
         /\ SumOf(Excess(HashCounts(B), HashCounts(N)))
              = SumOf([v \in Views(B, N) |-> Over(Copies(B, v), Copies(N, v))])
<1>1. Views(B, N) = Views(N, B)
  BY DEF Views
<1> QED BY <1>1, SameSums DEF CopiesOver

-----------------------------------------------------------------------------
(* The counts are those of one moment.                                      *)

CountOf(B, N) ==
  IF Keyed
  THEN [inserted |-> Cardinality(Unpaired(B, N)), deleted |-> Cardinality(UnpairedBase(B, N)),
        modified |-> Cardinality(DifferingOf(B, N))]
  ELSE [inserted |-> SumOf([v \in Views(B, N) |-> Over(Copies(N, v), Copies(B, v))]),
        deleted |-> SumOf([v \in Views(B, N) |-> Over(Copies(B, v), Copies(N, v))]),
        modified |-> 0]

LEMMA ExactlyIs ==
  ASSUME NEW B, NEW N, NEW type \in {"inserted", "deleted", "modified"}
  PROVE  Exactly(type, B, N) <=> count[type] = CountOf(B, N)[type]
<1>1. CASE type = "inserted"
  BY <1>1 DEF Exactly, CountOf, Unpaired
<1>2. CASE type = "deleted"
  BY <1>2 DEF Exactly, CountOf, UnpairedBase
<1>3. CASE type = "modified"
  BY <1>3 DEF Exactly, CountOf, DifferingOf
<1> QED BY <1>1, <1>2, <1>3

\* Two scans give the counts of what was scanned.
LEMMA StreamExact ==
  ASSUME HashesApart, Keyed, NEW B, NEW N, Good(B, BaseColumns), Good(N, NewColumns),
         scan.base \in ScanHashes(B), scan.new \in ScanHashes(N)
  PROVE  StreamCounts = CountOf(B, N)
<1> DEFINE b == scan.base
           n == scan.new
<1> HIDE DEF b, n
<1>1. b \in ScanHashes(B) /\ n \in ScanHashes(N)
  BY DEF b, n
<1>2. /\ Cardinality(DOMAIN n \ DOMAIN b) = Cardinality(Unpaired(B, N))
      /\ Cardinality(DOMAIN b \ DOMAIN n) = Cardinality(UnpairedBase(B, N))
  <2>1. Cardinality(DOMAIN n \ DOMAIN b)
          = Cardinality({j \in DOMAIN N : \A i \in DOMAIN B : KeyOf(B[i]) # KeyOf(N[j])})
    BY <1>1, KeysAreRows
  <2>2. Cardinality(DOMAIN b \ DOMAIN n)
          = Cardinality({i \in DOMAIN B : \A j \in DOMAIN N : KeyOf(N[j]) # KeyOf(B[i])})
    BY <1>1, KeysAreRows
  <2>3. {i \in DOMAIN B : \A j \in DOMAIN N : KeyOf(N[j]) # KeyOf(B[i])} = UnpairedBase(B, N)
    BY Unpaireds
  <2>4. {j \in DOMAIN N : \A i \in DOMAIN B : KeyOf(B[i]) # KeyOf(N[j])} = Unpaired(B, N)
    BY Unpaireds
  <2> QED BY <2>1, <2>2, <2>3, <2>4
<1>3. Cardinality({k \in DOMAIN b \cap DOMAIN n : b[k] # n[k]}) = Cardinality(DifferingOf(B, N))
  BY <1>1, KeysArePairs
<1> QED BY <1>2, <1>3 DEF StreamCounts, CountOf, InsertedKeys, DeletedKeys, ModifiedKeys, b, n

LEMMA HashExact ==
  ASSUME HashesApart, ~Keyed, NEW B, NEW N, Good(B, BaseColumns), Good(N, NewColumns),
         scan.base = HashCounts(B), scan.new = HashCounts(N)
  PROVE  HashCount = CountOf(B, N)
  BY KeylessSums DEF HashCount, CountOf
\* In SQL each type of change is counted in a statement of its own.
SqlCounted(type) ==
  /\ Keyed /\ same_server
  /\ pc \notin {"count"} \cup
        (IF type = "inserted" THEN {}
         ELSE IF type = "deleted" THEN {"count_deleted"} ELSE {"count_deleted", "count_modified"})

ChangeTypes == {"inserted", "deleted", "modified"}

\* The number counted is that of some contents of the two sides.
OfAMoment(type) ==
  \E B \in seen.base, N \in seen.new : count[type] = CountOf(B, N)[type]

MomentInv ==
  /\ TypeInv
  /\ \A type \in ChangeTypes : SqlCounted(type) => OfAMoment(type)

LEMMA CountOfKept ==
  ASSUME UNCHANGED call
  PROVE  \A B, N : CountOf(B, N)' = CountOf(B, N)
<1>1. /\ Keyed' = Keyed
      /\ \A r : View(r)' = View(r)
      /\ \A B, N : PairsOf(B, N)' = PairsOf(B, N) /\ Views(B, N)' = Views(B, N)
      /\ \A T, v : Copies(T, v)' = Copies(T, v)
  BY CallKept
<1> SUFFICES ASSUME NEW B, NEW N PROVE CountOf(B, N)' = CountOf(B, N)
  OBVIOUS
<1>2. /\ Unpaired(B, N)' = Unpaired(B, N) /\ UnpairedBase(B, N)' = UnpairedBase(B, N)
      /\ DifferingOf(B, N)' = DifferingOf(B, N)
  BY <1>1 DEF Unpaired, UnpairedBase, DifferingOf
<1>3. /\ [v \in Views(B, N) |-> Over(Copies(N, v), Copies(B, v))]'
           = [v \in Views(B, N) |-> Over(Copies(N, v), Copies(B, v))]
      /\ [v \in Views(B, N) |-> Over(Copies(B, v), Copies(N, v))]'
           = [v \in Views(B, N) |-> Over(Copies(B, v), Copies(N, v))]
  BY <1>1
<1> QED BY <1>1, <1>2, <1>3 DEF CountOf

\* A number once counted is of a moment for good.
LEMMA MomentKept ==
  ASSUME Placed, [Next]_vars, NEW type, count'[type] = count[type], OfAMoment(type)
  PROVE  OfAMoment(type)'
<1>1. UNCHANGED call /\ seen.base \subseteq seen'.base /\ seen.new \subseteq seen'.new
  BY PlacedStep
<1>2. \A B, N : CountOf(B, N)' = CountOf(B, N)
  BY <1>1, CountOfKept
<1> QED BY <1>1, <1>2 DEF OfAMoment

LEMMA SqlCountsNow ==
  ASSUME Placed, HashesApart, KeysHold, Keyed
  PROVE  /\ Cardinality(OnlyInNew) = CountOf(base, new).inserted
         /\ Cardinality(OnlyInBase) = CountOf(base, new).deleted
         /\ Cardinality(Differing) = CountOf(base, new).modified
  BY JoinCounts DEF CountOf

LEMMA TypeStep ==
  ASSUME TypeInv, [Next]_vars
  PROVE  TypeInv'
<1>1. ScanInv' /\ Compared' = Compared
  BY ScanStep, PlacedStep, CallKept DEF TypeInv, ScanInv
<1> QED BY <1>1, ChangesTyped, CountTyped DEF TypeInv, ChangeTyped

LEMMA TypeInit == Init => TypeInv
<1>1. NoCount \in CountType
  BY DEF NoCount, CountType
<1> QED BY <1>1, ScanInit DEF Init, TypeInv

\* One statement counts one type of change.
LEMMA MomentCounted ==
  ASSUME MomentInv, [Next]_vars, HashesApart, KeysHold, NEW type \in ChangeTypes,
         NEW label, NEW rows, NEW next, CountChange(label, type, rows, next),
         Cardinality(rows) = CountOf(base, new)[type]
  PROVE  /\ OfAMoment(type)'
         /\ \A other \in ChangeTypes \ {type} : count'[other] = count[other]
<1>1. Placed /\ Placed' /\ UNCHANGED call /\ count \in CountType
  BY PlacedStep DEF MomentInv, TypeInv, ScanInv
<1>2. count' = [count EXCEPT ![type] = Cardinality(rows)] /\ UNCHANGED <<base, new, seen>>
  BY DEF CountChange, sides
<1>3. count'[type] = CountOf(base, new)[type]
  BY <1>1, <1>2 DEF CountType, ChangeTypes
<1>4. CountOf(base, new)' = CountOf(base, new)
  <2>1. \A B, N : CountOf(B, N)' = CountOf(B, N)
    BY <1>1, CountOfKept
  <2> QED BY <1>2, <2>1 DEF CountOf
<1>5. OfAMoment(type)'
  <2>1. base' \in seen'.base /\ new' \in seen'.new
    BY <1>1 DEF Placed
  <2> QED BY <1>3, <1>4, <2>1 DEF OfAMoment
<1> QED BY <1>1, <1>2, <1>5 DEF CountType, ChangeTypes
LEMMA MomentStep ==
  ASSUME MomentInv, [Next]_vars, HashesApart, KeysHold
  PROVE  MomentInv'
<1>1. Placed /\ Placed' /\ UNCHANGED call /\ TypeInv' /\ Keyed' = Keyed /\ same_server' = same_server
  BY PlacedStep, TypeStep, CallKept DEF MomentInv, TypeInv, ScanInv, call
<1> SUFFICES ASSUME NEW type \in ChangeTypes, SqlCounted(type)'
             PROVE  OfAMoment(type)'
  BY <1>1 DEF MomentInv, ChangeTypes
<1>2. Keyed /\ same_server
  BY <1>1 DEF SqlCounted
<1>3. ASSUME SqlCounted(type), count'[type] = count[type]
      PROVE  OfAMoment(type)'
  BY <1>1, <1>3, MomentKept DEF MomentInv
<1>4. CASE CountInserted
  <2>1. pc' = "count_deleted"
    BY <1>4 DEF CountInserted, CountChange, GoTo
  <2>2. type = "inserted"
    BY <2>1 DEF SqlCounted, ChangeTypes
  <2>3. /\ CountChange("count", type, OnlyInNew, "count_deleted")
        /\ Cardinality(OnlyInNew) = CountOf(base, new)[type]
    BY <1>1, <1>2, <1>4, <2>2, SqlCountsNow DEF CountInserted
  <2> QED BY <2>3, MomentCounted
<1>5. CASE CountDeleted
  <2>1. pc = "count_deleted" /\ pc' = "count_modified"
    BY <1>5 DEF CountDeleted, CountChange, GoTo
  <2>2. /\ CountChange("count_deleted", "deleted", OnlyInBase, "count_modified")
        /\ Cardinality(OnlyInBase) = CountOf(base, new)["deleted"]
    BY <1>1, <1>2, <1>5, SqlCountsNow DEF CountDeleted
  <2>3. OfAMoment("deleted")' /\ count'["inserted"] = count["inserted"]
    BY <2>2, MomentCounted DEF ChangeTypes
  <2>4. CASE type = "deleted"
    BY <2>3, <2>4
  <2>5. CASE type = "inserted"
    <3>1. SqlCounted(type)
      BY <1>2, <2>1, <2>5 DEF SqlCounted
    <3> QED BY <1>3, <2>3, <2>5, <3>1
  <2>6. CASE type = "modified"
    BY <2>1, <2>6 DEF SqlCounted
  <2> QED BY <2>4, <2>5, <2>6 DEF ChangeTypes
<1>6. CASE CountModified
  <2>1. pc = "count_modified" /\ pc' = "list_inserted"
    BY <1>6 DEF CountModified, CountChange, GoTo
  <2>2. /\ CountChange("count_modified", "modified", Differing, "list_inserted")
        /\ Cardinality(Differing) = CountOf(base, new)["modified"]
    BY <1>1, <1>2, <1>6, SqlCountsNow DEF CountModified
  <2>3. /\ OfAMoment("modified")'
        /\ count'["inserted"] = count["inserted"] /\ count'["deleted"] = count["deleted"]
    BY <2>2, MomentCounted DEF ChangeTypes
  <2>4. CASE type = "modified"
    BY <2>3, <2>4
  <2>5. CASE type \in {"inserted", "deleted"}
    <3>1. SqlCounted(type)
      BY <1>2, <2>1, <2>5 DEF SqlCounted
    <3> QED BY <1>3, <2>3, <2>5, <3>1
  <2> QED BY <2>4, <2>5 DEF ChangeTypes
<1>7. CASE ListInserted \/ ListDeleted \/ ListModified
  <2>1. pc \in {"list_inserted", "list_deleted", "list_modified"} /\ count' = count
    BY <1>7 DEF ListInserted, ListDeleted, ListModified, List
  <2>2. SqlCounted(type)
    BY <1>2, <2>1 DEF SqlCounted, ChangeTypes
  <2> QED BY <1>3, <2>1, <2>2
<1>8. CASE Write \/ UNCHANGED vars
  <2>1. pc' = pc /\ count' = count
    BY <1>8 DEF Write, vars
  <2>2. SqlCounted(type)
    BY <1>1, <2>1 DEF SqlCounted
  <2> QED BY <1>3, <2>1, <2>2
<1>9. CASE \/ ScanBase \/ ScanNew \/ FetchNew \/ FetchBase
           \/ CountBaseHashes \/ CountNewHashes \/ FetchInserted \/ FetchDeleted
  <2>1. pc \in Streaming \cup WithoutKey
    BY <1>9 DEF ScanBase, ScanNew, FetchNew, FetchBase, CountBaseHashes, CountNewHashes,
       FetchInserted, FetchDeleted, Streaming, WithoutKey
  <2> QED BY <1>1, <1>2, <2>1 DEF Placed
<1> QED BY <1>4, <1>5, <1>6, <1>7, <1>8, <1>9 DEF Next

LEMMA MomentInit == Init => MomentInv
<1> SUFFICES ASSUME Init PROVE MomentInv
  OBVIOUS
<1>1. Keyed /\ same_server => pc = "count"
  BY DEF Init
<1>2. \A type \in ChangeTypes : ~SqlCounted(type)
  BY <1>1 DEF SqlCounted, ChangeTypes
<1> QED BY <1>2, TypeInit DEF MomentInv

LEMMA MomentHolds ==
  ASSUME HashesApart, KeysHold
  PROVE  Spec => []MomentInv
<1>1. MomentInv /\ [Next]_vars => MomentInv'
  BY MomentStep
<1> QED BY <1>1, MomentInit, PTL DEF Spec

\* At the end the counts are those of contents that the sides have held.
LEMMA CountsAtTheEnd ==
  ASSUME MomentInv, HashesApart, KeysHold, pc = "done"
  PROVE  IF Keyed /\ same_server
         THEN \A type \in ChangeTypes : OfAMoment(type)
         ELSE \E B \in seen.base, N \in seen.new : count = CountOf(B, N)
<1>1. /\ Placed /\ ScanInv
      /\ \A B \in seen.base : Good(B, BaseColumns)
      /\ \A N \in seen.new : Good(N, NewColumns)
  BY SeenGood DEF MomentInv, TypeInv, ScanInv
<1>2. CASE Keyed /\ same_server
  <2>1. \A type \in ChangeTypes : SqlCounted(type)
    BY <1>2 DEF SqlCounted, ChangeTypes
  <2> QED BY <1>2, <2>1 DEF MomentInv
<1>3. CASE Keyed /\ ~same_server
  <2>1. PICK B \in seen.base : scan.base \in ScanHashes(B)
    BY <1>1, <1>3 DEF ScanInv, StreamingOrDone
  <2>2. PICK N \in seen.new : scan.new \in ScanHashes(N)
    BY <1>1, <1>3 DEF ScanInv, StreamingOrDone
  <2>3. count = StreamCounts
    BY <1>1, <1>3 DEF ScanInv, StreamingOrDone
  <2>4. StreamCounts = CountOf(B, N)
    BY <1>1, <1>3, <2>1, <2>2, StreamExact
  <2> QED BY <1>3, <2>3, <2>4
<1>4. CASE ~Keyed
  <2>1. PICK B \in seen.base : scan.base = HashCounts(B)
    BY <1>1, <1>4 DEF ScanInv, WithoutKeyOrDone
  <2>2. PICK N \in seen.new : scan.new = HashCounts(N)
    BY <1>1, <1>4 DEF ScanInv, WithoutKeyOrDone
  <2>3. count = HashCount
    BY <1>1, <1>4 DEF ScanInv, WithoutKeyOrDone
  <2>4. HashCount = CountOf(B, N)
    BY <1>1, <1>4, <2>1, <2>2, HashExact
  <2> QED BY <1>4, <2>3, <2>4
<1> QED BY <1>2, <1>3, <1>4

\* However often other clients write meanwhile, the counts of the streaming
\* and of the keyless diff are those of one content of each side, and each
\* count in SQL is that of some content: for keys that are keys on both sides,
\* as far as hashes tell rows apart.
THEOREM CountsHaveAMoment ==
  ASSUME HashesApart, KeysHold
  PROVE  Spec => []CountsOfOneMoment
<1>1. ASSUME MomentInv PROVE CountsOfOneMoment
  <2> SUFFICES ASSUME pc = "done"
               PROVE  IF Keyed /\ same_server
                      THEN \A type \in DOMAIN count : \E B \in seen.base, N \in seen.new : Exactly(type, B, N)
                      ELSE \E B \in seen.base, N \in seen.new : ExactlyCounts(B, N)
    BY DEF CountsOfOneMoment
  <2>1. DOMAIN count = ChangeTypes
    BY <1>1 DEF MomentInv, TypeInv, CountType, ChangeTypes
  <2>2. CASE Keyed /\ same_server
    <3>1. \A type \in ChangeTypes : OfAMoment(type)
      BY <1>1, <2>2, CountsAtTheEnd
    <3> QED BY <2>1, <2>2, <3>1, ExactlyIs DEF OfAMoment, ChangeTypes
  <2>3. CASE ~(Keyed /\ same_server)
    <3>1. PICK B \in seen.base, N \in seen.new : count = CountOf(B, N)
      BY <1>1, <2>3, CountsAtTheEnd
    <3>2. ExactlyCounts(B, N)
      BY <2>1, <3>1, ExactlyIs DEF ExactlyCounts, ChangeTypes
    <3> QED BY <2>3, <3>1, <3>2
  <2> QED BY <2>2, <2>3
<1>2. MomentInv => CountsOfOneMoment
  BY <1>1
<1> QED BY <1>2, MomentHolds, PTL

LEMMA QuietCounts ==
  ASSUME MomentInv, HashesApart, KeysHold, Quiet
  PROVE  \A type \in ChangeTypes : count[type] = CountOf(base, new)[type]
<1>1. pc = "done" /\ seen.base = {base} /\ seen.new = {new}
  BY DEF Quiet, MomentInv, TypeInv, ScanInv, Placed
<1> QED BY <1>1, CountsAtTheEnd DEF OfAMoment

\* "Counts are exact" when nobody writes meanwhile: whatever the tables hold,
\* with either algorithm and without a key, for keys that are keys on both
\* sides and as far as hashes tell rows apart.
THEOREM CountsExact ==
  ASSUME HashesApart, KeysHold
  PROVE  Spec => []CountsAreExact
<1>1. ASSUME MomentInv PROVE CountsAreExact
  <2>1. DOMAIN count = ChangeTypes
    BY <1>1 DEF MomentInv, TypeInv, CountType, ChangeTypes
  <2> QED BY <1>1, <2>1, QuietCounts, ExactlyIs DEF CountsAreExact, ExactlyCounts, ChangeTypes
<1>2. MomentInv => CountsAreExact
  BY <1>1
<1> QED BY <1>2, MomentHolds, PTL
-----------------------------------------------------------------------------
(* The detail in SQL, of tables that nobody writes meanwhile.               *)

Found(type) ==
  IF type = "inserted" THEN OnlyInNew ELSE IF type = "deleted" THEN OnlyInBase ELSE Differing
Entry(type, p) ==
  IF type = "inserted" THEN Change("inserted", KeyOf(new[p[2]]), {}, {new[p[2]]}, {}, p)
  ELSE IF type = "deleted" THEN Change("deleted", KeyOf(base[p[1]]), {base[p[1]]}, {}, {}, p)
  ELSE ModifiedChange(p)
NotListed(type) ==
  pc \in {"count", "count_deleted", "count_modified", "list_inserted"} \cup
         (IF type = "inserted" THEN {}
          ELSE IF type = "deleted" THEN {"list_deleted"} ELSE {"list_deleted", "list_modified"})

SqlQuiet == Keyed /\ same_server /\ writes = 0

\* All that is found is counted, and what is listed of it is within the cap.
SqlOf(type) ==
  /\ SqlCounted(type) => /\ count[type] = Cardinality(Found(type))
                         /\ Cardinality(Found(type)) > cap => noted
  /\ NotListed(type) => OfType(type) = {}
  /\ ~NotListed(type) => \E S \in Limit(Found(type)) : OfType(type) = {Entry(type, p) : p \in S}

SqlInv == TypeInv /\ (SqlQuiet => \A type \in ChangeTypes : SqlOf(type))

LEMMA EntryIs == \A type \in ChangeTypes : \A p : Entry(type, p).type = type /\ Entry(type, p).at = p
  BY DEF Entry, Change, ModifiedChange, ChangeTypes

LEMMA FoundKept ==
  ASSUME UNCHANGED <<call, base, new>>
  PROVE  /\ \A type : Found(type)' = Found(type) /\ Limit(Found(type))' = Limit(Found(type))
         /\ \A type, p : Entry(type, p)' = Entry(type, p)
<1>1. /\ Keyed' = Keyed /\ Compared' = Compared /\ Displayed' = Displayed
      /\ \A r : KeyOf(r)' = KeyOf(r)
      /\ \A S : Limit(S)' = Limit(S)
      /\ key' = key
  BY CallKept DEF call
<1>2. base' = base /\ new' = new
  OBVIOUS
<1>3. Pairs' = Pairs
  BY <1>1, <1>2 DEF Pairs, PairsOf
<1>4. OnlyInNew' = OnlyInNew /\ OnlyInBase' = OnlyInBase
  BY <1>2, <1>3 DEF OnlyInNew, OnlyInBase
<1>5. Differing' = Differing
  BY <1>1, <1>2, <1>3 DEF Differing, Hash
<1>6. \A type : Found(type)' = Found(type)
  BY <1>4, <1>5 DEF Found
<1>7. \A type : Limit(Found(type))' = Limit(Found(type))
  <2>1. cap' = cap
    BY DEF call
  <2> QED BY <1>6, <2>1 DEF Limit, kSubset
<1>8. \A p : ModifiedChange(p)' = ModifiedChange(p)
  BY <1>1, <1>2 DEF ModifiedChange, Change, Show, KeyOf
<1>9. \A type, p : Entry(type, p)' = Entry(type, p)
  BY <1>1, <1>2, <1>8 DEF Entry, Change
<1> QED BY <1>6, <1>7, <1>9

\* Nothing is written in a step of the diff itself.
LEMMA QuietStep ==
  ASSUME Placed, [Next]_vars, writes' = 0
  PROVE  UNCHANGED <<call, base, new, writes, seen>>
<1>1. CASE Write
  <2>1. writes' = writes + 1 /\ writes \in Nat
    BY <1>1, RowDiffAssumption DEF Write, Placed
  <2> QED BY <2>1
<1>2. CASE ~Write
  BY <1>2 DEF Next, vars, sides, ScanBase, ScanNew, FetchNew, FetchBase, CountInserted, CountDeleted,
     CountModified, CountChange, ListInserted, ListDeleted, ListModified, List, CountBaseHashes,
     CountNewHashes, FetchInserted, FetchDeleted
<1> QED BY <1>1, <1>2

\* The statements of each type: one counts, one lists.
CountStep(type) ==
  CountChange(IF type = "inserted" THEN "count" ELSE IF type = "deleted" THEN "count_deleted"
              ELSE "count_modified", type, Found(type),
              IF type = "inserted" THEN "count_deleted" ELSE IF type = "deleted" THEN "count_modified"
              ELSE "list_inserted")
ListStep(type) ==
  /\ pc = IF type = "inserted" THEN "list_inserted" ELSE IF type = "deleted" THEN "list_deleted"
          ELSE "list_modified"
  /\ \E S \in Limit(Found(type)) :
       List({Entry(type, p) : p \in S},
            IF type = "inserted" THEN "list_deleted" ELSE IF type = "deleted" THEN "list_modified"
            ELSE "done")

LEMMA SqlSteps ==
  ASSUME [Next]_vars, Placed, Keyed, same_server, writes' = 0
  PROVE  \/ UNCHANGED <<pc, count, noted, changes>>
         \/ \E type \in ChangeTypes : CountStep(type) \/ ListStep(type)
<1>1. CASE CountInserted
  <2>1. CountStep("inserted")
    BY <1>1 DEF CountInserted, Found, CountStep
  <2> QED BY <2>1 DEF ChangeTypes
<1>2. CASE CountDeleted
  <2>1. CountStep("deleted")
    BY <1>2 DEF CountDeleted, Found, CountStep
  <2> QED BY <2>1 DEF ChangeTypes
<1>3. CASE CountModified
  <2>1. CountStep("modified")
    BY <1>3 DEF CountModified, Found, CountStep
  <2> QED BY <2>1 DEF ChangeTypes
<1>4. CASE ListInserted
  <2>1. ListStep("inserted")
    BY <1>4 DEF ListInserted, Found, Entry, ListStep
  <2> QED BY <2>1 DEF ChangeTypes
<1>5. CASE ListDeleted
  <2>1. ListStep("deleted")
    BY <1>5 DEF ListDeleted, Found, Entry, ListStep
  <2> QED BY <2>1 DEF ChangeTypes
<1>6. CASE ListModified
  <2>1. ListStep("modified")
    BY <1>6 DEF ListModified, Found, Entry, ListStep
  <2> QED BY <2>1 DEF ChangeTypes
<1>7. CASE \/ ScanBase \/ ScanNew \/ FetchNew \/ FetchBase
           \/ CountBaseHashes \/ CountNewHashes \/ FetchInserted \/ FetchDeleted
  <2>1. pc \in Streaming \cup WithoutKey
    BY <1>7 DEF ScanBase, ScanNew, FetchNew, FetchBase, CountBaseHashes, CountNewHashes,
       FetchInserted, FetchDeleted, Streaming, WithoutKey
  <2> QED BY <2>1 DEF Placed
<1>8. CASE Write \/ UNCHANGED vars
  <2>1. CASE Write
    <3>1. UNCHANGED <<pc, count, noted, changes>>
      BY <2>1 DEF Write
    <3> QED BY <3>1
  <2>2. CASE UNCHANGED vars
    <3>1. UNCHANGED <<pc, count, noted, changes>>
      BY <2>2 DEF vars
    <3> QED BY <3>1
  <2> QED BY <1>8, <2>1, <2>2
<1> QED BY <1>1, <1>2, <1>3, <1>4, <1>5, <1>6, <1>7, <1>8 DEF Next
LEMMA SqlStays ==
  ASSUME Placed, [Next]_vars, writes' = 0, NEW type \in ChangeTypes, SqlOf(type),
         OfType(type)' = OfType(type), NotListed(type)' <=> NotListed(type),
         SqlCounted(type)' => SqlCounted(type), count'[type] = count[type], noted => noted'
  PROVE  SqlOf(type)'
<1>1. UNCHANGED <<call, base, new>> /\ cap' = cap
  BY QuietStep DEF call
<1>2. /\ Found(type)' = Found(type) /\ Limit(Found(type))' = Limit(Found(type))
      /\ \A p : Entry(type, p)' = Entry(type, p)
  BY <1>1, FoundKept
<1>3. SqlCounted(type)' => count'[type] = Cardinality(Found(type)) /\ (Cardinality(Found(type)) > cap => noted')
  BY DEF SqlOf
<1>4. SqlCounted(type)' => count'[type] = Cardinality(Found(type)') /\ (Cardinality(Found(type)') > cap' => noted')
  BY <1>1, <1>2, <1>3
<1>5. NotListed(type)' => OfType(type)' = {}
  BY DEF SqlOf
<1>6. ~NotListed(type)' => \E S \in Limit(Found(type))' : OfType(type)' = {Entry(type, p)' : p \in S}
  <2> SUFFICES ASSUME ~NotListed(type)' PROVE \E S \in Limit(Found(type))' : OfType(type)' = {Entry(type, p)' : p \in S}
    OBVIOUS
  <2>1. PICK S \in Limit(Found(type)) : OfType(type) = {Entry(type, p) : p \in S}
    BY DEF SqlOf
  <2>2. OfType(type)' = {Entry(type, p)' : p \in S}
    BY <1>2, <2>1
  <2> QED BY <1>2, <2>1, <2>2
<1> QED BY <1>4, <1>5, <1>6 DEF SqlOf

LEMMA SqlStep ==
  ASSUME SqlInv, [Next]_vars
  PROVE  SqlInv'
<1>1. TypeInv /\ TypeInv' /\ Placed /\ Placed' /\ UNCHANGED call
  BY TypeStep, PlacedStep DEF SqlInv, TypeInv, ScanInv
<1> SUFFICES ASSUME SqlQuiet', NEW type \in ChangeTypes
             PROVE  SqlOf(type)'
  BY <1>1 DEF SqlInv, ChangeTypes
<1>2. UNCHANGED <<call, base, new, writes>> /\ cap' = cap /\ writes' = 0
  BY <1>1, QuietStep DEF SqlQuiet, call
<1>3. Keyed /\ same_server /\ SqlOf(type) /\ Keyed' /\ same_server'
  <2>1. Keyed' = Keyed /\ same_server' = same_server /\ writes = 0
    BY <1>1, <1>2, CallKept DEF call
  <2>2. Keyed' /\ same_server'
    BY DEF SqlQuiet
  <2>3. Keyed /\ same_server
    BY <2>1, <2>2
  <2> QED BY <2>1, <2>2, <2>3 DEF SqlQuiet, SqlInv
<1>4. /\ Found(type)' = Found(type) /\ Limit(Found(type))' = Limit(Found(type))
      /\ \A p : Entry(type, p)' = Entry(type, p)
  BY <1>2, FoundKept
<1>5. CASE UNCHANGED <<pc, count, noted, changes>>
  <2>1. OfType(type)' = OfType(type) /\ (NotListed(type)' <=> NotListed(type))
    BY <1>5 DEF OfType, NotListed
  <2>2. SqlCounted(type)' => SqlCounted(type)
    BY <1>3, <1>5 DEF SqlCounted
  <2> QED BY <1>1, <1>2, <1>3, <1>5, <2>1, <2>2, SqlStays
<1>6. ASSUME NEW t \in ChangeTypes, CountStep(t)
      PROVE  SqlOf(type)'
  <2>1. /\ changes' = changes /\ count' = [count EXCEPT ![t] = Cardinality(Found(t))]
        /\ noted' = (noted \/ Cardinality(Found(t)) > cap)
        /\ pc = IF t = "inserted" THEN "count" ELSE IF t = "deleted" THEN "count_deleted" ELSE "count_modified"
        /\ pc' = IF t = "inserted" THEN "count_deleted" ELSE IF t = "deleted" THEN "count_modified" ELSE "list_inserted"
    BY <1>6 DEF CountStep, CountChange, GoTo
  <2>2. OfType(type)' = OfType(type) /\ NotListed(type) /\ NotListed(type)'
    BY <2>1, <1>6 DEF OfType, NotListed, ChangeTypes
  <2>3. count \in CountType
    BY <1>1 DEF TypeInv
  <2>4. CASE type = t
    <3>1. count'[type] = Cardinality(Found(type))
      BY <2>1, <2>3, <2>4 DEF CountType, ChangeTypes
    <3>2. Cardinality(Found(type)) > cap => noted'
      <4>1. noted' = (noted \/ Cardinality(Found(type)) > cap)
        BY <2>1, <2>4
      <4> QED BY <4>1, Zenon
    <3>3. OfType(type)' = {}
      BY <1>3, <2>2 DEF SqlOf
    <3> QED BY <1>2, <1>4, <2>2, <3>1, <3>2, <3>3 DEF SqlOf
  <2>5. CASE type # t
    <3>1. count'[type] = count[type]
      BY <2>1, <2>3, <2>5 DEF CountType, ChangeTypes
    <3>2. SqlCounted(type)' => SqlCounted(type)
      BY <1>3, <1>6, <2>1, <2>5 DEF SqlCounted, ChangeTypes
    <3>3. noted => noted'
      BY <2>1
    <3> QED BY <1>1, <1>2, <1>3, <2>2, <3>1, <3>2, <3>3, SqlStays
  <2> QED BY <2>4, <2>5
<1>7. ASSUME NEW t \in ChangeTypes, ListStep(t)
      PROVE  SqlOf(type)'
  <2>1. PICK S \in Limit(Found(t)) :
          List({Entry(t, p) : p \in S},
               IF t = "inserted" THEN "list_deleted" ELSE IF t = "deleted" THEN "list_modified" ELSE "done")
    BY <1>7 DEF ListStep
  <2>2. /\ changes' = changes \cup {Entry(t, p) : p \in S} /\ count' = count /\ noted' = noted
        /\ pc' = IF t = "inserted" THEN "list_deleted" ELSE IF t = "deleted" THEN "list_modified" ELSE "done"
    BY <2>1 DEF List, GoTo
  <2>3. pc = IF t = "inserted" THEN "list_inserted" ELSE IF t = "deleted" THEN "list_deleted" ELSE "list_modified"
    BY <1>7 DEF ListStep
  <2>4. SqlCounted(type)
    BY <1>3, <1>7, <2>3 DEF SqlCounted, ChangeTypes
  <2>5. \A p : Entry(t, p).type = t
    BY <1>7, EntryIs
  <2>6. CASE type = t
    <3>1. NotListed(type) /\ ~NotListed(type)'
      BY <1>7, <2>2, <2>3, <2>6 DEF NotListed, ChangeTypes
    <3>2. OfType(type) = {}
      BY <1>3, <3>1 DEF SqlOf
    <3>3. OfType(type)' = {Entry(type, p) : p \in S}
      BY <2>2, <2>5, <2>6, <3>2 DEF OfType
    <3>4. S \in Limit(Found(type))
      BY <2>1, <2>6
    <3>5. \E Z \in Limit(Found(type)) : OfType(type)' = {Entry(type, p) : p \in Z}
      BY <3>3, <3>4
    <3>6. count'[type] = Cardinality(Found(type)) /\ (Cardinality(Found(type)) > cap => noted')
      BY <1>3, <2>2, <2>4 DEF SqlOf
    <3> QED BY <1>2, <1>4, <3>1, <3>5, <3>6 DEF SqlOf
  <2>7. CASE type # t
    <3>1. OfType(type)' = OfType(type)
      BY <2>2, <2>5, <2>7 DEF OfType
    <3>2. NotListed(type)' <=> NotListed(type)
      BY <1>7, <2>2, <2>3, <2>7 DEF NotListed, ChangeTypes
    <3>3. count'[type] = count[type] /\ (noted => noted')
      BY <2>2
    <3> QED BY <1>1, <1>2, <1>3, <2>4, <3>1, <3>2, <3>3, SqlStays
  <2> QED BY <2>6, <2>7
<1> QED BY <1>1, <1>2, <1>3, <1>5, <1>6, <1>7, SqlSteps

LEMMA SqlInit == Init => SqlInv
<1> SUFFICES ASSUME Init, SqlQuiet, NEW type \in ChangeTypes
             PROVE  SqlOf(type)
  BY TypeInit DEF SqlInv
<1>1. pc = "count" /\ changes = {}
  BY DEF Init, SqlQuiet
<1>2. ~SqlCounted(type) /\ NotListed(type) /\ OfType(type) = {}
  BY <1>1 DEF SqlCounted, NotListed, OfType, ChangeTypes
<1> QED BY <1>2 DEF SqlOf

LEMMA LimitSize ==
  ASSUME Placed, NEW S, IsFiniteSet(S), NEW L \in Limit(S)
  PROVE  IsFiniteSet(L) /\ Cardinality(L) = IF Cardinality(S) > cap THEN cap ELSE Cardinality(S)
<1>1. cap \in Nat /\ Cardinality(S) \in Nat
  BY RowDiffAssumption, FS_CardinalityType DEF Placed
<1>2. IsFiniteSet(L)
  BY LimitWithin, FS_Subset
<1>3. CASE Cardinality(S) <= cap
  BY <1>1, <1>2, <1>3 DEF Limit
<1>4. CASE ~(Cardinality(S) <= cap)
  <2>1. L \in kSubset(cap, S)
    BY <1>4 DEF Limit
  <2> QED BY <1>1, <1>2, <1>4, <2>1 DEF kSubset
<1> QED BY <1>3, <1>4

\* In SQL as many changes of each type are listed as were counted, up to the
\* cap, whatever the tables hold.
LEMMA SqlFits ==
  ASSUME SqlInv, pc = "done", SqlQuiet, NEW type \in ChangeTypes
  PROVE  Cardinality(OfType(type)) = IF count[type] > cap THEN cap ELSE count[type]
<1>1. Placed /\ SqlOf(type)
  BY DEF SqlInv, TypeInv, ScanInv
<1>2. count[type] = Cardinality(Found(type)) /\ ~NotListed(type)
  <2>1. SqlCounted(type) /\ ~NotListed(type)
    BY DEF SqlQuiet, SqlCounted, NotListed, ChangeTypes
  <2> QED BY <1>1, <2>1 DEF SqlOf
<1>3. PICK S \in Limit(Found(type)) : OfType(type) = {Entry(type, p) : p \in S}
  BY <1>1, <1>2 DEF SqlOf
<1>4. IsFiniteSet(Found(type))
  BY <1>1, JoinsFinite DEF Found
<1>5. /\ IsFiniteSet(S)
      /\ Cardinality(S) = IF Cardinality(Found(type)) > cap THEN cap ELSE Cardinality(Found(type))
  BY <1>1, <1>3, <1>4, LimitSize
<1> DEFINE f == [p \in S |-> Entry(type, p)]
           T == {Entry(type, p) : p \in S}
<1>6. f \in [S -> T] /\ \A y \in T : \E x \in S : f[x] = y
  OBVIOUS
<1>7. \A x, y \in S : f[x] = f[y] => x = y
  BY EntryIs
<1>8. Cardinality(T) = Cardinality(S)
  <2> HIDE DEF f, T
  <2> QED BY <1>5, <1>6, <1>7, SameSize
<1> QED BY <1>2, <1>3, <1>5, <1>8
-----------------------------------------------------------------------------
(* The detail as a patch.                                                   *)

LEMMA CellIs == \A x, c : Cell({x}, c) = x[c]
<1> SUFFICES ASSUME NEW x, NEW c PROVE Cell({x}, c) = x[c]
  OBVIOUS
<1>1. {x} # {} /\ (CHOOSE r \in {x} : TRUE) = x
  OBVIOUS
<1> QED BY <1>1 DEF Cell

\* ch turns the base row of the pair into the new one.
Mends(ch, p) ==
  \E o, n : /\ ch.key = KeyOf(base[p[1]]) /\ ch.old = {o} /\ ch.new = {n}
            /\ \A c \in key \cup Compared : /\ o[c] = View(base[p[1]])[c]
                                            /\ n[c] = View(new[p[2]])[c]
            /\ ch.changed = {c \in Compared : o[c] # n[c]}
Adds(ch, j) == \E x : ch.new = {x} /\ View(x) = View(new[j])

\* The detail is of the unpaired rows and the differing pairs, of all of them
\* and of no others.
IsPatch ==
  /\ \A ch \in OfType("inserted") : \E j \in Unpaired(base, new) : Adds(ch, j)
  /\ \A j \in Unpaired(base, new) : \E ch \in OfType("inserted") : Adds(ch, j)
  /\ {ch.key : ch \in OfType("deleted")} = {KeyOf(base[i]) : i \in UnpairedBase(base, new)}
  /\ \A ch \in OfType("modified") : \E p \in DifferingOf(base, new) : Mends(ch, p)
  /\ \A p \in DifferingOf(base, new) : \E ch \in OfType("modified") : Mends(ch, p)

Mended(ch) ==
  [c \in key \cup Compared |-> IF c \in ch.changed THEN Cell(ch.new, c) ELSE Cell(ch.old, c)]

LEMMA PairKeys ==
  ASSUME Keyed, NEW p \in PairsOf(base, new)
  PROVE  \A c \in key : View(base[p[1]])[c] = View(new[p[2]])[c]
                        \/ ~(c \in DOMAIN base[p[1]] /\ c \in DOMAIN new[p[2]])
<1>1. KeyOf(base[p[1]]) = KeyOf(new[p[2]])
  BY PairOf
<1>2. \A c \in key : KeyOf(base[p[1]])[c] = base[p[1]][c] /\ KeyOf(new[p[2]])[c] = new[p[2]][c]
  BY DEF KeyOf
<1>3. \A c \in key : base[p[1]][c] = new[p[2]][c]
  BY <1>1, <1>2
<1> QED BY <1>3 DEF View, Show

LEMMA MendsWell ==
  ASSUME Keyed, Good(base, BaseColumns), Good(new, NewColumns),
         NEW p \in DifferingOf(base, new), NEW ch, Mends(ch, p)
  PROVE  Mended(ch) = View(new[p[2]]) /\ ch.changed # {}
<1>1. p \in PairsOf(base, new) /\ View(base[p[1]]) # View(new[p[2]])
  BY DEF DifferingOf
<1>2. PICK o, n : /\ ch.old = {o} /\ ch.new = {n}
                  /\ \A c \in key \cup Compared : /\ o[c] = View(base[p[1]])[c]
                                                  /\ n[c] = View(new[p[2]])[c]
                  /\ ch.changed = {c \in Compared : o[c] # n[c]}
  BY DEF Mends
<1>3. \A c \in key : View(base[p[1]])[c] = View(new[p[2]])[c]
  <2>1. p[1] \in DOMAIN base /\ p[2] \in DOMAIN new
    BY <1>1, PairOf
  <2>2. \A c \in key : c \in DOMAIN base[p[1]] /\ c \in DOMAIN new[p[2]]
    BY <2>1 DEF Good, Keyed, Common
  <2> QED BY <1>1, <2>2, PairKeys
<1>4. /\ View(new[p[2]]) = [c \in key \cup Compared |-> View(new[p[2]])[c]]
      /\ View(base[p[1]]) = [c \in key \cup Compared |-> View(base[p[1]])[c]]
  BY DEF View, Show
<1>5. \A c \in key \cup Compared : Mended(ch)[c] = View(new[p[2]])[c]
  <2> SUFFICES ASSUME NEW c \in key \cup Compared PROVE Mended(ch)[c] = View(new[p[2]])[c]
    OBVIOUS
  <2>1. Mended(ch)[c] = IF c \in ch.changed THEN n[c] ELSE o[c]
    <3>1. ch.new = {n} /\ ch.old = {o}
      BY <1>2
    <3>2. Cell(ch.new, c) = n[c] /\ Cell(ch.old, c) = o[c]
      BY <3>1, CellIs
    <3>3. Mended(ch)[c] = IF c \in ch.changed THEN Cell(ch.new, c) ELSE Cell(ch.old, c)
      BY DEF Mended
    <3> QED BY <3>2, <3>3
  <2>2. c \in ch.changed <=> c \in Compared /\ o[c] # n[c]
    BY <1>2
  <2>3. o[c] = View(base[p[1]])[c] /\ n[c] = View(new[p[2]])[c]
    BY <1>2
  <2>4. c \in key => o[c] = n[c]
    BY <1>3, <2>3
  <2> QED BY <2>1, <2>2, <2>3, <2>4
<1>6. Mended(ch) = View(new[p[2]])
  <2>1. Mended(ch) = [c \in key \cup Compared |-> Mended(ch)[c]]
    BY DEF Mended
  <2>2. [c \in key \cup Compared |-> Mended(ch)[c]] = [c \in key \cup Compared |-> View(new[p[2]])[c]]
    BY <1>5
  <2> QED BY <1>4, <2>1, <2>2
<1>7. \E c \in key \cup Compared : View(base[p[1]])[c] # View(new[p[2]])[c]
  <2> SUFFICES ASSUME \A c \in key \cup Compared : View(base[p[1]])[c] = View(new[p[2]])[c]
               PROVE  FALSE
    OBVIOUS
  <2>1. [c \in key \cup Compared |-> View(base[p[1]])[c]] = [c \in key \cup Compared |-> View(new[p[2]])[c]]
    OBVIOUS
  <2> QED BY <1>1, <1>4, <2>1
<1>8. PICK c \in Compared : View(base[p[1]])[c] # View(new[p[2]])[c]
  BY <1>3, <1>7
<1> QED BY <1>2, <1>6, <1>8

\* Such a detail turns the base table into the new one.
LEMMA PatchWorks ==
  ASSUME Keyed, Good(base, BaseColumns), Good(new, NewColumns), IsPatch
  PROVE  LET gone == {ch.key : ch \in OfType("deleted") \cup OfType("modified")}
             kept == {View(r) : r \in {x \in Rows(base) : KeyOf(x) \notin gone}}
             added == UNION {{View(r) : r \in ch.new} : ch \in OfType("inserted")}
             mended == {Mended(ch) : ch \in OfType("modified")}
         IN kept \cup added \cup mended = {View(r) : r \in Rows(new)}
<1> DEFINE gone == {ch.key : ch \in OfType("deleted") \cup OfType("modified")}
           kept == {View(r) : r \in {x \in Rows(base) : KeyOf(x) \notin gone}}
           added == UNION {{View(r) : r \in ch.new} : ch \in OfType("inserted")}
           mended == {Mended(ch) : ch \in OfType("modified")}
           all == {View(r) : r \in Rows(new)}
<1>1. all = {View(new[j]) : j \in DOMAIN new}
  BY DEF Rows
<1>2. gone = {KeyOf(base[i]) : i \in UnpairedBase(base, new)} \cup
             {KeyOf(base[p[1]]) : p \in DifferingOf(base, new)}
  <2>1. {ch.key : ch \in OfType("modified")} = {KeyOf(base[p[1]]) : p \in DifferingOf(base, new)}
    <3>1. \A ch, p : Mends(ch, p) => ch.key = KeyOf(base[p[1]])
      BY DEF Mends
    <3>2. \A ch \in OfType("modified") : \E p \in DifferingOf(base, new) : ch.key = KeyOf(base[p[1]])
      BY <3>1 DEF IsPatch
    <3>3. \A p \in DifferingOf(base, new) : \E ch \in OfType("modified") : ch.key = KeyOf(base[p[1]])
      BY <3>1 DEF IsPatch
    <3> QED BY <3>2, <3>3
  <2>2. gone = {ch.key : ch \in OfType("deleted")} \cup {ch.key : ch \in OfType("modified")}
    OBVIOUS
  <2> HIDE DEF gone
  <2> QED BY <2>1, <2>2 DEF IsPatch
<1>3. \A i \in DOMAIN base : i \in UnpairedBase(base, new) <=> \A j \in DOMAIN new : KeyOf(base[i]) # KeyOf(new[j])
  BY Unpaireds
<1>4. \A j \in DOMAIN new : j \in Unpaired(base, new) <=> \A i \in DOMAIN base : KeyOf(base[i]) # KeyOf(new[j])
  BY Unpaireds
<1>5. ASSUME NEW i \in DOMAIN base, NEW j \in DOMAIN new, KeyOf(base[i]) = KeyOf(new[j])
      PROVE  KeyOf(base[i]) \in gone <=> View(base[i]) # View(new[j])
  <2> DEFINE q == <<i, j>>
  <2>1. q \in PairsOf(base, new) /\ q[1] = i /\ q[2] = j
    BY <1>5 DEF PairsOf
  <2> HIDE DEF q, gone
  <2>2. ASSUME View(base[i]) # View(new[j]) PROVE KeyOf(base[i]) \in gone
    <3>1. q \in DifferingOf(base, new)
      BY <2>1, <2>2 DEF DifferingOf
    <3> QED BY <1>2, <2>1, <3>1
  <2>3. ASSUME KeyOf(base[i]) \in gone PROVE View(base[i]) # View(new[j])
    <3>1. CASE \E k \in UnpairedBase(base, new) : KeyOf(base[i]) = KeyOf(base[k])
      <4>1. PICK k \in UnpairedBase(base, new) : KeyOf(base[i]) = KeyOf(base[k])
        BY <3>1
      <4>2. k \in DOMAIN base
        BY DEF UnpairedBase
      <4> QED BY <1>3, <1>5, <4>1, <4>2
    <3>2. CASE \E p \in DifferingOf(base, new) : KeyOf(base[i]) = KeyOf(base[p[1]])
      <4>1. PICK p \in DifferingOf(base, new) : KeyOf(base[i]) = KeyOf(base[p[1]])
        BY <3>2
      <4>2. p \in PairsOf(base, new) /\ View(base[p[1]]) # View(new[p[2]])
        BY DEF DifferingOf
      <4>3. p[1] \in DOMAIN base /\ p[2] \in DOMAIN new /\ KeyOf(base[p[1]]) = KeyOf(new[p[2]])
        BY <4>2, PairOf
      <4>4. i = p[1]
        BY <4>1, <4>3, KeyNames
      <4>5. KeyOf(new[j]) = KeyOf(new[p[2]])
        BY <1>5, <4>1, <4>3
      <4>6. j = p[2]
        BY <4>3, <4>5, KeyNames
      <4> QED BY <4>2, <4>4, <4>6
    <3> QED BY <1>2, <2>3, <3>1, <3>2
  <2> QED BY <2>2, <2>3
<1>6. kept \subseteq all
  <2> SUFFICES ASSUME NEW x \in Rows(base), KeyOf(x) \notin gone PROVE View(x) \in all
    OBVIOUS
  <2> HIDE DEF gone, all
  <2>1. PICK i \in DOMAIN base : x = base[i]
    BY DEF Rows
  <2>2. i \notin UnpairedBase(base, new)
    BY <1>2, <2>1
  <2>3. PICK j \in DOMAIN new : KeyOf(base[i]) = KeyOf(new[j])
    BY <1>3, <2>2
  <2> QED BY <1>1, <1>5, <2>1, <2>3
<1>7. added \subseteq all
  <2> SUFFICES ASSUME NEW ch \in OfType("inserted"), NEW r \in ch.new PROVE View(r) \in all
    OBVIOUS
  <2>1. PICK j \in Unpaired(base, new) : Adds(ch, j)
    BY DEF IsPatch
  <2>2. j \in DOMAIN new
    BY DEF Unpaired
  <2> HIDE DEF all
  <2> QED BY <1>1, <2>1, <2>2 DEF Adds
<1>8. mended \subseteq all
  <2> SUFFICES ASSUME NEW ch \in OfType("modified") PROVE Mended(ch) \in all
    OBVIOUS
  <2>1. PICK p \in DifferingOf(base, new) : Mends(ch, p)
    BY DEF IsPatch
  <2>2. p[2] \in DOMAIN new
    BY PairOf DEF DifferingOf
  <2>3. Mended(ch) = View(new[p[2]])
    BY <2>1, MendsWell
  <2> HIDE DEF all
  <2> QED BY <1>1, <2>2, <2>3
<1>9. ASSUME NEW j \in DOMAIN new
      PROVE  View(new[j]) \in kept \cup added \cup mended
  <2>1. CASE j \in Unpaired(base, new)
    <3>1. PICK ch \in OfType("inserted") : Adds(ch, j)
      BY <2>1 DEF IsPatch
    <3>2. View(new[j]) \in added
      BY <3>1 DEF Adds
    <3> QED BY <3>2
  <2>2. CASE j \notin Unpaired(base, new)
    <3>1. PICK i \in DOMAIN base : KeyOf(base[i]) = KeyOf(new[j])
      BY <1>4, <2>2
    <3>2. CASE View(base[i]) # View(new[j])
      <4> DEFINE p == <<i, j>>
      <4>1. p[1] = i /\ p[2] = j /\ p \in PairsOf(base, new)
        BY <3>1 DEF PairsOf
      <4> HIDE DEF p
      <4>2. p \in DifferingOf(base, new)
        BY <3>2, <4>1 DEF DifferingOf
      <4>3. PICK ch \in OfType("modified") : Mends(ch, p)
        BY <4>2 DEF IsPatch
      <4>4. Mended(ch) = View(new[j])
        BY <4>1, <4>2, <4>3, MendsWell
      <4>5. View(new[j]) \in mended
        BY <4>4
      <4> QED BY <4>5
    <3>3. CASE View(base[i]) = View(new[j])
      <4>1. KeyOf(base[i]) \notin gone /\ base[i] \in Rows(base)
        BY <1>5, <3>1, <3>3 DEF Rows
      <4>2. View(base[i]) \in kept
        <5> HIDE DEF gone
        <5> QED BY <4>1
      <4> QED BY <3>3, <4>2
    <3> QED BY <3>2, <3>3
  <2> QED BY <2>1, <2>2
<1> HIDE DEF gone, kept, added, mended, all
<1>10. kept \cup added \cup mended = all
  BY <1>1, <1>6, <1>7, <1>8, <1>9
<1> QED BY <1>10 DEF gone, kept, added, mended, all
\* In SQL, if the note says nothing, all that was found is listed.
LEMMA SqlListsAll ==
  ASSUME SqlInv, Quiet, Keyed, same_server, ~noted, NEW type \in ChangeTypes
  PROVE  OfType(type) = {Entry(type, p) : p \in Found(type)}
<1>1. Placed /\ SqlOf(type) /\ pc = "done"
  BY DEF SqlInv, SqlQuiet, Quiet, TypeInv, ScanInv
<1>2. SqlCounted(type) /\ ~NotListed(type)
  BY <1>1 DEF SqlCounted, NotListed, ChangeTypes
<1>3. PICK S \in Limit(Found(type)) : OfType(type) = {Entry(type, p) : p \in S}
  BY <1>1, <1>2 DEF SqlOf
<1>4. ~(Cardinality(Found(type)) > cap)
  BY <1>1, <1>2 DEF SqlOf
<1>5. cap \in Nat /\ Cardinality(Found(type)) \in Nat
  BY <1>1, JoinsFinite, RowDiffAssumption DEF Placed, Found
<1>6. Cardinality(Found(type)) <= cap
  BY <1>4, <1>5
<1>7. S = Found(type)
  BY <1>3, <1>6 DEF Limit
<1> QED BY <1>3, <1>7

LEMMA SqlPatch ==
  ASSUME SqlInv, Quiet, Keyed, same_server, ~noted, HashesApart, KeysHold
  PROVE  IsPatch
<1>1. /\ OnlyInNew = {<<0, j>> : j \in Unpaired(base, new)}
      /\ OnlyInBase = {<<i, 0>> : i \in UnpairedBase(base, new)}
      /\ Differing = DifferingOf(base, new)
      /\ Good(base, BaseColumns) /\ Good(new, NewColumns)
  BY JoinsTell, SeenGood DEF SqlInv, TypeInv, ScanInv, Placed
<1>2. OfType("inserted") = {Entry("inserted", p) : p \in OnlyInNew}
  BY SqlListsAll DEF ChangeTypes, Found
<1>3. OfType("deleted") = {Entry("deleted", p) : p \in OnlyInBase}
  BY SqlListsAll DEF ChangeTypes, Found
<1>4. OfType("modified") = {Entry("modified", p) : p \in Differing}
  BY SqlListsAll DEF ChangeTypes, Found
<1>5. \A j : Adds(Entry("inserted", <<0, j>>), j)
  BY DEF Entry, Change, Adds
<1>6. \A i : Entry("deleted", <<i, 0>>).key = KeyOf(base[i])
  BY DEF Entry, Change
<1>7. ASSUME NEW p \in DifferingOf(base, new)
      PROVE  Mends(Entry("modified", p), p)
  <2> DEFINE ch == Entry("modified", p)
             o == Show(base[p[1]], Displayed)
             n == Show(new[p[2]], Displayed)
  <2>1. /\ ch.key = KeyOf(o) /\ ch.old = {o} /\ ch.new = {n}
        /\ ch.changed = {c \in Compared : o[c] # n[c]}
    BY DEF Entry, ModifiedChange, Change
  <2>2. KeyOf(o) = KeyOf(base[p[1]])
    <3>1. p[1] \in DOMAIN base
      BY PairOf DEF DifferingOf
    <3>2. key \subseteq DOMAIN base[p[1]]
      BY <1>1, <3>1 DEF Good, Keyed, Common
    <3> QED BY <3>2, KeyShown DEF Displayed
  <2>3. \A c \in key \cup Compared : o[c] = View(base[p[1]])[c] /\ n[c] = View(new[p[2]])[c]
    BY DEF Show, View, Displayed
  <2> HIDE DEF ch, o, n
  <2>4. Mends(ch, p)
    BY <2>1, <2>2, <2>3 DEF Mends
  <2> QED BY <2>4 DEF ch
<1>8. {ch.key : ch \in OfType("deleted")} = {KeyOf(base[i]) : i \in UnpairedBase(base, new)}
  <2>1. \A ch \in OfType("deleted") : \E i \in UnpairedBase(base, new) : ch.key = KeyOf(base[i])
    BY <1>1, <1>3, <1>6
  <2>2. \A i \in UnpairedBase(base, new) : \E ch \in OfType("deleted") : ch.key = KeyOf(base[i])
    BY <1>1, <1>3, <1>6
  <2> QED BY <2>1, <2>2
<1>9. /\ \A ch \in OfType("inserted") : \E j \in Unpaired(base, new) : Adds(ch, j)
      /\ \A j \in Unpaired(base, new) : \E ch \in OfType("inserted") : Adds(ch, j)
  BY <1>1, <1>2, <1>5
<1>10. /\ \A ch \in OfType("modified") : \E p \in DifferingOf(base, new) : Mends(ch, p)
       /\ \A p \in DifferingOf(base, new) : \E ch \in OfType("modified") : Mends(ch, p)
  BY <1>1, <1>4, <1>7
<1> QED BY <1>8, <1>9, <1>10 DEF IsPatch

\* The streaming diff of tables that nobody writes meanwhile: what was fetched
\* are rows of the keys that the scans differ in.
Streamed(nus, olds) ==
  {Change("inserted", k, {}, Get(nus, k), {}, <<0, 0>>) : k \in InsertedKeys} \cup
  {Change("deleted", k, Get(olds, k), {}, {}, <<0, 0>>) : k \in DeletedKeys} \cup
  {Change("modified", k, Get(olds, k), Get(nus, k),
          {c \in Compared : Cell(Get(olds, k), c) # Cell(Get(nus, k), c)},
          <<0, 0>>) : k \in ModifiedKeys}
StreamOf ==
  /\ pc = "fetch_base" => news \in FetchRows(new, InsertedKeys \cup ModifiedKeys)
  /\ pc = "done" => \E nus \in FetchRows(new, InsertedKeys \cup ModifiedKeys) :
                      \E olds \in FetchRows(base, DeletedKeys \cup ModifiedKeys) :
                        changes = Streamed(nus, olds)
StreamInv == TypeInv /\ (Keyed /\ ~same_server /\ writes = 0 => StreamOf)

LEMMA StreamedKept ==
  ASSUME UNCHANGED <<call, scan>>
  PROVE  /\ InsertedKeys' = InsertedKeys /\ DeletedKeys' = DeletedKeys /\ ModifiedKeys' = ModifiedKeys
         /\ \A nus, olds : Streamed(nus, olds)' = Streamed(nus, olds)
<1>1. InsertedKeys' = InsertedKeys /\ DeletedKeys' = DeletedKeys /\ ModifiedKeys' = ModifiedKeys
  BY DEF InsertedKeys, DeletedKeys, ModifiedKeys
<1>2. Compared' = Compared
  BY CallKept
<1>3. ASSUME NEW nus, NEW olds
      PROVE  Streamed(nus, olds)' = Streamed(nus, olds)
  <2>1. {Change("modified", k, Get(olds, k), Get(nus, k),
              {c \in Compared : Cell(Get(olds, k), c) # Cell(Get(nus, k), c)}, <<0, 0>>) : k \in ModifiedKeys}'
        = {Change("modified", k, Get(olds, k), Get(nus, k),
              {c \in Compared : Cell(Get(olds, k), c) # Cell(Get(nus, k), c)}, <<0, 0>>) : k \in ModifiedKeys}
    BY <1>1, <1>2 DEF Change, Cell, Get
  <2> QED BY <1>1, <2>1 DEF Streamed, Change, Get
<1>4. \A nus, olds : Streamed(nus, olds)' = Streamed(nus, olds)
  BY <1>3
<1> QED BY <1>1, <1>4

LEMMA FetchKept ==
  ASSUME UNCHANGED <<call, base, new, scan>>
  PROVE  /\ \A T, keys : FetchRows(T, keys)' = FetchRows(T, keys)
         /\ \A nus, olds : Streamed(nus, olds)' = Streamed(nus, olds)
         /\ InsertedKeys' = InsertedKeys /\ DeletedKeys' = DeletedKeys /\ ModifiedKeys' = ModifiedKeys
<1>1. key' = key
  BY DEF call
<1>2. ASSUME NEW T, NEW keys
      PROVE  FetchRows(T, keys)' = FetchRows(T, keys)
  BY <1>1 DEF FetchRows, KeyOf
<1>3. \A T, keys : FetchRows(T, keys)' = FetchRows(T, keys)
  BY <1>2
<1> QED BY <1>3, StreamedKept

LEMMA StreamStep ==
  ASSUME StreamInv, [Next]_vars
  PROVE  StreamInv'
<1>1. TypeInv' /\ Placed /\ Placed' /\ UNCHANGED call
  BY TypeStep, PlacedStep DEF StreamInv, TypeInv, ScanInv
<1> SUFFICES ASSUME Keyed', ~same_server', writes' = 0
             PROVE  StreamOf'
  BY <1>1 DEF StreamInv
<1>2. UNCHANGED <<call, base, new, writes>>
  BY <1>1, QuietStep
<1>3. Keyed /\ ~same_server
  BY <1>1, CallKept DEF call
<1>4. StreamOf
  BY <1>2, <1>3 DEF StreamInv
<1>5. pc \notin InSql \cup WithoutKey
  BY <1>1, <1>3 DEF Placed
<1>6. CASE ScanBase \/ ScanNew
  BY <1>6 DEF ScanBase, ScanNew, GoTo, StreamOf
<1>7. CASE FetchNew
  <2>1. pc' = "fetch_base" /\ news' \in FetchRows(new, InsertedKeys \cup ModifiedKeys) /\ scan' = scan
    BY <1>7 DEF FetchNew, GoTo
  <2>2. (FetchRows(new, InsertedKeys \cup ModifiedKeys))' = FetchRows(new, InsertedKeys \cup ModifiedKeys)
    <3>1. /\ \A T, keys : FetchRows(T, keys)' = FetchRows(T, keys)
          /\ new' = new /\ InsertedKeys' = InsertedKeys /\ ModifiedKeys' = ModifiedKeys
      BY <1>2, <2>1, FetchKept
    <3>2. key' = key
      BY <1>2 DEF call
    <3> QED BY <3>1, <3>2 DEF FetchRows, KeyOf
  <2> QED BY <2>1, <2>2 DEF StreamOf
<1>8. CASE FetchBase
  <2>1. PICK olds \in FetchRows(base, DeletedKeys \cup ModifiedKeys) : changes' = Streamed(news, olds)
    BY <1>8 DEF FetchBase, Streamed
  <2>2. pc = "fetch_base" /\ pc' = "done" /\ scan' = scan
    BY <1>8 DEF FetchBase, GoTo
  <2>3. news \in FetchRows(new, InsertedKeys \cup ModifiedKeys)
    BY <1>4, <2>2 DEF StreamOf
  <2> QED BY <1>2, <2>1, <2>2, <2>3, FetchKept DEF StreamOf
<1>9. CASE Write \/ UNCHANGED vars
  <2>1. UNCHANGED <<pc, scan, news, changes>>
    BY <1>9 DEF Write, vars
  <2> QED BY <1>2, <1>4, <2>1, FetchKept DEF StreamOf
<1>10. CASE \/ CountInserted \/ CountDeleted \/ CountModified \/ ListInserted \/ ListDeleted \/ ListModified
            \/ CountBaseHashes \/ CountNewHashes \/ FetchInserted \/ FetchDeleted
  <2>1. pc \in InSql \cup WithoutKey
    BY <1>10 DEF CountInserted, CountDeleted, CountModified, CountChange, ListInserted, ListDeleted,
       ListModified, CountBaseHashes, CountNewHashes, FetchInserted, FetchDeleted, InSql, WithoutKey
  <2> QED BY <1>5, <2>1
<1> QED BY <1>6, <1>7, <1>8, <1>9, <1>10 DEF Next

LEMMA StreamInit == Init => StreamInv
<1> SUFFICES ASSUME Init, Keyed, ~same_server PROVE StreamOf
  BY TypeInit DEF StreamInv
<1>1. pc = "scan_base"
  BY DEF Init
<1> QED BY <1>1 DEF StreamOf

\* What the streaming diff lists is what the scans classified, whoever writes
\* the tables before the rows are fetched.
ListedInv ==
  /\ TypeInv
  /\ pc = "done" /\ Keyed /\ ~same_server => \E nus, olds : changes = Streamed(nus, olds)

LEMMA ListedStep ==
  ASSUME ListedInv, [Next]_vars
  PROVE  ListedInv'
<1>1. TypeInv' /\ Placed /\ UNCHANGED call
  BY TypeStep, PlacedStep DEF ListedInv, TypeInv, ScanInv
<1> SUFFICES ASSUME pc' = "done", Keyed', ~same_server'
             PROVE  \E nus, olds : changes' = Streamed(nus, olds)'
  BY <1>1 DEF ListedInv
<1>2. Keyed /\ ~same_server
  BY <1>1, CallKept DEF call
<1>3. CASE FetchBase
  <2>1. PICK olds \in FetchRows(base, DeletedKeys \cup ModifiedKeys) : changes' = Streamed(news, olds)
    BY <1>3 DEF FetchBase, Streamed
  <2>2. scan' = scan
    BY <1>3 DEF FetchBase
  <2> QED BY <1>1, <2>1, <2>2, StreamedKept
<1>4. CASE Write \/ UNCHANGED vars
  <2>1. UNCHANGED <<pc, scan, changes>>
    BY <1>4 DEF Write, vars
  <2>2. PICK nus, olds : changes = Streamed(nus, olds)
    BY <1>2, <2>1 DEF ListedInv
  <2> QED BY <1>1, <2>1, <2>2, StreamedKept
<1>5. CASE ScanBase \/ ScanNew \/ FetchNew
  BY <1>5 DEF ScanBase, ScanNew, FetchNew, GoTo
<1>6. CASE \/ CountInserted \/ CountDeleted \/ CountModified \/ ListInserted \/ ListDeleted \/ ListModified
           \/ CountBaseHashes \/ CountNewHashes \/ FetchInserted \/ FetchDeleted
  <2>1. pc \in InSql \cup WithoutKey
    BY <1>6 DEF CountInserted, CountDeleted, CountModified, CountChange, ListInserted, ListDeleted,
       ListModified, CountBaseHashes, CountNewHashes, FetchInserted, FetchDeleted, InSql, WithoutKey
  <2> QED BY <1>1, <1>2, <2>1 DEF Placed
<1> QED BY <1>3, <1>4, <1>5, <1>6 DEF Next

LEMMA ListedInit == Init => ListedInv
<1> SUFFICES ASSUME Init, pc = "done" PROVE FALSE
  BY TypeInit DEF ListedInv
<1> QED BY DEF Init

\* One change is listed for each key of the type.
LEMMA OneForEachKey ==
  ASSUME NEW nus, NEW olds, changes = Streamed(nus, olds), NEW type \in ChangeTypes, NEW K, IsFiniteSet(K),
         K = IF type = "inserted" THEN InsertedKeys
             ELSE IF type = "deleted" THEN DeletedKeys ELSE ModifiedKeys
  PROVE  Cardinality(OfType(type)) = Cardinality(K)
<1> DEFINE f == [k \in K |->
                   IF type = "inserted" THEN Change("inserted", k, {}, Get(nus, k), {}, <<0, 0>>)
                   ELSE IF type = "deleted" THEN Change("deleted", k, Get(olds, k), {}, {}, <<0, 0>>)
                   ELSE Change("modified", k, Get(olds, k), Get(nus, k),
                               {c \in Compared : Cell(Get(olds, k), c) # Cell(Get(nus, k), c)}, <<0, 0>>)]
           T == OfType(type)
<1>1. \A k \in K : f[k].key = k /\ f[k].type = type
  BY DEF Change, ChangeTypes
<1>2. ASSUME NEW k \in K PROVE f[k] \in T
  <2>1. f[k] \in changes
    BY <1>2 DEF Streamed, ChangeTypes
  <2> QED BY <1>1, <1>2, <2>1 DEF OfType
<1>3. ASSUME NEW ch \in T PROVE \E k \in K : f[k] = ch
  <2>1. ch.type = type /\ ch \in Streamed(nus, olds)
    BY <1>3 DEF OfType
  <2>2. CASE type = "inserted"
    <3>1. PICK k \in InsertedKeys : ch = Change("inserted", k, {}, Get(nus, k), {}, <<0, 0>>)
      BY <2>1, <2>2 DEF Streamed, Change
    <3> QED BY <2>2, <3>1
  <2>3. CASE type = "deleted"
    <3>1. PICK k \in DeletedKeys : ch = Change("deleted", k, Get(olds, k), {}, {}, <<0, 0>>)
      BY <2>1, <2>3 DEF Streamed, Change
    <3> QED BY <2>3, <3>1
  <2>4. CASE type = "modified"
    <3>1. PICK k \in ModifiedKeys :
            ch = Change("modified", k, Get(olds, k), Get(nus, k),
                        {c \in Compared : Cell(Get(olds, k), c) # Cell(Get(nus, k), c)}, <<0, 0>>)
      BY <2>1, <2>4 DEF Streamed, Change
    <3> QED BY <2>4, <3>1
  <2> QED BY <2>2, <2>3, <2>4 DEF ChangeTypes
<1>4. f \in [K -> T]
  <2>1. DOMAIN f = K /\ f = [k \in K |-> f[k]]
    OBVIOUS
  <2> HIDE DEF f, T
  <2> QED BY <1>2, <2>1
<1>5. \A x, y \in K : f[x] = f[y] => x = y
  <2> HIDE DEF f
  <2> QED BY <1>1
<1>6. Cardinality(T) = Cardinality(K)
  <2> HIDE DEF f, T
  <2> QED BY <1>3, <1>4, <1>5, SameSize
<1> QED BY <1>6

LEMMA StreamFits ==
  ASSUME ListedInv, pc = "done", Keyed, ~same_server, NEW type \in ChangeTypes
  PROVE  Cardinality(OfType(type)) = count[type]
<1>1. Placed /\ StreamingOrDone
  BY DEF ListedInv, TypeInv, ScanInv, StreamingOrDone
<1>2. PICK B \in seen.base : scan.base \in ScanHashes(B)
  BY <1>1 DEF ListedInv, TypeInv, ScanInv
<1>3. PICK N \in seen.new : scan.new \in ScanHashes(N)
  BY <1>1 DEF ListedInv, TypeInv, ScanInv
<1>4. count = StreamCounts
  BY <1>1 DEF ListedInv, TypeInv, ScanInv
<1>5. IsFiniteSet(DOMAIN B) /\ IsFiniteSet(DOMAIN N)
  BY <1>1, RowTypes DEF IsTable
<1>6. IsFiniteSet(DOMAIN scan.base) /\ IsFiniteSet(DOMAIN scan.new)
  BY <1>2, <1>3, <1>5, ScanFinite
<1>7. IsFiniteSet(InsertedKeys) /\ IsFiniteSet(DeletedKeys) /\ IsFiniteSet(ModifiedKeys)
  <2>1. /\ InsertedKeys \in SUBSET DOMAIN scan.new /\ DeletedKeys \in SUBSET DOMAIN scan.base
        /\ ModifiedKeys \in SUBSET DOMAIN scan.base
    BY DEF InsertedKeys, DeletedKeys, ModifiedKeys
  <2> QED BY <1>6, <2>1, FS_Subset
<1>8. PICK nus, olds : changes = Streamed(nus, olds)
  BY DEF ListedInv
<1> DEFINE K == IF type = "inserted" THEN InsertedKeys
                ELSE IF type = "deleted" THEN DeletedKeys ELSE ModifiedKeys
<1>9. IsFiniteSet(K) /\ count[type] = Cardinality(K)
  BY <1>4, <1>7 DEF StreamCounts, ChangeTypes
<1>10. Cardinality(OfType(type)) = Cardinality(K)
  BY <1>8, <1>9, OneForEachKey
<1> QED BY <1>9, <1>10

\* "Counts are exact; detail is capped": of each type as many changes are listed
\* as were counted, up to the cap in SQL (row_diff.py:167-211, of tables that
\* nobody writes meanwhile), and all of them on two servers (row_diff.py:85-120,
\* whoever writes the tables between the scans and the fetch).
THEOREM DetailFits == Spec => []DetailMatchesCounts
<1>1. SqlInv /\ [Next]_vars => SqlInv'
  BY SqlStep
<1>2. ListedInv /\ [Next]_vars => ListedInv'
  BY ListedStep
<1>3. ASSUME SqlInv, ListedInv PROVE DetailMatchesCounts
  <2> SUFFICES ASSUME pc = "done", Keyed, NEW type \in DOMAIN count
               PROVE  IF same_server
                      THEN writes = 0 =>
                             Cardinality(OfType(type)) = IF count[type] > cap THEN cap ELSE count[type]
                      ELSE Cardinality(OfType(type)) = count[type]
    BY DEF DetailMatchesCounts
  <2>1. type \in ChangeTypes
    BY <1>3 DEF SqlInv, TypeInv, CountType, ChangeTypes
  <2>2. CASE same_server
    <3>1. writes = 0 => SqlQuiet
      BY <2>2 DEF SqlQuiet
    <3> QED BY <1>3, <2>1, <2>2, <3>1, SqlFits
  <2>3. CASE ~same_server
    BY <1>3, <2>1, <2>3, StreamFits
  <2> QED BY <2>2, <2>3
<1>4. SqlInv /\ ListedInv => DetailMatchesCounts
  BY <1>3
<1> QED BY <1>1, <1>2, <1>4, SqlInit, ListedInit, PTL DEF Spec

\* The row of a key is found, as it is.
LEMMA RowFetched ==
  ASSUME Keyed, NEW T, NEW cols, Good(T, cols), key \subseteq cols, Common \subseteq cols,
         NEW i \in DOMAIN T, NEW keys, KeyOf(T[i]) \in keys, NEW f \in FetchRows(T, keys)
  PROVE  Get(f, KeyOf(T[i])) = {Show(T[i], Common)}
<1> DEFINE k == KeyOf(T[i])
<1>1. DOMAIN f = {x \in keys : /\ \A c \in key : x[c] # Null
                               /\ \E r \in Rows(T) : KeyOf(r) = x}
  BY DEF FetchRows
<1>2. \A c \in key : k[c] # Null
  BY DEF Good, KeyHolds, KeyOf
<1>3. k \in DOMAIN f
  BY <1>1, <1>2 DEF Rows
<1>4. f[k] \in {Show(r, Common) : r \in Rows(T)} /\ KeyOf(f[k]) = k
  BY <1>3 DEF FetchRows
<1>5. PICK j \in DOMAIN T : f[k] = Show(T[j], Common)
  BY <1>4 DEF Rows
<1>6. KeyOf(Show(T[j], Common)) = KeyOf(T[j])
  <2>1. key \subseteq DOMAIN T[j]
    BY <1>5 DEF Good
  <2> QED BY <2>1, KeyShown DEF Keyed
<1>7. i = j
  BY <1>4, <1>5, <1>6, KeyNames
<1> QED BY <1>3, <1>5, <1>7 DEF Get

LEMMA CommonShows ==
  ASSUME Keyed, ~same_server, NEW r, Common \subseteq DOMAIN r
  PROVE  View(Show(r, Common)) = View(r) /\ \A c \in key \cup Compared : Show(r, Common)[c] = View(r)[c]
<1>1. key \cup Compared \subseteq Common
  BY DEF Keyed, Compared
<1>2. \A c \in key \cup Compared : Show(r, Common)[c] = r[c] /\ View(r)[c] = r[c]
  BY <1>1 DEF Show, View
<1>3. \A c \in key \cup Compared : View(Show(r, Common))[c] = r[c]
  BY <1>1 DEF Show, View
<1>4. /\ View(r) = [c \in key \cup Compared |-> View(r)[c]]
      /\ View(Show(r, Common)) = [c \in key \cup Compared |-> View(Show(r, Common))[c]]
  BY DEF Show, View
<1>5. [c \in key \cup Compared |-> View(r)[c]] = [c \in key \cup Compared |-> View(Show(r, Common))[c]]
  BY <1>2, <1>3
<1> QED BY <1>2, <1>4, <1>5

\* The keys of the scans are those of the unpaired rows and differing pairs.
LEMMA KeysTell ==
  ASSUME HashesApart, Keyed, Good(base, BaseColumns), Good(new, NewColumns),
         scan.base \in ScanHashes(base), scan.new \in ScanHashes(new)
  PROVE  /\ InsertedKeys = {KeyOf(new[j]) : j \in Unpaired(base, new)}
         /\ DeletedKeys = {KeyOf(base[i]) : i \in UnpairedBase(base, new)}
         /\ ModifiedKeys = {KeyOf(base[p[1]]) : p \in DifferingOf(base, new)}
<1> DEFINE b == scan.base
           n == scan.new
<1> HIDE DEF b, n
<1>1. b \in ScanHashes(base) /\ n \in ScanHashes(new)
  BY DEF b, n
<1>2. /\ DOMAIN b = {KeyOf(base[i]) : i \in DOMAIN base}
      /\ \A i \in DOMAIN base : b[KeyOf(base[i])] = Hash(base[i], Compared)
      /\ DOMAIN n = {KeyOf(new[i]) : i \in DOMAIN new}
      /\ \A i \in DOMAIN new : n[KeyOf(new[i])] = Hash(new[i], Compared)
  BY <1>1, ScanTells
<1>3. DOMAIN n \ DOMAIN b = {KeyOf(new[j]) : j \in Unpaired(base, new)}
  <2>1. Unpaired(base, new) = {j \in DOMAIN new : \A i \in DOMAIN base : KeyOf(base[i]) # KeyOf(new[j])}
    BY Unpaireds
  <2> QED BY <1>2, <2>1
<1>4. DOMAIN b \ DOMAIN n = {KeyOf(base[i]) : i \in UnpairedBase(base, new)}
  <2>1. UnpairedBase(base, new) = {i \in DOMAIN base : \A j \in DOMAIN new : KeyOf(base[i]) # KeyOf(new[j])}
    BY Unpaireds
  <2> QED BY <1>2, <2>1
<1>5. ASSUME NEW p \in DifferingOf(base, new)
      PROVE  /\ KeyOf(base[p[1]]) \in DOMAIN b \cap DOMAIN n
             /\ b[KeyOf(base[p[1]])] # n[KeyOf(base[p[1]])]
  <2>1. p \in PairsOf(base, new) /\ View(base[p[1]]) # View(new[p[2]])
    BY <1>5 DEF DifferingOf
  <2>2. /\ p[1] \in DOMAIN base /\ p[2] \in DOMAIN new /\ KeyOf(base[p[1]]) = KeyOf(new[p[2]])
        /\ Hash(base[p[1]], Compared) # Hash(new[p[2]], Compared)
    BY <2>1, PairOf, PairDiffers
  <2> QED BY <1>2, <2>2
<1>6. ASSUME NEW k \in DOMAIN b \cap DOMAIN n, b[k] # n[k]
      PROVE  \E p \in DifferingOf(base, new) : KeyOf(base[p[1]]) = k
  <2>1. PICK i \in DOMAIN base : KeyOf(base[i]) = k
    BY <1>2, <1>6
  <2>2. PICK j \in DOMAIN new : KeyOf(new[j]) = k
    BY <1>2, <1>6
  <2>3. Hash(base[i], Compared) # Hash(new[j], Compared)
    BY <1>2, <1>6, <2>1, <2>2
  <2> DEFINE p == <<i, j>>
  <2>4. p[1] = i /\ p[2] = j /\ p \in PairsOf(base, new)
    BY <2>1, <2>2 DEF PairsOf
  <2> HIDE DEF p
  <2>5. View(base[p[1]]) # View(new[p[2]])
    BY <2>3, <2>4, PairDiffers
  <2> QED BY <2>1, <2>4, <2>5 DEF DifferingOf
<1>7. {k \in DOMAIN b \cap DOMAIN n : b[k] # n[k]} = {KeyOf(base[p[1]]) : p \in DifferingOf(base, new)}
  <2>1. \A k \in {x \in DOMAIN b \cap DOMAIN n : b[x] # n[x]} :
          \E p \in DifferingOf(base, new) : KeyOf(base[p[1]]) = k
    BY <1>6
  <2>2. \A p \in DifferingOf(base, new) : KeyOf(base[p[1]]) \in {x \in DOMAIN b \cap DOMAIN n : b[x] # n[x]}
    BY <1>5
  <2> QED BY <2>1, <2>2
<1> QED BY <1>3, <1>4, <1>7 DEF InsertedKeys, DeletedKeys, ModifiedKeys, b, n

LEMMA StreamPatch ==
  ASSUME StreamInv, Quiet, Keyed, ~same_server, HashesApart, KeysHold
  PROVE  IsPatch
<1>1. Placed /\ ScanInv /\ StreamOf /\ pc = "done" /\ seen.base = {base} /\ seen.new = {new}
  BY DEF StreamInv, Quiet, TypeInv, ScanInv, Placed
<1>2. Good(base, BaseColumns) /\ Good(new, NewColumns)
  BY <1>1, SeenGood
<1>3. scan.base \in ScanHashes(base) /\ scan.new \in ScanHashes(new)
  BY <1>1 DEF ScanInv, StreamingOrDone
<1>4. /\ InsertedKeys = {KeyOf(new[j]) : j \in Unpaired(base, new)}
      /\ DeletedKeys = {KeyOf(base[i]) : i \in UnpairedBase(base, new)}
      /\ ModifiedKeys = {KeyOf(base[p[1]]) : p \in DifferingOf(base, new)}
  BY <1>2, <1>3, KeysTell
<1>5. PICK nus \in FetchRows(new, InsertedKeys \cup ModifiedKeys) :
        \E olds \in FetchRows(base, DeletedKeys \cup ModifiedKeys) : changes = Streamed(nus, olds)
  BY <1>1 DEF StreamOf
<1>6. PICK olds \in FetchRows(base, DeletedKeys \cup ModifiedKeys) : changes = Streamed(nus, olds)
  BY <1>5
<1>7. /\ key \subseteq BaseColumns /\ Common \subseteq BaseColumns
      /\ key \subseteq NewColumns /\ Common \subseteq NewColumns
  BY DEF Keyed, Common
<1>8. ASSUME NEW j \in DOMAIN new, KeyOf(new[j]) \in InsertedKeys \cup ModifiedKeys
      PROVE  Get(nus, KeyOf(new[j])) = {Show(new[j], Common)}
  BY <1>2, <1>5, <1>7, <1>8, RowFetched
<1>9. ASSUME NEW i \in DOMAIN base, KeyOf(base[i]) \in DeletedKeys \cup ModifiedKeys
      PROVE  Get(olds, KeyOf(base[i])) = {Show(base[i], Common)}
  BY <1>2, <1>6, <1>7, <1>9, RowFetched
<1>10. /\ \A j \in DOMAIN new : Common \subseteq DOMAIN new[j]
       /\ \A i \in DOMAIN base : Common \subseteq DOMAIN base[i]
  BY <1>2, <1>7 DEF Good
<1> DEFINE Ins(k) == Change("inserted", k, {}, Get(nus, k), {}, <<0, 0>>)
           Del(k) == Change("deleted", k, Get(olds, k), {}, {}, <<0, 0>>)
           Mod(k) == Change("modified", k, Get(olds, k), Get(nus, k),
                            {c \in Compared : Cell(Get(olds, k), c) # Cell(Get(nus, k), c)}, <<0, 0>>)
<1>11. \A k : Ins(k).type = "inserted" /\ Del(k).type = "deleted" /\ Mod(k).type = "modified"
  BY DEF Change
<1>12. \A k : Ins(k).new = Get(nus, k) /\ Del(k).key = k
  BY DEF Change
<1>13. \A k : /\ Mod(k).key = k /\ Mod(k).old = Get(olds, k) /\ Mod(k).new = Get(nus, k)
              /\ Mod(k).changed = {c \in Compared : Cell(Get(olds, k), c) # Cell(Get(nus, k), c)}
  BY DEF Change
<1>14. changes = {Ins(k) : k \in InsertedKeys} \cup {Del(k) : k \in DeletedKeys} \cup {Mod(k) : k \in ModifiedKeys}
  BY <1>6 DEF Streamed
<1> HIDE DEF Ins, Del, Mod
<1>15. /\ OfType("inserted") = {Ins(k) : k \in InsertedKeys}
       /\ OfType("deleted") = {Del(k) : k \in DeletedKeys}
       /\ OfType("modified") = {Mod(k) : k \in ModifiedKeys}
  BY <1>11, <1>14 DEF OfType
<1>16. ASSUME NEW j \in Unpaired(base, new)
       PROVE  Adds(Ins(KeyOf(new[j])), j)
  <2>1. j \in DOMAIN new /\ KeyOf(new[j]) \in InsertedKeys
    BY <1>4, <1>16 DEF Unpaired
  <2>2. Ins(KeyOf(new[j])).new = {Show(new[j], Common)}
    BY <1>8, <1>12, <2>1
  <2>3. View(Show(new[j], Common)) = View(new[j])
    BY <1>10, <2>1, CommonShows
  <2> QED BY <2>2, <2>3 DEF Adds
<1>17. ASSUME NEW p \in DifferingOf(base, new)
       PROVE  Mends(Mod(KeyOf(base[p[1]])), p)
  <2> DEFINE k == KeyOf(base[p[1]])
             o == Show(base[p[1]], Common)
             n == Show(new[p[2]], Common)
             ch == Mod(k)
  <2>1. /\ p[1] \in DOMAIN base /\ p[2] \in DOMAIN new
        /\ KeyOf(base[p[1]]) = KeyOf(new[p[2]])
    BY PairOf DEF DifferingOf
  <2>2. k \in ModifiedKeys
    BY <1>4, <1>17
  <2>3. Get(olds, k) = {o} /\ Get(nus, k) = {n}
    BY <1>8, <1>9, <2>1, <2>2
  <2>4. ch.key = k /\ ch.old = {o} /\ ch.new = {n}
    BY <1>13, <2>3
  <2>5. ch.changed = {c \in Compared : o[c] # n[c]}
    <3>1. ch.changed = {c \in Compared : Cell(Get(olds, k), c) # Cell(Get(nus, k), c)}
      BY <1>13
    <3>2. \A c : Cell(Get(olds, k), c) = o[c] /\ Cell(Get(nus, k), c) = n[c]
      <4> HIDE DEF o, n, k
      <4> QED BY <2>3, CellIs
    <3> HIDE DEF o, n, k, ch
    <3> QED BY <3>1, <3>2
  <2>6. \A c \in key \cup Compared : o[c] = View(base[p[1]])[c] /\ n[c] = View(new[p[2]])[c]
    BY <1>10, <2>1, CommonShows
  <2> HIDE DEF o, n, ch
  <2>7. Mends(ch, p)
    BY <2>4, <2>5, <2>6 DEF Mends
  <2> QED BY <2>7 DEF ch
<1>18. /\ \A ch \in OfType("inserted") : \E j \in Unpaired(base, new) : Adds(ch, j)
       /\ \A j \in Unpaired(base, new) : \E ch \in OfType("inserted") : Adds(ch, j)
  BY <1>4, <1>15, <1>16
<1>19. /\ \A ch \in OfType("modified") : \E p \in DifferingOf(base, new) : Mends(ch, p)
       /\ \A p \in DifferingOf(base, new) : \E ch \in OfType("modified") : Mends(ch, p)
  BY <1>4, <1>15, <1>17
<1>20. {ch.key : ch \in OfType("deleted")} = {KeyOf(base[i]) : i \in UnpairedBase(base, new)}
  <2>1. {ch.key : ch \in OfType("deleted")} = DeletedKeys
    BY <1>12, <1>15
  <2> QED BY <1>4, <2>1
<1> QED BY <1>18, <1>19, <1>20 DEF IsPatch

\* The detail of an uncapped diff that nobody disturbed is a patch: deleting,
\* inserting and changing what it lists turns the base table into the new one,
\* with either algorithm.
THEOREM DetailIsPatch ==
  ASSUME HashesApart, KeysHold
  PROVE  Spec => []ChangesPatchBase
<1>1. SqlInv /\ [Next]_vars => SqlInv'
  BY SqlStep
<1>2. StreamInv /\ [Next]_vars => StreamInv'
  BY StreamStep
<1>3. ASSUME SqlInv, StreamInv PROVE ChangesPatchBase
  <2> SUFFICES ASSUME Quiet, Keyed, ~noted
               PROVE  LET gone == {ch.key : ch \in OfType("deleted") \cup OfType("modified")}
                          kept == {View(r) : r \in {x \in Rows(base) : KeyOf(x) \notin gone}}
                          added == UNION {{View(r) : r \in ch.new} : ch \in OfType("inserted")}
                          mended == {Mended(ch) : ch \in OfType("modified")}
                      IN /\ kept \cup added \cup mended = {View(r) : r \in Rows(new)}
                         /\ \A ch \in OfType("modified") : ch.changed # {}
    BY DEF ChangesPatchBase, Mended
  <2>1. IsPatch
    <3>1. CASE same_server
      BY <1>3, <3>1, SqlPatch
    <3>2. CASE ~same_server
      BY <1>3, <3>2, StreamPatch
    <3> QED BY <3>1, <3>2
  <2>2. Good(base, BaseColumns) /\ Good(new, NewColumns)
    BY <1>3, SeenGood DEF SqlInv, TypeInv, ScanInv, Placed
  <2>3. \A ch \in OfType("modified") : ch.changed # {}
    <3> SUFFICES ASSUME NEW ch \in OfType("modified") PROVE ch.changed # {}
      OBVIOUS
    <3>1. PICK p \in DifferingOf(base, new) : Mends(ch, p)
      BY <2>1 DEF IsPatch
    <3> QED BY <2>2, <3>1, MendsWell
  <2> QED BY <2>1, <2>2, <2>3, PatchWorks
<1>4. SqlInv /\ StreamInv => ChangesPatchBase
  BY <1>3
<1> QED BY <1>1, <1>2, <1>4, SqlInit, StreamInit, PTL DEF Spec
-----------------------------------------------------------------------------
(* The detail without a key, of tables that nobody writes meanwhile.        *)

LEMMA LimitAll ==
  ASSUME NEW S, Cardinality(S) <= cap, NEW L \in Limit(S)
  PROVE  L = S
  BY DEF Limit

\* The rows that are looked for are the surplus.
LEMMA SurplusIs ==
  ASSUME HashesApart, ~Keyed, NEW T, NEW U, NEW cols, NEW cols2, Good(T, cols), Good(U, cols2)
  PROVE  LET X == Excess(HashCounts(T), HashCounts(U))
         IN /\ Surplus(T, U) = {i \in DOMAIN T : Hash(T[i], Compared) \in DOMAIN X}
            /\ DOMAIN X = {Hash(T[i], Compared) : i \in Surplus(T, U)}
            /\ IsFiniteSet(Surplus(T, U)) /\ IsFiniteSet(DOMAIN X)
            /\ Cardinality(DOMAIN X) <= Cardinality(Surplus(T, U))
<1> DEFINE X == Excess(HashCounts(T), HashCounts(U))
           S == Surplus(T, U)
           f == [i \in S |-> Hash(T[i], Compared)]
<1>1. \A i \in DOMAIN T : Hash(T[i], Compared) \in DOMAIN X <=> Copies(T, View(T[i])) > Copies(U, View(T[i]))
  <2> SUFFICES ASSUME NEW i \in DOMAIN T
               PROVE  Hash(T[i], Compared) \in DOMAIN X <=> Copies(T, View(T[i])) > Copies(U, View(T[i]))
    OBVIOUS
  <2>1. Clean(T[i])
    BY DEF Good
  <2> DEFINE r == T[i]
  <2> HIDE DEF r
  <2>2. Clean(r)
    BY <2>1 DEF r
  <2>3. Hash(r, Compared) \in DOMAIN X <=> Copies(T, View(r)) > Copies(U, View(r))
    BY <2>2, ExcessCopies
  <2> QED BY <2>3 DEF r
<1>2. S = {i \in DOMAIN T : Hash(T[i], Compared) \in DOMAIN X}
  BY <1>1 DEF Surplus
<1>3. \A h \in DOMAIN X : \E i \in DOMAIN T : h = Hash(T[i], Compared)
  BY DEF Excess, HashCounts, Rows
<1> HIDE DEF X, S
<1>4. DOMAIN X = {f[i] : i \in S}
  BY <1>2, <1>3
<1>5. IsFiniteSet(S)
  <2>1. IsFiniteSet(DOMAIN T) /\ S \in SUBSET DOMAIN T
    BY <1>2 DEF Good
  <2> QED BY <2>1, FS_Subset
<1>6. DOMAIN X = {Hash(T[i], Compared) : i \in S}
  BY <1>4
<1>7. IsFiniteSet(DOMAIN X) /\ Cardinality(DOMAIN X) <= Cardinality(S)
  <2> HIDE DEF f
  <2> QED BY <1>4, <1>5, ImageFinite
<1> QED BY <1>2, <1>5, <1>6, <1>7 DEF X, S

\* Rows fetched by hash: never more than the surplus, and if the surplus fits
\* under the cap all of it.
LEMMA FetchedByHash ==
  ASSUME Placed, HashesApart, ~Keyed,
         NEW T, NEW U, NEW cols, NEW cols2, Good(T, cols), Good(U, cols2),
         NEW S \in ByHash(T, DOMAIN Excess(HashCounts(T), HashCounts(U))), NEW v
  PROVE  LET L == {i \in S : View(T[i]) = v}
             more == Over(Copies(T, v), Copies(U, v))
         IN /\ IsFiniteSet(L)
            /\ more = 0 => Cardinality(L) = 0
            /\ Cardinality(Surplus(T, U)) <= cap => Cardinality(L) >= more
<1> DEFINE X == Excess(HashCounts(T), HashCounts(U))
           P == Surplus(T, U)
           L == {i \in S : View(T[i]) = v}
           more == Over(Copies(T, v), Copies(U, v))
           All == {i \in DOMAIN T : View(T[i]) = v}
           AllU == {i \in DOMAIN U : View(U[i]) = v}
<1>1. /\ P = {i \in DOMAIN T : Hash(T[i], Compared) \in DOMAIN X}
      /\ IsFiniteSet(P) /\ IsFiniteSet(DOMAIN X)
      /\ Cardinality(DOMAIN X) <= Cardinality(P)
  BY SurplusIs
<1>2. S \subseteq P
  BY <1>1, ByHashWithin
<1>3. IsFiniteSet(L)
  <2>1. L \in SUBSET P
    BY <1>2
  <2> QED BY <1>1, <2>1, FS_Subset
<1>4. Copies(T, v) \in Nat /\ Copies(U, v) \in Nat
  <2>1. IsFiniteSet(DOMAIN T) /\ IsFiniteSet(DOMAIN U) /\ All \in SUBSET DOMAIN T /\ AllU \in SUBSET DOMAIN U
    BY DEF Good
  <2>2. Cardinality(All) \in Nat /\ Cardinality(AllU) \in Nat
    BY <2>1, FS_Subset, FS_CardinalityType
  <2> QED BY <2>2 DEF Copies
<1>5. \A i \in P : Copies(T, View(T[i])) > Copies(U, View(T[i]))
  BY DEF Surplus
<1>6. more = 0 => Cardinality(L) = 0
  <2> SUFFICES ASSUME more = 0 PROVE L = {}
    BY FS_EmptySet
  <2>1. ~(Copies(T, v) > Copies(U, v))
    BY <1>4 DEF Over
  <2> HIDE DEF P
  <2> QED BY <1>2, <1>5, <2>1
<1>7. ASSUME Cardinality(P) <= cap
      PROVE  Cardinality(L) >= more
  <2>1. PICK H \in Limit(DOMAIN X) : S \in Limit({i \in DOMAIN T : Hash(T[i], Compared) \in H})
    BY DEF ByHash
  <2>2. Cardinality(P) \in Nat /\ Cardinality(DOMAIN X) \in Nat /\ cap \in Nat
    BY <1>1, FS_CardinalityType, RowDiffAssumption DEF Placed
  <2>3. H = DOMAIN X
    <3>1. Cardinality(DOMAIN X) <= cap
      <4> HIDE DEF P, X
      <4> QED BY <1>1, <1>7, <2>2
    <3> QED BY <2>1, <3>1, LimitAll
  <2>4. S \in Limit(P)
    BY <1>1, <2>1, <2>3
  <2>5. S = P
    BY <1>7, <2>4, LimitAll
  <2>6. CASE Copies(T, v) > Copies(U, v)
    <3>1. L = All
      <4>1. All \subseteq P
        BY <2>6 DEF Surplus
      <4> HIDE DEF P
      <4> QED BY <1>1, <2>5, <4>1
    <3>2. Cardinality(L) = Copies(T, v)
      BY <3>1 DEF Copies
    <3>3. more = Copies(T, v) - Copies(U, v)
      BY <2>6 DEF Over
    <3> HIDE DEF L, more
    <3> QED BY <1>4, <3>2, <3>3
  <2>7. CASE ~(Copies(T, v) > Copies(U, v))
    <3>1. more = 0
      BY <2>7 DEF Over
    <3>2. Cardinality(L) \in Nat
      BY <1>3, FS_CardinalityType
    <3> HIDE DEF L, more
    <3> QED BY <3>1, <3>2
  <2> QED BY <2>6, <2>7
<1> QED BY <1>3, <1>6, <1>7
InsertedRow(j) == Change("inserted", Empty, {}, {Show(new[j], Common)}, {}, <<0, j>>)
DeletedRow(i) == Change("deleted", Empty, {Show(base[i], Common)}, {}, {}, <<i, 0>>)
MoreInNew == DOMAIN Excess(HashCounts(new), HashCounts(base))
MoreInBase == DOMAIN Excess(HashCounts(base), HashCounts(new))

KeylessOf ==
  /\ pc \in {"count_base", "count_new", "fetch_inserted"} => changes = {}
  /\ pc \in {"fetch_deleted", "done"} =>
       \E S \in ByHash(new, MoreInNew) : OfType("inserted") = {InsertedRow(j) : j \in S}
  /\ pc = "fetch_deleted" => OfType("deleted") = {}
  /\ pc = "done" =>
       \E S \in ByHash(base, MoreInBase) : OfType("deleted") = {DeletedRow(i) : i \in S}
KeylessInv == TypeInv /\ (~Keyed /\ writes = 0 => KeylessOf)

LEMMA KeylessKept ==
  ASSUME UNCHANGED <<call, base, new>>
  PROVE  /\ MoreInNew' = MoreInNew /\ MoreInBase' = MoreInBase
         /\ ByHash(new, MoreInNew)' = ByHash(new, MoreInNew)
         /\ ByHash(base, MoreInBase)' = ByHash(base, MoreInBase)
         /\ \A j : InsertedRow(j)' = InsertedRow(j) /\ DeletedRow(j)' = DeletedRow(j)
<1>1. /\ Compared' = Compared /\ base' = base /\ new' = new
      /\ \A T : HashCounts(T)' = HashCounts(T)
      /\ \A S : Limit(S)' = Limit(S)
  BY CallKept
<1>2. HashCounts(base)' = HashCounts(base) /\ HashCounts(new)' = HashCounts(new)
  BY <1>1 DEF HashCounts, Hash
<1>3. MoreInNew' = MoreInNew /\ MoreInBase' = MoreInBase
  BY <1>2 DEF MoreInNew, MoreInBase, Excess
<1>4. cap' = cap
  BY DEF call
<1>5. ByHash(new, MoreInNew)' = ByHash(new, MoreInNew)
  BY <1>1, <1>3, <1>4 DEF ByHash, Limit, Hash, kSubset
<1>6. ByHash(base, MoreInBase)' = ByHash(base, MoreInBase)
  BY <1>1, <1>3, <1>4 DEF ByHash, Limit, Hash, kSubset
<1>7. \A j : InsertedRow(j)' = InsertedRow(j) /\ DeletedRow(j)' = DeletedRow(j)
  BY <1>1 DEF InsertedRow, DeletedRow, Change, Show
<1> QED BY <1>3, <1>5, <1>6, <1>7

LEMMA KeylessSame ==
  ASSUME KeylessOf, UNCHANGED <<call, base, new, pc, changes>>
  PROVE  KeylessOf'
<1>1. \A type : OfType(type)' = OfType(type)
  BY DEF OfType
<1> QED BY <1>1, KeylessKept DEF KeylessOf

LEMMA KeylessStep ==
  ASSUME KeylessInv, [Next]_vars
  PROVE  KeylessInv'
<1>1. TypeInv' /\ TypeInv /\ ScanInv /\ ScanInv' /\ Placed /\ Placed' /\ UNCHANGED call
  BY TypeStep, PlacedStep DEF KeylessInv, TypeInv, ScanInv
<1> SUFFICES ASSUME ~Keyed', writes' = 0
             PROVE  KeylessOf'
  BY <1>1 DEF KeylessInv
<1>2. UNCHANGED <<call, base, new, writes, seen>>
  BY <1>1, QuietStep
<1>3. ~Keyed
  BY <1>1, CallKept
<1>4. KeylessOf /\ seen.base = {base} /\ seen.new = {new}
  BY <1>1, <1>2, <1>3 DEF KeylessInv, Placed
<1>5. pc \notin InSql \cup Streaming
  BY <1>1, <1>3 DEF Placed
<1>6. CASE CountBaseHashes \/ CountNewHashes
  BY <1>4, <1>6 DEF CountBaseHashes, CountNewHashes, GoTo, KeylessOf
<1>7. CASE FetchInserted
  <2>1. pc = "fetch_inserted" /\ pc' = "fetch_deleted"
    BY <1>7 DEF FetchInserted, List, GoTo
  <2>2. scan.base = HashCounts(base) /\ scan.new = HashCounts(new)
    BY <1>1, <1>4, <2>1 DEF ScanInv, WithoutKeyOrDone
  <2>3. PICK S \in ByHash(new, MoreInNew) : changes' = changes \cup {InsertedRow(j) : j \in S}
    BY <1>7, <2>2 DEF FetchInserted, List, InsertedRow, MoreInNew
  <2>4. changes = {}
    BY <1>4, <2>1 DEF KeylessOf
  <2>5. \A j : InsertedRow(j).type = "inserted"
    BY DEF InsertedRow, Change
  <2>6. OfType("inserted")' = {InsertedRow(j) : j \in S} /\ OfType("deleted")' = {}
    BY <2>3, <2>4, <2>5 DEF OfType
  <2>7. S \in ByHash(new, MoreInNew)' /\ {InsertedRow(j)' : j \in S} = {InsertedRow(j) : j \in S}
    BY <1>2, <2>3, KeylessKept
  <2> QED BY <2>1, <2>6, <2>7 DEF KeylessOf
<1>8. CASE FetchDeleted
  <2>1. pc = "fetch_deleted" /\ pc' = "done"
    BY <1>8 DEF FetchDeleted, List, GoTo
  <2>2. scan.base = HashCounts(base) /\ scan.new = HashCounts(new)
    BY <1>1, <1>4, <2>1 DEF ScanInv, WithoutKeyOrDone
  <2>3. PICK S \in ByHash(base, MoreInBase) : changes' = changes \cup {DeletedRow(i) : i \in S}
    BY <1>8, <2>2 DEF FetchDeleted, List, DeletedRow, MoreInBase
  <2>4. PICK Z \in ByHash(new, MoreInNew) : OfType("inserted") = {InsertedRow(j) : j \in Z}
    BY <1>4, <2>1 DEF KeylessOf
  <2>5. OfType("deleted") = {}
    BY <1>4, <2>1 DEF KeylessOf
  <2>6. \A i : DeletedRow(i).type = "deleted"
    BY DEF DeletedRow, Change
  <2>7. OfType("inserted")' = {InsertedRow(j) : j \in Z} /\ OfType("deleted")' = {DeletedRow(i) : i \in S}
    <3>1. OfType("inserted")' = OfType("inserted")
      BY <2>3, <2>6 DEF OfType
    <3>2. OfType("deleted")' = {DeletedRow(i) : i \in S}
      BY <2>3, <2>5, <2>6 DEF OfType
    <3> QED BY <2>4, <3>1, <3>2
  <2>8. /\ Z \in ByHash(new, MoreInNew)' /\ {InsertedRow(j)' : j \in Z} = {InsertedRow(j) : j \in Z}
        /\ S \in ByHash(base, MoreInBase)' /\ {DeletedRow(i)' : i \in S} = {DeletedRow(i) : i \in S}
    BY <1>2, <2>3, <2>4, KeylessKept
  <2> QED BY <2>1, <2>7, <2>8 DEF KeylessOf
<1>9. CASE Write \/ UNCHANGED vars
  <2>1. UNCHANGED <<pc, changes>>
    BY <1>9 DEF Write, vars
  <2> QED BY <1>2, <1>4, <2>1, KeylessSame
<1>10. CASE \/ ScanBase \/ ScanNew \/ FetchNew \/ FetchBase
            \/ CountInserted \/ CountDeleted \/ CountModified \/ ListInserted \/ ListDeleted \/ ListModified
  <2>1. pc \in InSql \cup Streaming
    BY <1>10 DEF CountInserted, CountDeleted, CountModified, CountChange, ListInserted, ListDeleted,
       ListModified, ScanBase, ScanNew, FetchNew, FetchBase, InSql, Streaming
  <2> QED BY <1>5, <2>1
<1> QED BY <1>6, <1>7, <1>8, <1>9, <1>10 DEF Next

LEMMA KeylessInit == Init => KeylessInv
<1> SUFFICES ASSUME Init, ~Keyed PROVE KeylessOf
  BY TypeInit DEF KeylessInv
<1>1. pc = "count_base" /\ changes = {}
  BY DEF Init
<1> QED BY <1>1 DEF KeylessOf

\* What is listed of a row is as much as was fetched of it.
LEMMA ListedIs ==
  ASSUME ~Keyed, NEW v,
         \A j \in DOMAIN new : Common \subseteq DOMAIN new[j],
         \A i \in DOMAIN base : Common \subseteq DOMAIN base[i]
  PROVE  /\ \A S \in SUBSET DOMAIN new : IsFiniteSet({j \in S : View(new[j]) = v}) =>
              Cardinality({ch \in {InsertedRow(j) : j \in S} : \A r \in ch.old \cup ch.new : Show(r, Compared) = v})
                = Cardinality({j \in S : View(new[j]) = v})
         /\ \A S \in SUBSET DOMAIN base : IsFiniteSet({i \in S : View(base[i]) = v}) =>
              Cardinality({ch \in {DeletedRow(i) : i \in S} : \A r \in ch.old \cup ch.new : Show(r, Compared) = v})
                = Cardinality({i \in S : View(base[i]) = v})
<1>1. ASSUME NEW x, Common \subseteq DOMAIN x
      PROVE  Show(Show(x, Common), Compared) = View(x)
  <2>1. Compared \subseteq Common
    BY DEF Compared
  <2> QED BY <1>1, <2>1 DEF Show, View
<1>2. ASSUME NEW S \in SUBSET DOMAIN new, IsFiniteSet({j \in S : View(new[j]) = v})
      PROVE  Cardinality({ch \in {InsertedRow(j) : j \in S} : \A r \in ch.old \cup ch.new : Show(r, Compared) = v})
                = Cardinality({j \in S : View(new[j]) = v})
  <2> DEFINE L == {j \in S : View(new[j]) = v}
             C == {ch \in {InsertedRow(j) : j \in S} : \A r \in ch.old \cup ch.new : Show(r, Compared) = v}
             f == [j \in L |-> InsertedRow(j)]
  <2>1. \A j \in S : InsertedRow(j).old \cup InsertedRow(j).new = {Show(new[j], Common)}
    BY DEF InsertedRow, Change
  <2>2. \A j \in S : InsertedRow(j) \in C <=> View(new[j]) = v
    <3>1. \A j \in S : Show(Show(new[j], Common), Compared) = View(new[j])
      BY <1>1
    <3> QED BY <2>1, <3>1
  <2>3. f \in [L -> C] /\ \A y \in C : \E x \in L : f[x] = y
    BY <2>2
  <2>4. \A x, y \in L : f[x] = f[y] => x = y
    <3>1. \A j : InsertedRow(j).at = <<0, j>>
      BY DEF InsertedRow, Change
    <3>2. \A x, y : <<0, x>> = <<0, y>> => x = y
      OBVIOUS
    <3> QED BY <3>1, <3>2
  <2> HIDE DEF L, C, f
  <2>5. Cardinality(C) = Cardinality(L)
    <3>1. IsFiniteSet(L)
      BY <1>2 DEF L
    <3> QED BY <2>3, <2>4, <3>1, SameSize
  <2> QED BY <2>5 DEF L, C
<1>3. ASSUME NEW S \in SUBSET DOMAIN base, IsFiniteSet({i \in S : View(base[i]) = v})
      PROVE  Cardinality({ch \in {DeletedRow(i) : i \in S} : \A r \in ch.old \cup ch.new : Show(r, Compared) = v})
                = Cardinality({i \in S : View(base[i]) = v})
  <2> DEFINE L == {i \in S : View(base[i]) = v}
             C == {ch \in {DeletedRow(i) : i \in S} : \A r \in ch.old \cup ch.new : Show(r, Compared) = v}
             f == [i \in L |-> DeletedRow(i)]
  <2>1. \A i \in S : DeletedRow(i).old \cup DeletedRow(i).new = {Show(base[i], Common)}
    BY DEF DeletedRow, Change
  <2>2. \A i \in S : DeletedRow(i) \in C <=> View(base[i]) = v
    <3>1. \A i \in S : Show(Show(base[i], Common), Compared) = View(base[i])
      BY <1>1
    <3> QED BY <2>1, <3>1
  <2>3. f \in [L -> C] /\ \A y \in C : \E x \in L : f[x] = y
    BY <2>2
  <2>4. \A x, y \in L : f[x] = f[y] => x = y
    <3>1. \A i : DeletedRow(i).at = <<i, 0>>
      BY DEF DeletedRow, Change
    <3>2. \A x, y : <<x, 0>> = <<y, 0>> => x = y
      OBVIOUS
    <3> QED BY <3>1, <3>2
  <2> HIDE DEF L, C, f
  <2>5. Cardinality(C) = Cardinality(L)
    <3>1. IsFiniteSet(L)
      BY <1>3 DEF L
    <3> QED BY <2>3, <2>4, <3>1, SameSize
  <2> QED BY <2>5 DEF L, C
<1> QED BY <1>2, <1>3

\* Without a key no row is shown that its side does not have more copies of,
\* and if the surplus rows of a side fit under the cap, each is shown often
\* enough; as far as hashes tell rows apart.
THEOREM DetailIsComplete ==
  ASSUME HashesApart
  PROVE  Spec => []KeylessDetailIsComplete
<1>1. KeylessInv /\ [Next]_vars => KeylessInv'
  BY KeylessStep
<1>2. ASSUME KeylessInv PROVE KeylessDetailIsComplete
  <2> DEFINE Listed(type, v) ==
               Cardinality({ch \in OfType(type) : \A r \in ch.old \cup ch.new : Show(r, Compared) = v})
             more(v) == Over(Copies(new, v), Copies(base, v))
             less(v) == Over(Copies(base, v), Copies(new, v))
  <2> SUFFICES ASSUME Quiet, ~Keyed, NEW v \in Views(base, new)
               PROVE  /\ more(v) = 0 => Listed("inserted", v) = 0
                      /\ less(v) = 0 => Listed("deleted", v) = 0
                      /\ Cardinality(Surplus(new, base)) <= cap => Listed("inserted", v) >= more(v)
                      /\ Cardinality(Surplus(base, new)) <= cap => Listed("deleted", v) >= less(v)
    BY DEF KeylessDetailIsComplete
  <2>1. Placed /\ KeylessOf /\ pc = "done"
    BY <1>2 DEF KeylessInv, TypeInv, ScanInv, Quiet
  <2>2. Good(base, BaseColumns) /\ Good(new, NewColumns)
    BY <2>1, SeenGood DEF Placed
  <2>3. PICK S \in ByHash(new, MoreInNew) : OfType("inserted") = {InsertedRow(j) : j \in S}
    BY <2>1 DEF KeylessOf
  <2>4. PICK Z \in ByHash(base, MoreInBase) : OfType("deleted") = {DeletedRow(i) : i \in Z}
    BY <2>1 DEF KeylessOf
  <2>5. S \in SUBSET DOMAIN new /\ Z \in SUBSET DOMAIN base
    BY ByHashWithin
  <2> DEFINE L == {j \in S : View(new[j]) = v}
             M == {i \in Z : View(base[i]) = v}
  <2>6. /\ IsFiniteSet(L) /\ (more(v) = 0 => Cardinality(L) = 0)
        /\ Cardinality(Surplus(new, base)) <= cap => Cardinality(L) >= more(v)
    BY <2>1, <2>2, <2>3, FetchedByHash DEF MoreInNew
  <2>7. /\ IsFiniteSet(M) /\ (less(v) = 0 => Cardinality(M) = 0)
        /\ Cardinality(Surplus(base, new)) <= cap => Cardinality(M) >= less(v)
    BY <2>1, <2>2, <2>4, FetchedByHash DEF MoreInBase
  <2>8. /\ \A j \in DOMAIN new : Common \subseteq DOMAIN new[j]
        /\ \A i \in DOMAIN base : Common \subseteq DOMAIN base[i]
    BY <2>2 DEF Good, Common
  <2>9. Listed("inserted", v) = Cardinality(L) /\ Listed("deleted", v) = Cardinality(M)
    BY <2>3, <2>4, <2>5, <2>6, <2>7, <2>8, ListedIs
  <2> HIDE DEF L, M, Listed, more, less
  <2> QED BY <2>6, <2>7, <2>9
<1>3. KeylessInv => KeylessDetailIsComplete
  BY <1>2
<1> QED BY <1>1, <1>3, KeylessInit, PTL DEF Spec
=============================================================================
