-------------------------- MODULE SchemaDiffProofs --------------------------
(***************************************************************************)
(* Proofs about SchemaDiff, for any tables, shapes and configurations and  *)
(* any number of DDL statements.                                           *)
(***************************************************************************)
EXTENDS SchemaDiff, FiniteSetTheorems, TLAPS

\* What the proofs need of the types: answers are records of functions.
Answer == [names : SUBSET Tables,
           cols : UNION {[T -> {S.cols : S \in Shape}] : T \in SUBSET Tables},
           pk : UNION {[T -> SUBSET Columns] : T \in SUBSET Tables}]

Servers == [Side -> UNION {[T -> Shape] : T \in SUBSET Tables}]

Label == {"names", "columns", "keys", "compare", "tables", "done"}

Typed ==
  /\ pc \in Label /\ side \in Side
  /\ server \in Servers
  /\ read \in [Side -> Answer]
  /\ \A x \in results : x.table \in Tables
  /\ pc \in {"compare", "tables", "done"} => side = "new"
  /\ results # {} => pc \in {"tables", "done"}

LEMMA TypedInit == Init => Typed
<1> SUFFICES ASSUME Init PROVE Typed
  OBVIOUS
<1>1. server \in Servers
  <2>1. \A t \in Tables : Shapes[t] \subseteq Shape
    BY SchemaDiffAssumption
  <2> QED BY <2>1 DEF Init, Servers
<1>2. NothingRead \in Answer
  <2>1. [t \in {} |-> NoColumns] \in [{} -> {S.cols : S \in Shape}] /\ [t \in {} |-> {}] \in [{} -> SUBSET Columns]
    OBVIOUS
  <2>2. {} \in SUBSET Tables
    OBVIOUS
  <2> QED BY <2>1, <2>2 DEF NothingRead, Answer
<1> QED BY <1>1, <1>2 DEF Init, Typed, Label, Side

\* Each of the statements returns an answer of its type.
LEMMA ReadsTyped ==
  ASSUME Typed, ReadNames \/ ReadColumns \/ ReadKeys
  PROVE  Typed'
<1>1. PICK T \in SUBSET Tables : server[side] \in [T -> Shape]
  BY DEF Typed, Servers
<1>2. read[side] \in Answer
  BY DEF Typed
<1>3. CASE ReadNames
  <2>1. [read[side] EXCEPT !.names = DOMAIN server[side]] \in Answer
    BY <1>1, <1>2 DEF Answer
  <2> QED BY <1>3, <2>1 DEF ReadNames, external, Typed, Label
<1>4. CASE ReadColumns
  <2>1. [t \in DOMAIN server[side] |-> server[side][t].cols] \in [T -> {S.cols : S \in Shape}]
    BY <1>1
  <2>2. [read[side] EXCEPT !.cols = [t \in DOMAIN server[side] |-> server[side][t].cols]] \in Answer
    BY <1>2, <2>1 DEF Answer
  <2> QED BY <1>4, <2>2 DEF ReadColumns, external, Typed, Label
<1>5. CASE ReadKeys
  <2> DEFINE keyed == {t \in DOMAIN server[side] : server[side][t].pk # {}}
  <2>1. [t \in keyed |-> server[side][t].pk] \in [keyed -> SUBSET Columns] /\ keyed \in SUBSET Tables
    BY <1>1 DEF Shape
  <2> DEFINE keys == [t \in keyed |-> server[side][t].pk]
  <2>4. keys \in UNION {[V -> SUBSET Columns] : V \in SUBSET Tables}
    BY <2>1
  <2> HIDE DEF keys
  <2>2. [read[side] EXCEPT !.pk = keys] \in Answer
    BY <1>2, <2>4 DEF Answer
  <2>3. read' = [read EXCEPT ![side].pk = [t \in keyed |-> server[side][t].pk]]
    BY <1>5 DEF ReadKeys
  <2> HIDE DEF keyed
  <2> QED BY <1>5, <2>2, <2>3 DEF keys, ReadKeys, external, Typed, Label, Side
<1> QED BY <1>3, <1>4, <1>5

LEMMA DdlTyped ==
  ASSUME Typed, Ddl
  PROVE  Typed'
<1>1. PICK s \in Side, t \in Tables :
        \/ \E x \in Shape : server' =
             [server EXCEPT ![s] = [u \in DOMAIN @ \cup {t} |-> IF u = t THEN x ELSE @[u]]]
        \/ server' = [server EXCEPT ![s] = [u \in DOMAIN @ \ {t} |-> @[u]]]
  <2>1. PICK s \in Live, t \in Tables :
          \/ \E x \in Shapes[t] : server' =
               [server EXCEPT ![s] = [u \in DOMAIN @ \cup {t} |-> IF u = t THEN x ELSE @[u]]]
          \/ server' = [server EXCEPT ![s] = [u \in DOMAIN @ \ {t} |-> @[u]]]
    BY DEF Ddl
  <2>2. s \in Side /\ Shapes[t] \subseteq Shape
    BY SchemaDiffAssumption
  <2> QED BY <2>1, <2>2
<1>2. PICK T \in SUBSET Tables : server[s] \in [T -> Shape]
  BY DEF Typed, Servers
<1>3. server' \in Servers
  <2>1. ASSUME NEW x \in Shape
        PROVE  [u \in DOMAIN server[s] \cup {t} |-> IF u = t THEN x ELSE server[s][u]] \in [T \cup {t} -> Shape]
    BY <1>2
  <2>2. [u \in DOMAIN server[s] \ {t} |-> server[s][u]] \in [T \ {t} -> Shape]
    BY <1>2
  <2>3. \E F \in UNION {[V -> Shape] : V \in SUBSET Tables} : server' = [server EXCEPT ![s] = F]
    BY <1>1, <2>1, <2>2 DEF Typed, Servers
  <2> QED BY <2>3 DEF Typed, Servers
<1> QED BY <1>3 DEF Ddl, Typed

LEMMA NamesTyped ==
  ASSUME Typed
  PROVE  \A s \in Side : Names(s) = read[s].names /\ Names(s) \subseteq Tables
  BY DEF Typed, Answer, Names, Snapshot

LEMMA TypedStep ==
  ASSUME Typed, [Next]_vars
  PROVE  Typed'
<1>1. CASE ReadNames \/ ReadColumns \/ ReadKeys
  BY <1>1, ReadsTyped
<1>2. CASE Ddl
  BY <1>2, DdlTyped
<1>3. CASE SaveSchemaDiff \/ Finish \/ UNCHANGED vars
  BY <1>3 DEF SaveSchemaDiff, Finish, vars, external, Typed, Label
<1>4. CASE DiffTable
  <2>1. PICK t \in ToVisit(Common) : \E x : x.table = t /\ results' = results \cup {x}
    BY <1>4 DEF DiffTable
  <2>2. t \in Tables
    BY NamesTyped DEF ToVisit, Included, Common, Side
  <2> QED BY <1>4, <2>1, <2>2 DEF DiffTable, external, Typed
<1>5. CASE CountTable
  <2>1. PICK t \in ToVisit(TablesAdded \cup TablesRemoved) : \E x : x.table = t /\ results' = results \cup {x}
    BY <1>5 DEF CountTable
  <2>2. t \in Tables
    BY NamesTyped DEF ToVisit, Included, TablesAdded, TablesRemoved, Side
  <2> QED BY <1>5, <2>1, <2>2 DEF CountTable, external, Typed
<1> QED BY <1>1, <1>2, <1>3, <1>4, <1>5 DEF Next

-----------------------------------------------------------------------------
(* What was read of a table that nobody has altered is what the server holds. *)

Later == {"compare", "tables", "done"}

\* Which answers side s has given.
NamesRead(s) == pc \in Later \/ (s = "base" /\ side = "new") \/ (s = side /\ pc \in {"columns", "keys"})
ColumnsRead(s) == pc \in Later \/ (s = "base" /\ side = "new") \/ (s = side /\ pc = "keys")
KeysRead(s) == pc \in Later \/ (s = "base" /\ side = "new")

Exact(s, t) ==
  /\ NamesRead(s) => (t \in read[s].names <=> t \in DOMAIN server[s])
  /\ ColumnsRead(s) /\ t \in DOMAIN server[s] =>
       t \in DOMAIN read[s].cols /\ read[s].cols[t] = server[s][t].cols
  /\ KeysRead(s) /\ t \in DOMAIN server[s] =>
       /\ t \in DOMAIN read[s].pk <=> server[s][t].pk # {}
       /\ server[s][t].pk # {} => read[s].pk[t] = server[s][t].pk

\* A result of a table of both sides follows from what was read.
Follows(x) ==
  x.status \notin Whole =>
    /\ x.table \in Common
    /\ x.key = KeyUsed(x.table) /\ (x.keyed <=> x.key # {})
    /\ x.status = "same" <=> ChangesOf(x.table) = {}

ExactInv ==
  /\ Typed
  /\ \A s \in Side, t \in Untouched : Exact(s, t)
  /\ \A x \in results : Follows(x)

LEMMA ReadExactly ==
  ASSUME ExactInv, ReadNames \/ ReadColumns \/ ReadKeys, NEW s \in Side, NEW t \in Untouched
  PROVE  Exact(s, t)'
<1>1. /\ Typed /\ Exact(s, t) /\ server' = server /\ side \in Side
      /\ read \in [Side -> Answer]
  BY DEF ExactInv, ReadNames, ReadColumns, ReadKeys, external, Typed
<1>2. CASE ReadNames
  BY <1>1, <1>2 DEF ReadNames, Exact, NamesRead, ColumnsRead, KeysRead, Later, Side, Answer
<1>3. CASE ReadColumns
  BY <1>1, <1>3 DEF ReadColumns, Exact, NamesRead, ColumnsRead, KeysRead, Later, Side, Answer
<1>4. CASE ReadKeys
  <2> DEFINE keyed == {u \in DOMAIN server[side] : server[side][u].pk # {}}
  <2>1. read' = [read EXCEPT ![side].pk = [u \in keyed |-> server[side][u].pk]]
    BY <1>4 DEF ReadKeys
  <2>2. /\ pc = "keys" /\ side' = "new" /\ pc' = IF side = "base" THEN "names" ELSE "compare"
    BY <1>4 DEF ReadKeys
  <2>3. CASE s = side
    <3>1. /\ read'[s].names = read[s].names /\ read'[s].cols = read[s].cols
          /\ read'[s].pk = [u \in keyed |-> server[side][u].pk]
      BY <1>1, <2>1, <2>3 DEF Answer
    <3> QED BY <1>1, <2>2, <2>3, <3>1 DEF Exact, NamesRead, ColumnsRead, KeysRead, Later, Side
  <2>4. CASE s # side
    <3>1. read'[s] = read[s]
      BY <1>1, <2>1, <2>4
    <3> QED BY <1>1, <2>2, <2>4, <3>1 DEF Exact, NamesRead, ColumnsRead, KeysRead, Later, Side
  <2> QED BY <2>3, <2>4
<1> QED BY <1>2, <1>3, <1>4

LEMMA ExactStep ==
  ASSUME ExactInv, [Next]_vars
  PROVE  ExactInv'
<1>1. Typed /\ Typed'
  BY TypedStep DEF ExactInv
<1>2. CASE ReadNames \/ ReadColumns \/ ReadKeys
  <2>1. \A s \in Side, t \in Untouched' : Exact(s, t)'
    BY <1>2, ReadExactly DEF ReadNames, ReadColumns, ReadKeys, external, Untouched
  <2>2. results' = {}
    BY <1>1, <1>2 DEF Typed, ReadNames, ReadColumns, ReadKeys
  <2> QED BY <1>1, <2>1, <2>2 DEF ExactInv
<1>3. CASE Ddl
  <2>1. PICK d \in Live, a \in Tables :
          /\ touched' = touched \cup {a}
          /\ \/ \E x \in Shapes[a] : server' =
                  [server EXCEPT ![d] = [u \in DOMAIN @ \cup {a} |-> IF u = a THEN x ELSE @[u]]]
             \/ server' = [server EXCEPT ![d] = [u \in DOMAIN @ \ {a} |-> @[u]]]
    BY <1>3 DEF Ddl
  <2>2. ASSUME NEW s \in Side, NEW t \in Untouched'
        PROVE  Exact(s, t)'
    <3>1. t \in Untouched /\ t # a
      BY <2>1, <2>2 DEF Untouched
    <3>2. /\ t \in DOMAIN server'[s] <=> t \in DOMAIN server[s]
          /\ t \in DOMAIN server[s] => server'[s][t] = server[s][t]
      BY <1>1, <2>1, <3>1 DEF Typed, Servers
    <3>3. UNCHANGED <<pc, side, read>> /\ Exact(s, t)
      BY <1>3, <3>1 DEF Ddl, ExactInv
    <3> QED BY <3>2, <3>3 DEF Exact, NamesRead, ColumnsRead, KeysRead
  <2>3. results' = {}
    BY <1>1, <1>3 DEF Typed, Ddl
  <2> QED BY <1>1, <2>2, <2>3 DEF ExactInv
<1>4. CASE SaveSchemaDiff \/ DiffTable \/ CountTable \/ Finish \/ UNCHANGED vars
  <2>1. /\ UNCHANGED <<external, side, read>>
        /\ (pc \in Later /\ pc' \in Later) \/ pc' = pc
    BY <1>4 DEF SaveSchemaDiff, DiffTable, CountTable, Finish, vars, Later
  <2>2. \A s \in Side, t \in Untouched' : Exact(s, t)'
    BY <2>1 DEF ExactInv, external, Untouched, Exact, NamesRead, ColumnsRead, KeysRead
  <2>3. ASSUME NEW x, Follows(x)
        PROVE  Follows(x)'
    BY <2>1, <2>3 DEF external, Follows, Common, Names, Snapshot, KeyUsed, KeyFor, ChangesOf
  <2>4. ASSUME NEW x \in results'
        PROVE  Follows(x)
    <3>1. CASE DiffTable
      <4>1. PICK t \in ToVisit(Common), n \in {0, 1} :
              LET key == KeyUsed(t) keyed == key # {}
              IN results' = results \cup
                   {[table |-> t, status |-> IF ChangesOf(t) # {} THEN "changed" ELSE "same",
                     key |-> key, ignored |-> IgnoredColumns(t), keyed |-> keyed, n |-> n]}
        BY <3>1 DEF DiffTable
      <4>2. t \in Common
        BY DEF ToVisit, Included
      <4> DEFINE status == IF ChangesOf(t) # {} THEN "changed" ELSE "same"
                 r == [table |-> t, status |-> status, key |-> KeyUsed(t),
                       ignored |-> IgnoredColumns(t), keyed |-> KeyUsed(t) # {}, n |-> n]
      <4>3. /\ r.table = t /\ r.status = status /\ r.key = KeyUsed(t)
            /\ r.keyed <=> KeyUsed(t) # {}
        OBVIOUS
      <4>4. results' = results \cup {r}
        BY <4>1
      <4> HIDE DEF r
      <4>5. Follows(r)
        BY <4>2, <4>3 DEF Follows
      <4> QED BY <2>4, <4>4, <4>5 DEF ExactInv
    <3>2. CASE CountTable
      BY <2>4, <3>2 DEF CountTable, ExactInv, Follows, Whole
    <3>3. CASE SaveSchemaDiff \/ Finish \/ UNCHANGED vars
      BY <2>4, <3>3 DEF SaveSchemaDiff, Finish, vars, ExactInv
    <3> QED BY <1>4, <3>1, <3>2, <3>3
  <2> QED BY <1>1, <2>2, <2>3, <2>4 DEF ExactInv
<1> QED BY <1>2, <1>3, <1>4 DEF Next

\* DDL during the introspection disturbs nothing that is said of other tables,
\* for any tables, configurations and number of DDL statements.
THEOREM DdlStaysLocal == Spec => []OtherTablesAreExact
<1>1. Init => ExactInv
  BY TypedInit DEF Init, ExactInv, Exact, NamesRead, ColumnsRead, KeysRead, Later
<1>2. ExactInv /\ [Next]_vars => ExactInv'
  BY ExactStep
<1>3. ASSUME ExactInv, pc \in {"tables", "done"}
      PROVE  /\ \A t \in Untouched, s \in Side :
                  /\ t \in Names(s) <=> t \in DOMAIN server[s]
                  /\ t \in Names(s) => Snapshot(s)[t] = server[s][t]
             /\ \A x \in results : x.table \in Untouched /\ x.status \notin Whole =>
                  LET b == server["base"][x.table] n == server["new"][x.table]
                      k == IF x.table \in DOMAIN config.keys THEN config.keys[x.table] ELSE b.pk
                  IN /\ x.status = "same" <=> b.cols = n.cols
                     /\ x.key = IF k \subseteq DOMAIN b.cols \cap DOMAIN n.cols THEN k ELSE {}
                     /\ x.keyed <=> x.key # {}
  <2>1. ASSUME NEW t \in Untouched, NEW s \in Side
        PROVE  /\ t \in Names(s) <=> t \in DOMAIN server[s]
               /\ t \in Names(s) => Snapshot(s)[t] = server[s][t]
    <3>1. Exact(s, t) /\ NamesRead(s) /\ ColumnsRead(s) /\ KeysRead(s)
      BY <1>3 DEF ExactInv, NamesRead, ColumnsRead, KeysRead, Later
    <3>2. Names(s) = read[s].names
      BY DEF Names, Snapshot
    <3>3. ASSUME t \in DOMAIN server[s], t \in read[s].names
          PROVE  Snapshot(s)[t] = server[s][t]
      <4>1. server[s][t] \in Shape
        BY <1>3, <3>3 DEF ExactInv, Typed, Servers
      <4>2. Snapshot(s)[t] = [cols |-> server[s][t].cols, pk |-> server[s][t].pk]
        BY <3>1, <3>3 DEF Exact, Snapshot, GetOr
      <4> QED BY <4>1, <4>2 DEF Shape
    <3> QED BY <3>1, <3>2, <3>3 DEF Exact
  <2>2. ASSUME NEW x \in results, x.table \in Untouched, x.status \notin Whole
        PROVE  LET b == server["base"][x.table] n == server["new"][x.table]
                   k == IF x.table \in DOMAIN config.keys THEN config.keys[x.table] ELSE b.pk
               IN /\ x.status = "same" <=> b.cols = n.cols
                  /\ x.key = IF k \subseteq DOMAIN b.cols \cap DOMAIN n.cols THEN k ELSE {}
                  /\ x.keyed <=> x.key # {}
    <3>1. Follows(x)
      BY <1>3 DEF ExactInv
    <3>2. /\ x.table \in Names("base") /\ x.table \in Names("new")
          /\ x.table \in DOMAIN server["base"] /\ x.table \in DOMAIN server["new"]
          /\ Snapshot("base")[x.table] = server["base"][x.table]
          /\ Snapshot("new")[x.table] = server["new"][x.table]
      BY <2>1, <2>2, <3>1 DEF Follows, Common, Side
    <3>3. server["base"][x.table] \in Shape /\ server["new"][x.table] \in Shape
      BY <1>3, <3>2 DEF ExactInv, Typed, Servers, Side
    <3>4. ChangesOf(x.table) = {} <=> server["base"][x.table].cols = server["new"][x.table].cols
      <4>1. PICK B : server["base"][x.table].cols \in [B -> Types]
        BY <3>3 DEF Shape
      <4>2. PICK N : server["new"][x.table].cols \in [N -> Types]
        BY <3>3 DEF Shape
      <4>3. ChangesOf(x.table) =
              ColumnChanges(x.table, server["base"][x.table].cols, server["new"][x.table].cols)
        BY <3>2 DEF ChangesOf
      <4>4. PICK b \in [B -> Types] : b = server["base"][x.table].cols
        BY <4>1
      <4>5. PICK n \in [N -> Types] : n = server["new"][x.table].cols
        BY <4>2
      <4>6. PICK t : t = x.table
        OBVIOUS
      <4>7. ColumnChanges(t, b, n) = {} <=> b = n
        <5>1. ASSUME ColumnChanges(t, b, n) = {}
              PROVE  b = n
          <6>1. N \subseteq B
            BY <5>1 DEF ColumnChanges
          <6>2. B \subseteq N
            BY <5>1 DEF ColumnChanges
          <6>3. \A c \in B : b[c] = n[c]
            BY <5>1, <6>1, <6>2 DEF ColumnChanges
          <6> QED BY <6>1, <6>2, <6>3
        <5>2. b = n => ColumnChanges(t, b, n) = {}
          BY DEF ColumnChanges
        <5> QED BY <5>1, <5>2
      <4> QED BY <4>3, <4>4, <4>5, <4>6, <4>7
    <3> DEFINE b == server["base"][x.table]
               n == server["new"][x.table]
               k == IF x.table \in DOMAIN config.keys THEN config.keys[x.table] ELSE b.pk
    <3>5. KeyUsed(x.table) = IF k \subseteq DOMAIN b.cols \cap DOMAIN n.cols THEN k ELSE {}
      BY <3>2 DEF KeyUsed, KeyFor, GetOr
    <3>6. x.key = KeyUsed(x.table) /\ (x.keyed <=> x.key # {}) /\ (x.status = "same" <=> b.cols = n.cols)
      BY <2>2, <3>1, <3>4 DEF Follows
    <3> QED BY <3>5, <3>6
  <2> QED BY <2>1, <2>2
<1>4. ExactInv => OtherTablesAreExact
  BY <1>3 DEF OtherTablesAreExact
<1> QED BY <1>1, <1>2, <1>4, PTL DEF Spec

-----------------------------------------------------------------------------
(* The stored changes are a patch.                                          *)

Compared ==
  {Change("table_added", t, NoType, NoType, NoType) : t \in TablesAdded} \cup
  {Change("table_removed", t, NoType, NoType, NoType) : t \in TablesRemoved} \cup
  UNION {ChangesOf(t) : t \in Common}

SavedInv == Typed /\ (pc \in {"tables", "done"} => changes = Compared)

LEMMA SavedStep ==
  ASSUME SavedInv, [Next]_vars
  PROVE  SavedInv'
<1>1. Typed'
  BY TypedStep DEF SavedInv
<1>2. CASE UNCHANGED read
  <2>1. Compared' = Compared
    BY <1>2 DEF Compared, TablesAdded, TablesRemoved, ChangesOf, Common, Names, Snapshot
  <2>2. CASE SaveSchemaDiff
    BY <1>1, <2>1, <2>2 DEF SaveSchemaDiff, Compared, SavedInv
  <2>3. CASE ~SaveSchemaDiff
    <3>1. UNCHANGED changes /\ (pc' \in {"tables", "done"} => pc \in {"tables", "done"})
      BY <2>3 DEF Next, ReadNames, ReadColumns, ReadKeys, Ddl, DiffTable, CountTable, Finish, vars
    <3> QED BY <1>1, <2>1, <3>1 DEF SavedInv
  <2> QED BY <2>2, <2>3
<1>3. CASE ~UNCHANGED read
  <2>1. pc' \notin {"tables", "done"}
    BY <1>3 DEF Next, ReadNames, ReadColumns, ReadKeys, Ddl, SaveSchemaDiff, DiffTable, CountTable,
       Finish, vars, external
  <2> QED BY <1>1, <2>1 DEF SavedInv
<1> QED BY <1>2, <1>3

\* What the changes of one table's columns are, said of any of them.
LEMMA ColumnChange ==
  ASSUME NEW t, NEW b, NEW n, NEW y
  PROVE  y \in ColumnChanges(t, b, n) <=>
           \/ \E c \in DOMAIN n \ DOMAIN b : y = Change("column_added", t, c, NoType, n[c])
           \/ \E c \in DOMAIN b \ DOMAIN n : y = Change("column_removed", t, c, b[c], NoType)
           \/ \E c \in DOMAIN b \cap DOMAIN n :
                b[c] # n[c] /\ y = Change("column_type_changed", t, c, b[c], n[c])
  BY DEF ColumnChanges

\* The columns of a table that both sides have, as Patched makes them.
OfKind(t, kind) == {y \in changes : y.table = t /\ y.kind = kind}
Dropped(t) == {y.column : y \in OfKind(t, "column_removed")}
Altered(t) == OfKind(t, "column_added") \cup OfKind(t, "column_type_changed")
PatchedColumns(S, t) ==
  [c \in (DOMAIN S[t].cols \ Dropped(t)) \cup {y.column : y \in Altered(t)} |->
     IF \E y \in Altered(t) : y.column = c
     THEN (CHOOSE y \in Altered(t) : y.column = c).new_type ELSE S[t].cols[c]]

Gone == {x.table : x \in {y \in changes : y.kind = "table_removed"}}
Made == {x.table : x \in {y \in changes : y.kind = "table_added"}}

LEMMA PatchedIs ==
  ASSUME NEW S
  PROVE  /\ Patched(S).tables = (DOMAIN S \ Gone) \cup Made
         /\ Patched(S).cols = [t \in DOMAIN S \ Gone |-> PatchedColumns(S, t)]
  BY DEF Patched, Gone, Made, PatchedColumns, Dropped, Altered, OfKind

\* A change of a column is no change of a table, and of its own table only.
LEMMA KindsApart ==
  ASSUME changes = Compared, NEW y \in changes
  PROVE  /\ y.kind = "table_added" => y.table \in TablesAdded
         /\ y.kind = "table_removed" => y.table \in TablesRemoved
         /\ y.kind \notin {"table_added", "table_removed"} =>
              y.table \in Common /\ y \in ChangesOf(y.table)
<1>1. CASE \E t \in TablesAdded : y = Change("table_added", t, NoType, NoType, NoType)
  BY <1>1 DEF Change
<1>2. CASE \E t \in TablesRemoved : y = Change("table_removed", t, NoType, NoType, NoType)
  BY <1>2 DEF Change
<1>3. CASE \E t \in Common : y \in ChangesOf(t)
  <2>1. PICK t \in Common : y \in ChangesOf(t)
    BY <1>3
  <2>2. y.table = t /\ y.kind \in {"column_added", "column_removed", "column_type_changed"}
    BY <2>1, ColumnChange DEF ChangesOf, Change
  <2> QED BY <2>1, <2>2
<1> QED BY <1>1, <1>2, <1>3 DEF Compared

LEMMA SnapshotTyped ==
  ASSUME Typed, NEW s \in Side, NEW t \in Names(s)
  PROVE  \E C \in SUBSET Columns : Snapshot(s)[t].cols \in [C -> Types]
<1>1. read[s] \in Answer /\ t \in read[s].names
  BY DEF Typed, Names, Snapshot
<1>2. Snapshot(s)[t].cols = GetOr(read[s].cols, t, NoColumns)
  BY <1>1 DEF Snapshot
<1>3. CASE t \in DOMAIN read[s].cols
  <2>1. read[s].cols[t] \in {S.cols : S \in Shape}
    BY <1>1, <1>3 DEF Answer
  <2> QED BY <1>2, <1>3, <2>1 DEF GetOr, Shape
<1>4. CASE t \notin DOMAIN read[s].cols
  <2>1. NoColumns \in [{} -> Types]
    BY DEF NoColumns
  <2> QED BY <1>2, <1>4, <2>1 DEF GetOr
<1> QED BY <1>3, <1>4

LEMMA ColumnsPatched ==
  ASSUME Typed, changes = Compared, NEW t \in Common
  PROVE  PatchedColumns(Snapshot("base"), t) = Snapshot("new")[t].cols
<1>1. PICK B : Snapshot("base")[t].cols \in [B -> Types]
  BY SnapshotTyped DEF Common, Side
<1>2. PICK N : Snapshot("new")[t].cols \in [N -> Types]
  BY SnapshotTyped DEF Common, Side
<1>3. PICK b \in [B -> Types] : b = Snapshot("base")[t].cols
  BY <1>1
<1>4. PICK n \in [N -> Types] : n = Snapshot("new")[t].cols
  BY <1>2
<1>5. \A y : y \in changes /\ y.table = t /\ y.kind \notin {"table_added", "table_removed"} <=>
             y \in ColumnChanges(t, b, n)
  <2>1. ChangesOf(t) = ColumnChanges(t, b, n)
    BY <1>3, <1>4 DEF ChangesOf
  <2>2. ASSUME NEW y \in ColumnChanges(t, b, n)
        PROVE  y.table = t /\ y.kind \notin {"table_added", "table_removed"} /\ y \in changes
    <3>1. y.table = t /\ y.kind \in {"column_added", "column_removed", "column_type_changed"}
      BY <2>2, ColumnChange DEF Change
    <3> QED BY <2>1, <3>1 DEF Compared
  <2>3. ASSUME NEW y \in changes, y.table = t, y.kind \notin {"table_added", "table_removed"}
        PROVE  y \in ColumnChanges(t, b, n)
    BY <2>1, <2>3, KindsApart
  <2> QED BY <2>2, <2>3
<1>6. Dropped(t) = B \ N
  <2>1. ASSUME NEW y \in OfKind(t, "column_removed")
        PROVE  y.column \in B \ N
    BY <1>5, ColumnChange DEF OfKind, Change
  <2>2. ASSUME NEW c \in B \ N
        PROVE  c \in Dropped(t)
    <3>1. Change("column_removed", t, c, b[c], NoType) \in ColumnChanges(t, b, n)
      BY <2>2, ColumnChange
    <3>2. Change("column_removed", t, c, b[c], NoType) \in OfKind(t, "column_removed")
      BY <3>1, <1>5 DEF OfKind, Change
    <3> QED BY <3>2 DEF Dropped, Change
  <2> QED BY <2>1, <2>2 DEF Dropped
<1>7. ASSUME NEW y \in Altered(t)
      PROVE  y.column \in N /\ y.new_type = n[y.column]
  BY <1>5, ColumnChange DEF Altered, OfKind, Change
<1>8. ASSUME NEW c \in N, c \in B => b[c] # n[c]
      PROVE  \E y \in Altered(t) : y.column = c
  <2>1. CASE c \in B
    <3>1. Change("column_type_changed", t, c, b[c], n[c]) \in ColumnChanges(t, b, n)
      BY <1>8, <2>1, ColumnChange
    <3>2. Change("column_type_changed", t, c, b[c], n[c]) \in Altered(t)
      BY <3>1, <1>5 DEF Altered, OfKind, Change
    <3> QED BY <3>2 DEF Change
  <2>2. CASE c \notin B
    <3>1. Change("column_added", t, c, NoType, n[c]) \in ColumnChanges(t, b, n)
      BY <1>8, <2>2, ColumnChange
    <3>2. Change("column_added", t, c, NoType, n[c]) \in Altered(t)
      BY <3>1, <1>5 DEF Altered, OfKind, Change
    <3> QED BY <3>2 DEF Change
  <2> QED BY <2>1, <2>2
<1>9. (B \ Dropped(t)) \cup {y.column : y \in Altered(t)} = N
  <2>1. ASSUME NEW c \in N
        PROVE  c \in (B \ Dropped(t)) \cup {y.column : y \in Altered(t)}
    BY <1>6, <1>8, <2>1
  <2>2. B \ Dropped(t) \subseteq N
    BY <1>6
  <2> QED BY <1>7, <2>1, <2>2
<1>10. ASSUME NEW c \in N
       PROVE  (IF \E y \in Altered(t) : y.column = c
               THEN (CHOOSE y \in Altered(t) : y.column = c).new_type ELSE b[c]) = n[c]
  <2>1. CASE \E y \in Altered(t) : y.column = c
    <3> DEFINE z == CHOOSE y \in Altered(t) : y.column = c
    <3>1. z \in Altered(t) /\ z.column = c
      BY <2>1
    <3> QED BY <2>1, <3>1, <1>7
  <2>2. CASE ~\E y \in Altered(t) : y.column = c
    BY <1>8, <1>10, <2>2
  <2> QED BY <2>1, <2>2
<1>11. PatchedColumns(Snapshot("base"), t) =
         [c \in N |-> IF \E y \in Altered(t) : y.column = c
                      THEN (CHOOSE y \in Altered(t) : y.column = c).new_type ELSE b[c]]
  BY <1>3, <1>9 DEF PatchedColumns
<1>12. PatchedColumns(Snapshot("base"), t) = [c \in N |-> n[c]]
  BY <1>10, <1>11
<1> QED BY <1>4, <1>12

\* Altering the base side as the stored schema changes say gives the new side,
\* for any two snapshots of tables, columns and types.
THEOREM ChangesArePatch == Spec => []SchemaChangesPatchBase
<1>1. Init => SavedInv
  BY TypedInit DEF Init, SavedInv
<1>2. SavedInv /\ [Next]_vars => SavedInv'
  BY SavedStep
<1>3. SavedInv => SchemaChangesPatchBase
  <2> SUFFICES ASSUME Typed, changes = Compared
               PROVE  LET p == Patched(Snapshot("base")) n == Snapshot("new")
                      IN /\ p.tables = DOMAIN n
                         /\ \A t \in DOMAIN p.cols : p.cols[t] = n[t].cols
    BY DEF SavedInv, SchemaChangesPatchBase
  <2>1. Gone = TablesRemoved
    <3>1. Gone \subseteq TablesRemoved
      BY KindsApart DEF Gone
    <3>2. ASSUME NEW t \in TablesRemoved
          PROVE  t \in Gone
      <4>1. Change("table_removed", t, NoType, NoType, NoType) \in changes
        BY DEF Compared
      <4> QED BY <4>1 DEF Gone, Change
    <3> QED BY <3>1, <3>2
  <2>2. Made = TablesAdded
    <3>1. Made \subseteq TablesAdded
      BY KindsApart DEF Made
    <3>2. ASSUME NEW t \in TablesAdded
          PROVE  t \in Made
      <4>1. Change("table_added", t, NoType, NoType, NoType) \in changes
        BY DEF Compared
      <4> QED BY <4>1 DEF Made, Change
    <3> QED BY <3>1, <3>2
  <2>3. DOMAIN Snapshot("base") \ Gone = Common
    BY <2>1 DEF TablesRemoved, Common, Names
  <2>4. Patched(Snapshot("base")).tables = DOMAIN Snapshot("new")
    BY <2>2, <2>3, PatchedIs DEF TablesAdded, Common, Names
  <2>5. ASSUME NEW t \in DOMAIN Patched(Snapshot("base")).cols
        PROVE  Patched(Snapshot("base")).cols[t] = Snapshot("new")[t].cols
    <3>1. t \in Common /\ Patched(Snapshot("base")).cols[t] = PatchedColumns(Snapshot("base"), t)
      BY <2>3, <2>5, PatchedIs
    <3> QED BY <3>1, ColumnsPatched
  <2> QED BY <2>4, <2>5
<1> QED BY <1>1, <1>2, <1>3, PTL DEF Spec

-----------------------------------------------------------------------------
(* The results and the summary.                                             *)

Diffed == {x \in results : x.status \notin Whole}
DiffedAndChanged == {x \in results : x.status \notin Whole /\ x.n > 0}
DiffedWithoutKey == {x \in results : x.status \notin Whole /\ ~x.keyed}
WithRows == {x \in results : x.n > 0}

Visited == Included(Common \cup TablesAdded \cup TablesRemoved)

\* A result is about a table of the sides it says.
Placed(x) ==
  /\ x.table \in Visited /\ x.n \in {0, 1}
  /\ x.table \in Common <=> x.status \notin Whole
  /\ x.table \in TablesAdded <=> x.status = "added"
  /\ x.table \in TablesRemoved <=> x.status = "removed"

ResultsOnce ==
  /\ IsFiniteSet(results)
  /\ \A x \in results : Placed(x)
  /\ \A x, y \in results : x.table = y.table => x = y
  /\ pc = "done" => \A t \in Visited : \E x \in results : x.table = t

Tally ==
  /\ summary \in [{"compared", "changed", "added", "removed", "keyless", "rows"} -> Nat]
  /\ summary.compared = Cardinality(Diffed)
  /\ summary.changed = Cardinality(DiffedAndChanged)
  /\ summary.keyless = Cardinality(DiffedWithoutKey)
  /\ summary.rows = Cardinality(WithRows)
  /\ pc \in {"tables", "done"} =>
       /\ summary.added = Cardinality(Included(TablesAdded))
       /\ summary.removed = Cardinality(Included(TablesRemoved))

TallyInv == Typed /\ ResultsOnce /\ Tally

LEMMA TablesFinite ==
  ASSUME Typed
  PROVE  /\ IsFiniteSet(Included(TablesAdded)) /\ Cardinality(Included(TablesAdded)) \in Nat
         /\ IsFiniteSet(Included(TablesRemoved)) /\ Cardinality(Included(TablesRemoved)) \in Nat
<1>1. Names("base") \subseteq Tables /\ Names("new") \subseteq Tables
  BY NamesTyped DEF Side
<1>2. Included(TablesAdded) \in SUBSET Tables /\ Included(TablesRemoved) \in SUBSET Tables
  BY <1>1 DEF Included, TablesAdded, TablesRemoved
<1> QED BY <1>2, FS_Subset, FS_CardinalityType, SchemaDiffAssumption

\* Before a table is diffed there are no results, and nothing to count.
LEMMA TallyBefore ==
  ASSUME TallyInv, ReadNames \/ ReadColumns \/ ReadKeys \/ Ddl
  PROVE  ResultsOnce' /\ Tally'
<1>1. results = {} /\ results' = {} /\ summary' = summary /\ pc' \notin {"tables", "done"}
  BY DEF TallyInv, Typed, ReadNames, ReadColumns, ReadKeys, Ddl, Label
<1>2. ResultsOnce'
  BY <1>1, FS_EmptySet DEF ResultsOnce
<1>3. Diffed' = Diffed /\ DiffedAndChanged' = DiffedAndChanged
      /\ DiffedWithoutKey' = DiffedWithoutKey /\ WithRows' = WithRows
  BY <1>1 DEF Diffed, DiffedAndChanged, DiffedWithoutKey, WithRows
<1> QED BY <1>1, <1>2, <1>3 DEF TallyInv, Tally

\* What the answers and the configuration say stays once they are there.
LEMMA TablesStay ==
  ASSUME UNCHANGED <<config, read>>
  PROVE  /\ UNCHANGED <<Common, TablesAdded, TablesRemoved, Visited>>
         /\ Included(TablesAdded)' = Included(TablesAdded)
         /\ Included(TablesRemoved)' = Included(TablesRemoved)
  BY DEF Common, TablesAdded, TablesRemoved, Visited, Included, IsIncluded, Names, Snapshot

LEMMA TallySaved ==
  ASSUME TallyInv, SaveSchemaDiff
  PROVE  ResultsOnce' /\ Tally'
<1>1. /\ UNCHANGED <<config, read, results>> /\ pc = "compare" /\ pc' = "tables"
      /\ summary' = [summary EXCEPT !.added = Cardinality(Included(TablesAdded)),
                                    !.removed = Cardinality(Included(TablesRemoved))]
  BY DEF SaveSchemaDiff, external
<1>2. results = {}
  BY <1>1 DEF TallyInv, Typed
<1>3. ResultsOnce'
  BY <1>1, <1>2, FS_EmptySet DEF ResultsOnce
<1>4. Diffed' = Diffed /\ DiffedAndChanged' = DiffedAndChanged
      /\ DiffedWithoutKey' = DiffedWithoutKey /\ WithRows' = WithRows
  BY <1>1 DEF Diffed, DiffedAndChanged, DiffedWithoutKey, WithRows
<1>5. /\ summary' \in [{"compared", "changed", "added", "removed", "keyless", "rows"} -> Nat]
      /\ summary'.compared = summary.compared /\ summary'.changed = summary.changed
      /\ summary'.keyless = summary.keyless /\ summary'.rows = summary.rows
      /\ summary'.added = Cardinality(Included(TablesAdded))
      /\ summary'.removed = Cardinality(Included(TablesRemoved))
  BY <1>1, TablesFinite DEF TallyInv, Tally
<1> QED BY <1>1, <1>3, <1>4, <1>5, TablesStay DEF TallyInv, Tally

\* A result for a table that has none yet.
LEMMA ResultAdded ==
  ASSUME TallyInv, pc = "tables", pc' = "tables", UNCHANGED <<config, read>>,
         NEW x, results' = results \cup {x}, Placed(x), \A y \in results : y.table # x.table
  PROVE  /\ ResultsOnce'
         /\ Cardinality(Diffed') =
              IF x.status \notin Whole THEN Cardinality(Diffed) + 1 ELSE Cardinality(Diffed)
         /\ Cardinality(DiffedAndChanged') =
              IF x.status \notin Whole THEN Cardinality(DiffedAndChanged) + x.n
              ELSE Cardinality(DiffedAndChanged)
         /\ Cardinality(DiffedWithoutKey') =
              IF x.status \notin Whole /\ ~x.keyed THEN Cardinality(DiffedWithoutKey) + 1
              ELSE Cardinality(DiffedWithoutKey)
         /\ Cardinality(WithRows') = Cardinality(WithRows) + x.n
         /\ Cardinality(Diffed) \in Nat /\ Cardinality(DiffedAndChanged) \in Nat
         /\ Cardinality(DiffedWithoutKey) \in Nat /\ Cardinality(WithRows) \in Nat
<1>1. x \notin results /\ x.n \in {0, 1} /\ IsFiniteSet(results)
  BY DEF Placed, TallyInv, ResultsOnce
<1>2. ResultsOnce'
  <2>1. IsFiniteSet(results')
    BY <1>1, FS_AddElement
  <2>2. ASSUME NEW y, Placed(y)
        PROVE  Placed(y)'
    BY <2>2, TablesStay DEF Placed
  <2> QED BY <2>1, <2>2 DEF TallyInv, ResultsOnce
<1>3. ASSUME NEW S \in SUBSET results
      PROVE  /\ IsFiniteSet(S) /\ Cardinality(S) \in Nat
             /\ Cardinality(S \cup {x}) = Cardinality(S) + 1
  <2>1. IsFiniteSet(S) /\ Cardinality(S) \in Nat
    BY <1>1, FS_Subset, FS_CardinalityType
  <2> QED BY <1>1, <2>1, FS_AddElement
<1>4. Diffed' = IF x.status \notin Whole THEN Diffed \cup {x} ELSE Diffed
  BY DEF Diffed
<1>5. DiffedAndChanged' = IF x.status \notin Whole /\ x.n = 1 THEN DiffedAndChanged \cup {x}
                          ELSE DiffedAndChanged
  BY <1>1 DEF DiffedAndChanged
<1>6. DiffedWithoutKey' = IF x.status \notin Whole /\ ~x.keyed THEN DiffedWithoutKey \cup {x}
                          ELSE DiffedWithoutKey
  BY DEF DiffedWithoutKey
<1>7. WithRows' = IF x.n = 1 THEN WithRows \cup {x} ELSE WithRows
  BY <1>1 DEF WithRows
<1>8. /\ Diffed \in SUBSET results /\ DiffedAndChanged \in SUBSET results
      /\ DiffedWithoutKey \in SUBSET results /\ WithRows \in SUBSET results
  BY DEF Diffed, DiffedAndChanged, DiffedWithoutKey, WithRows
<1>9. /\ Cardinality(Diffed) \in Nat /\ Cardinality(DiffedAndChanged) \in Nat
      /\ Cardinality(DiffedWithoutKey) \in Nat /\ Cardinality(WithRows) \in Nat
  BY <1>3, <1>8
<1>10. Cardinality(Diffed') =
         IF x.status \notin Whole THEN Cardinality(Diffed) + 1 ELSE Cardinality(Diffed)
  BY <1>3, <1>4, <1>8
<1>11. Cardinality(DiffedAndChanged') =
         IF x.status \notin Whole THEN Cardinality(DiffedAndChanged) + x.n
         ELSE Cardinality(DiffedAndChanged)
  <2>1. CASE x.status \notin Whole /\ x.n = 1
    <3>1. DiffedAndChanged' = DiffedAndChanged \cup {x}
      BY <1>5, <2>1
    <3>2. Cardinality(DiffedAndChanged') = Cardinality(DiffedAndChanged) + 1
      BY <1>3, <1>8, <3>1
    <3> QED BY <2>1, <3>2
  <2>2. CASE ~(x.status \notin Whole /\ x.n = 1)
    <3>1. DiffedAndChanged' = DiffedAndChanged
      BY <1>5, <2>2
    <3> QED BY <1>1, <1>9, <2>2, <3>1
  <2> QED BY <2>1, <2>2
<1>12. Cardinality(DiffedWithoutKey') =
         IF x.status \notin Whole /\ ~x.keyed THEN Cardinality(DiffedWithoutKey) + 1
         ELSE Cardinality(DiffedWithoutKey)
  <2>1. CASE x.status \notin Whole /\ ~x.keyed
    <3>1. DiffedWithoutKey' = DiffedWithoutKey \cup {x}
      BY <1>6, <2>1, Zenon
    <3>2. Cardinality(DiffedWithoutKey') = Cardinality(DiffedWithoutKey) + 1
      BY <1>3, <1>8, <3>1
    <3> QED BY <2>1, <3>2, Zenon
  <2>2. CASE ~(x.status \notin Whole /\ ~x.keyed)
    <3>1. DiffedWithoutKey' = DiffedWithoutKey
      BY <1>6, <2>2, Zenon
    <3> QED BY <2>2, <3>1, Zenon
  <2> QED BY <2>1, <2>2
<1>13. Cardinality(WithRows') = Cardinality(WithRows) + x.n
  <2>1. CASE x.n = 1
    <3>1. WithRows' = WithRows \cup {x}
      BY <1>7, <2>1
    <3> QED BY <1>3, <1>8, <2>1, <3>1
  <2>2. CASE x.n = 0
    BY <1>7, <1>9, <2>2
  <2> QED BY <1>1, <2>1, <2>2
<1> QED BY <1>2, <1>9, <1>10, <1>11, <1>12, <1>13

LEMMA TallyDiffed ==
  ASSUME TallyInv, DiffTable
  PROVE  ResultsOnce' /\ Tally'
<1>1. PICK t \in ToVisit(Common), n \in {0, 1} :
        LET key == KeyUsed(t) keyed == key # {}
        IN /\ results' = results \cup
                {[table |-> t, status |-> IF ChangesOf(t) # {} THEN "changed" ELSE "same",
                  key |-> key, ignored |-> IgnoredColumns(t), keyed |-> keyed, n |-> n]}
           /\ summary' = [summary EXCEPT !.compared = @ + 1, !.changed = @ + n, !.rows = @ + n,
                                         !.keyless = IF keyed THEN @ ELSE @ + 1]
  BY DEF DiffTable
<1>2. PICK x : /\ results' = results \cup {x} /\ x.table = t /\ x.n = n /\ x.status \in {"changed", "same"}
               /\ summary' = [summary EXCEPT !.compared = @ + 1, !.changed = @ + n, !.rows = @ + n,
                                             !.keyless = IF x.keyed THEN @ ELSE @ + 1]
  <2> DEFINE key == KeyUsed(t)
             keyed == key # {}
             r == [table |-> t, status |-> IF ChangesOf(t) # {} THEN "changed" ELSE "same",
                   key |-> key, ignored |-> IgnoredColumns(t), keyed |-> keyed, n |-> n]
  <2>1. /\ results' = results \cup {r}
        /\ summary' = [summary EXCEPT !.compared = @ + 1, !.changed = @ + n, !.rows = @ + n,
                                      !.keyless = IF r.keyed THEN @ ELSE @ + 1]
    BY <1>1
  <2>2. r.table = t /\ r.n = n /\ r.status \in {"changed", "same"}
    OBVIOUS
  <2> HIDE DEF r
  <2> QED BY <2>1, <2>2
<1>3. pc = "tables" /\ pc' = "tables" /\ UNCHANGED <<config, read>>
  BY DEF DiffTable, external
<1>4. /\ t \in Common /\ t \in Visited /\ t \notin TablesAdded /\ t \notin TablesRemoved
      /\ \A y \in results : y.table # t
  BY DEF ToVisit, Included, Visited, Common, TablesAdded, TablesRemoved
<1>5. Placed(x)
  BY <1>2, <1>4 DEF Placed, Whole
<1>6. x.status \notin Whole
  BY <1>2 DEF Whole
<1>7. /\ summary' \in [{"compared", "changed", "added", "removed", "keyless", "rows"} -> Nat]
      /\ summary'.compared = summary.compared + 1 /\ summary'.changed = summary.changed + n
      /\ summary'.keyless = IF x.keyed THEN summary.keyless ELSE summary.keyless + 1
      /\ summary'.rows = summary.rows + n
      /\ summary'.added = summary.added /\ summary'.removed = summary.removed
  <2> DEFINE Field == {"compared", "changed", "added", "removed", "keyless", "rows"}
             one == [summary EXCEPT !.compared = @ + 1]
             two == [one EXCEPT !.changed = @ + n]
             three == [two EXCEPT !.rows = @ + n]
             less == IF x.keyed THEN summary.keyless ELSE summary.keyless + 1
  <2>1. summary \in [Field -> Nat] /\ n \in Nat
    BY <1>1 DEF TallyInv, Tally
  <2>2. one \in [Field -> Nat] /\ one.compared = summary.compared + 1
        /\ \A f \in Field \ {"compared"} : one[f] = summary[f]
    BY <2>1
  <2>3. two \in [Field -> Nat] /\ two.changed = summary.changed + n
        /\ \A f \in Field \ {"changed"} : two[f] = one[f]
    <3> HIDE DEF one
    <3> QED BY <2>1, <2>2
  <2>4. three \in [Field -> Nat] /\ three.rows = summary.rows + n
        /\ \A f \in Field \ {"rows"} : three[f] = two[f]
    <3> HIDE DEF one, two
    <3> QED BY <2>1, <2>2, <2>3
  <2>5. summary' = [three EXCEPT !.keyless = less]
    BY <1>2, <2>1
  <2>6. less \in Nat
    BY <2>1
  <2> HIDE DEF one, two, three, less
  <2>7. /\ summary' \in [Field -> Nat] /\ summary'.keyless = less
        /\ \A f \in Field \ {"keyless"} : summary'[f] = three[f]
    BY <2>4, <2>5, <2>6
  <2> QED BY <2>2, <2>3, <2>4, <2>7 DEF less
<1> QED BY <1>2, <1>3, <1>4, <1>5, <1>6, <1>7, ResultAdded, TablesStay DEF TallyInv, Tally

LEMMA TallyCounted ==
  ASSUME TallyInv, CountTable
  PROVE  ResultsOnce' /\ Tally'
<1>1. PICK t \in ToVisit(TablesAdded \cup TablesRemoved), n \in {0, 1} :
        /\ results' = results \cup
             {[table |-> t, status |-> IF t \in TablesAdded THEN "added" ELSE "removed",
               key |-> {}, ignored |-> {}, keyed |-> FALSE, n |-> n]}
        /\ summary' = [summary EXCEPT !.rows = @ + n]
  BY DEF CountTable
<1>2. PICK x : /\ results' = results \cup {x} /\ x.table = t /\ x.n = n
               /\ x.status = IF t \in TablesAdded THEN "added" ELSE "removed"
  <2> DEFINE r == [table |-> t, status |-> IF t \in TablesAdded THEN "added" ELSE "removed",
                   key |-> {}, ignored |-> {}, keyed |-> FALSE, n |-> n]
  <2>1. results' = results \cup {r}
    BY <1>1
  <2>2. r.table = t /\ r.n = n /\ r.status = IF t \in TablesAdded THEN "added" ELSE "removed"
    OBVIOUS
  <2> HIDE DEF r
  <2> QED BY <2>1, <2>2
<1>3. pc = "tables" /\ pc' = "tables" /\ UNCHANGED <<config, read>>
  BY DEF CountTable, external
<1>4. /\ t \notin Common /\ t \in Visited /\ t \in TablesAdded \cup TablesRemoved
      /\ ~(t \in TablesAdded /\ t \in TablesRemoved)
      /\ \A y \in results : y.table # t
  BY DEF ToVisit, Included, Visited, Common, TablesAdded, TablesRemoved
<1>5. Placed(x) /\ x.status \in Whole
  BY <1>2, <1>4 DEF Placed, Whole
<1>6. /\ summary' \in [{"compared", "changed", "added", "removed", "keyless", "rows"} -> Nat]
      /\ summary'.compared = summary.compared /\ summary'.changed = summary.changed
      /\ summary'.keyless = summary.keyless /\ summary'.rows = summary.rows + n
      /\ summary'.added = summary.added /\ summary'.removed = summary.removed
  <2>1. summary' = [summary EXCEPT !.rows = @ + n] /\ n \in {0, 1}
    BY <1>1
  <2> QED BY <2>1 DEF TallyInv, Tally
<1> QED BY <1>2, <1>3, <1>4, <1>5, <1>6, ResultAdded, TablesStay DEF TallyInv, Tally

LEMMA TallyStep ==
  ASSUME TallyInv, [Next]_vars
  PROVE  TallyInv'
<1>1. Typed'
  BY TypedStep DEF TallyInv
<1>2. CASE ReadNames \/ ReadColumns \/ ReadKeys \/ Ddl
  BY <1>1, <1>2, TallyBefore DEF TallyInv
<1>3. CASE SaveSchemaDiff
  BY <1>1, <1>3, TallySaved DEF TallyInv
<1>4. CASE DiffTable
  BY <1>1, <1>4, TallyDiffed DEF TallyInv
<1>5. CASE CountTable
  BY <1>1, <1>5, TallyCounted DEF TallyInv
<1>6. CASE Finish \/ UNCHANGED vars
  <2>1. /\ UNCHANGED <<config, read, results, summary>>
        /\ pc' \in {"tables", "done"} => pc \in {"tables", "done"}
    BY <1>6 DEF Finish, vars, external
  <2>2. ASSUME NEW y, Placed(y)
        PROVE  Placed(y)'
    BY <2>1, <2>2, TablesStay DEF Placed
  <2>3. pc' = "done" => \A t \in Visited : \E x \in results : x.table = t
    BY <1>6 DEF TallyInv, ResultsOnce, Finish, vars, ToVisit, Included, Visited
  <2>4. ResultsOnce'
    BY <2>1, <2>2, <2>3, TablesStay DEF TallyInv, ResultsOnce
  <2>5. Diffed' = Diffed /\ DiffedAndChanged' = DiffedAndChanged
        /\ DiffedWithoutKey' = DiffedWithoutKey /\ WithRows' = WithRows
    BY <2>1 DEF Diffed, DiffedAndChanged, DiffedWithoutKey, WithRows
  <2>6. Tally'
    BY <2>1, <2>5, TablesStay DEF TallyInv, Tally
  <2> QED BY <1>1, <2>4, <2>6 DEF TallyInv
<1> QED BY <1>2, <1>3, <1>4, <1>5, <1>6 DEF Next

LEMMA TallyInit == Init => TallyInv
<1> SUFFICES ASSUME Init PROVE TallyInv
  OBVIOUS
<1>1. Diffed = {} /\ DiffedAndChanged = {} /\ DiffedWithoutKey = {} /\ WithRows = {}
  BY DEF Init, Diffed, DiffedAndChanged, DiffedWithoutKey, WithRows
<1>2. Cardinality({}) = 0 /\ IsFiniteSet({})
  BY FS_EmptySet
<1> QED BY <1>1, <1>2, TypedInit DEF Init, TallyInv, ResultsOnce, Tally

LEMMA TallyHolds == Spec => []TallyInv
  BY TallyInit, TallyStep, PTL DEF Spec

\* The tables of the results of one kind are those counted in the snapshots.
LEMMA ResultsAreTables ==
  ASSUME TallyInv, pc = "done", NEW T, T = TablesAdded \/ T = TablesRemoved,
         NEW status, NEW S, S = {x \in results : x.status = status},
         status = IF T = TablesAdded THEN "added" ELSE "removed"
  PROVE  Cardinality(S) = Cardinality(Included(T))
<1>1. \A x \in results : x.table \in T <=> x.status = status
  <2>1. \A x \in results : Placed(x)
    BY DEF TallyInv, ResultsOnce
  <2>2. CASE T = TablesAdded
    BY <2>1, <2>2 DEF Placed
  <2>3. CASE T # TablesAdded
    BY <2>1, <2>3 DEF Placed
  <2> QED BY <2>2, <2>3
<1>2. Included(T) \subseteq Visited
  BY DEF Included, Visited
<1>3. \A t \in Included(T) : \E x \in S : x.table = t
  BY <1>1, <1>2 DEF TallyInv, ResultsOnce, Included
<1>4. \A x \in S : x.table \in Included(T)
  <2>1. \A x \in results : IsIncluded(x.table)
    BY DEF TallyInv, ResultsOnce, Placed, Visited, Included
  <2> QED BY <1>1, <2>1 DEF Included
<1> DEFINE f == [x \in S |-> x.table]
<1>5. f \in Bijection(S, Included(T))
  <2>1. \A x, y \in S : f[x] = f[y] => x = y
    BY DEF TallyInv, ResultsOnce
  <2>2. f \in [S -> Included(T)] /\ \A t \in Included(T) : \E x \in S : f[x] = t
    BY <1>3, <1>4
  <2> QED BY <2>1, <2>2 DEF Bijection, Injection, Surjection, IsInjective
<1>6. IsFiniteSet(S)
  <2>1. IsFiniteSet(results) /\ S \in SUBSET results
    BY DEF TallyInv, ResultsOnce
  <2> QED BY <2>1, FS_Subset
<1> QED BY <1>5, <1>6, FS_Bijection DEF ExistsBijection

\* The summary says what the stored results say, for any tables and
\* configurations.
THEOREM SummaryIsOfTheResults == Spec => []SummaryMatchesResults
<1>1. ASSUME TallyInv, pc = "done"
      PROVE  /\ summary.added = Cardinality({x \in results : x.status = "added"})
             /\ summary.removed = Cardinality({x \in results : x.status = "removed"})
             /\ summary.compared = Cardinality(Diffed)
             /\ summary.changed = Cardinality(DiffedAndChanged)
             /\ summary.keyless = Cardinality(DiffedWithoutKey)
             /\ summary.rows = Cardinality(WithRows)
             /\ ~HasChanges => Included(Names("base")) = Included(Names("new"))
  <2>1. Tally /\ Typed
    BY <1>1 DEF TallyInv
  <2>2. summary.added = Cardinality({x \in results : x.status = "added"})
    BY <1>1, <2>1, ResultsAreTables DEF Tally
  <2>3. summary.removed = Cardinality({x \in results : x.status = "removed"})
    <3>1. CASE TablesRemoved # TablesAdded
      BY <1>1, <2>1, <3>1, ResultsAreTables DEF Tally
    <3>2. CASE TablesRemoved = TablesAdded
      <4>1. TablesRemoved = {} /\ Included(TablesRemoved) = {}
        BY <3>2 DEF TablesAdded, TablesRemoved, Included
      <4>2. {x \in results : x.status = "removed"} = {}
        BY <1>1, <4>1 DEF TallyInv, ResultsOnce, Placed
      <4> QED BY <1>1, <2>1, <4>1, <4>2 DEF Tally
    <3> QED BY <3>1, <3>2
  <2>4. ASSUME ~HasChanges
        PROVE  Included(Names("base")) = Included(Names("new"))
    <3>1. summary.added = 0 /\ summary.removed = 0
      BY <2>1, <2>4 DEF HasChanges, Tally
    <3>2. Cardinality(Included(TablesAdded)) = 0 /\ Cardinality(Included(TablesRemoved)) = 0
      BY <1>1, <2>1, <3>1 DEF Tally
    <3>3. Included(TablesAdded) = {} /\ Included(TablesRemoved) = {}
      BY <2>1, <3>2, TablesFinite, FS_EmptySet
    <3> QED BY <3>3 DEF Included, TablesAdded, TablesRemoved
  <2> QED BY <2>1, <2>2, <2>3, <2>4 DEF Tally
<1>2. TallyInv => SummaryMatchesResults
  BY <1>1 DEF SummaryMatchesResults, Counted, Diffed, DiffedAndChanged, DiffedWithoutKey, WithRows
<1> QED BY <1>2, TallyHolds, PTL

\* Every included table and no excluded one has one result, for any tables,
\* configurations and number of DDL statements.
THEOREM TablesAreVisitedOnce == Spec => []EveryTableOnce
<1>1. ASSUME TallyInv, pc = "done", NEW t \in Tables
      PROVE  Cardinality({x \in results : x.table = t}) =
               IF /\ t \in Names("base") \cup Names("new")
                  /\ config.include = {} \/ t \in UNION config.include
                  /\ t \notin UNION config.exclude
               THEN 1 ELSE 0
  <2>1. t \in Visited <=> /\ t \in Names("base") \cup Names("new")
                          /\ config.include = {} \/ t \in UNION config.include
                          /\ t \notin UNION config.exclude
    BY DEF Visited, Included, IsIncluded, Common, TablesAdded, TablesRemoved
  <2>2. CASE t \in Visited
    <3>1. PICK x \in results : x.table = t
      BY <1>1, <2>2 DEF TallyInv, ResultsOnce
    <3>2. {y \in results : y.table = t} = {x}
      BY <1>1, <3>1 DEF TallyInv, ResultsOnce
    <3>3. Cardinality({x}) = 1
      BY FS_Singleton
    <3> QED BY <2>1, <2>2, <3>2, <3>3
  <2>3. CASE t \notin Visited
    <3>1. {y \in results : y.table = t} = {}
      BY <1>1, <2>3 DEF TallyInv, ResultsOnce, Placed
    <3> QED BY <2>1, <2>3, <3>1, FS_EmptySet
  <2> QED BY <2>2, <2>3
<1>2. ASSUME TallyInv, SavedInv, pc = "done", NEW x \in results
      PROVE  x.status \in Whole <=>
               \E y \in changes : y.table = x.table /\ y.kind \in {"table_added", "table_removed"}
  <2>1. changes = Compared /\ Placed(x)
    BY <1>2 DEF SavedInv, TallyInv, ResultsOnce
  <2>2. ASSUME x.status \in Whole
        PROVE  \E y \in changes : y.table = x.table /\ y.kind \in {"table_added", "table_removed"}
    <3>1. CASE x.table \in TablesAdded
      <4>1. Change("table_added", x.table, NoType, NoType, NoType) \in changes
        BY <2>1, <3>1 DEF Compared
      <4> QED BY <4>1 DEF Change
    <3>2. CASE x.table \in TablesRemoved
      <4>1. Change("table_removed", x.table, NoType, NoType, NoType) \in changes
        BY <2>1, <3>2 DEF Compared
      <4> QED BY <4>1 DEF Change
    <3> QED BY <2>1, <2>2, <3>1, <3>2 DEF Placed, Whole
  <2>3. ASSUME NEW y \in changes, y.table = x.table, y.kind \in {"table_added", "table_removed"}
        PROVE  x.status \in Whole
    <3>1. x.table \in TablesAdded \cup TablesRemoved
      BY <2>1, <2>3, KindsApart
    <3>2. x.table \notin Common
      BY <3>1 DEF Common, TablesAdded, TablesRemoved
    <3> QED BY <2>1, <3>2 DEF Placed
  <2> QED BY <2>2, <2>3
<1>3. TallyInv /\ SavedInv => EveryTableOnce
  BY <1>1, <1>2 DEF EveryTableOnce
<1>4. Spec => []SavedInv
  <2>1. Init => SavedInv
    BY TypedInit DEF Init, SavedInv
  <2> QED BY <2>1, SavedStep, PTL DEF Spec
<1> QED BY <1>3, <1>4, TallyHolds, PTL

-----------------------------------------------------------------------------
(* Type correctness.                                                        *)

ResultTyped(x) ==
  /\ x.table \in Tables /\ x.status \in {"same", "changed"} \cup Whole
  /\ x.key \subseteq Columns /\ x.ignored \subseteq Columns /\ x.keyed \in BOOLEAN

ChangeTyped(x) ==
  /\ x.kind \in Kinds /\ x.table \in Tables /\ x.column \in Columns \cup {NoType}
  /\ x.base_type \in Types \cup {NoType} /\ x.new_type \in Types \cup {NoType}

ServersTyped ==
  \A s \in Side : DOMAIN server[s] \subseteq Tables /\
    \A t \in DOMAIN server[s] : server[s][t] \in Shapes[t]

TypeInv ==
  /\ Typed /\ ServersTyped
  /\ config \in Configs /\ ddl \in 0..MaxDdl /\ touched \subseteq Tables
  /\ \A x \in changes : ChangeTyped(x)
  /\ \A x \in results : ResultTyped(x)

LEMMA ColumnChangeTyped ==
  ASSUME Typed, NEW t \in Common, NEW x \in ChangesOf(t)
  PROVE  ChangeTyped(x)
<1>1. PICK B \in SUBSET Columns : Snapshot("base")[t].cols \in [B -> Types]
  BY SnapshotTyped DEF Common, Side
<1>2. PICK N \in SUBSET Columns : Snapshot("new")[t].cols \in [N -> Types]
  BY SnapshotTyped DEF Common, Side
<1>3. t \in Tables
  BY NamesTyped DEF Common, Side
<1> DEFINE b == Snapshot("base")[t].cols
           n == Snapshot("new")[t].cols
<1>4. \/ \E c \in DOMAIN n \ DOMAIN b : x = Change("column_added", t, c, NoType, n[c])
      \/ \E c \in DOMAIN b \ DOMAIN n : x = Change("column_removed", t, c, b[c], NoType)
      \/ \E c \in DOMAIN b \cap DOMAIN n : x = Change("column_type_changed", t, c, b[c], n[c])
  BY ColumnChange DEF ChangesOf
<1>5. b \in [B -> Types] /\ n \in [N -> Types]
  BY <1>1, <1>2
<1> HIDE DEF b, n
<1>6. CASE \E c \in DOMAIN n \ DOMAIN b : x = Change("column_added", t, c, NoType, n[c])
  BY <1>2, <1>3, <1>5, <1>6 DEF Change, ChangeTyped, Kinds
<1>7. CASE \E c \in DOMAIN b \ DOMAIN n : x = Change("column_removed", t, c, b[c], NoType)
  BY <1>1, <1>3, <1>5, <1>7 DEF Change, ChangeTyped, Kinds
<1>8. CASE \E c \in DOMAIN b \cap DOMAIN n : x = Change("column_type_changed", t, c, b[c], n[c])
  BY <1>1, <1>3, <1>5, <1>8 DEF Change, ChangeTyped, Kinds
<1> QED BY <1>4, <1>6, <1>7, <1>8

LEMMA ChangesTyped ==
  ASSUME Typed, NEW x \in Compared
  PROVE  ChangeTyped(x)
<1>1. TablesAdded \subseteq Tables /\ TablesRemoved \subseteq Tables
  BY NamesTyped DEF TablesAdded, TablesRemoved, Side
<1>2. CASE \E t \in TablesAdded : x = Change("table_added", t, NoType, NoType, NoType)
  BY <1>1, <1>2 DEF Change, ChangeTyped, Kinds
<1>3. CASE \E t \in TablesRemoved : x = Change("table_removed", t, NoType, NoType, NoType)
  BY <1>1, <1>3 DEF Change, ChangeTyped, Kinds
<1>4. CASE \E t \in Common : x \in ChangesOf(t)
  BY <1>4, ColumnChangeTyped
<1> QED BY <1>2, <1>3, <1>4 DEF Compared

\* What the configuration and a table's own key give for its result.
LEMMA ConfigTyped ==
  ASSUME config \in Config, NEW t, NEW pk \in SUBSET Columns
  PROVE  KeyFor(t, pk) \subseteq Columns /\ IgnoredColumns(t) \subseteq Columns
<1>1. PICK K : config.keys \in [K -> SUBSET Columns]
  BY DEF Config
<1>2. PICK G : config.ignore \in [G -> SUBSET Columns]
  BY DEF Config
<1>3. KeyFor(t, pk) \subseteq Columns
  BY <1>1 DEF KeyFor, GetOr
<1>4. \A u : GetOr(config.ignore, u, {}) \subseteq Columns
  BY <1>2 DEF GetOr
<1> QED BY <1>3, <1>4 DEF IgnoredColumns

LEMMA SnapshotKeyTyped ==
  ASSUME Typed, NEW s \in Side, NEW t \in Names(s)
  PROVE  Snapshot(s)[t].pk \in SUBSET Columns
<1>1. read[s] \in Answer /\ t \in read[s].names
  BY DEF Typed, Names, Snapshot
<1>2. Snapshot(s)[t].pk = GetOr(read[s].pk, t, {})
  BY <1>1 DEF Snapshot
<1>3. PICK K : read[s].pk \in [K -> SUBSET Columns]
  BY <1>1 DEF Answer
<1> QED BY <1>2, <1>3 DEF GetOr

LEMMA ServersTypedStep ==
  ASSUME TypeInv, Ddl
  PROVE  ServersTyped' /\ ddl' \in 0..MaxDdl /\ touched' \subseteq Tables
<1>1. PICK d \in Live, a \in Tables :
        /\ touched' = touched \cup {a}
        /\ \/ \E x \in Shapes[a] : server' =
                [server EXCEPT ![d] = [u \in DOMAIN @ \cup {a} |-> IF u = a THEN x ELSE @[u]]]
           \/ server' = [server EXCEPT ![d] = [u \in DOMAIN @ \ {a} |-> @[u]]]
  BY DEF Ddl
<1>2. ASSUME NEW s \in Side
      PROVE  DOMAIN server'[s] \subseteq Tables
             /\ \A t \in DOMAIN server'[s] : server'[s][t] \in Shapes[t]
  <2>1. DOMAIN server[s] \subseteq Tables /\ \A t \in DOMAIN server[s] : server[s][t] \in Shapes[t]
    BY DEF TypeInv, ServersTyped
  <2>2. CASE s # d
    <3>1. server'[s] = server[s]
      BY <1>1, <2>2 DEF TypeInv, Typed, Servers
    <3> QED BY <2>1, <3>1
  <2>3. CASE s = d
    <3>1. CASE \E x \in Shapes[a] : server' =
                 [server EXCEPT ![d] = [u \in DOMAIN @ \cup {a} |-> IF u = a THEN x ELSE @[u]]]
      <4>1. PICK x \in Shapes[a] :
              server'[s] = [u \in DOMAIN server[s] \cup {a} |-> IF u = a THEN x ELSE server[s][u]]
        BY <2>3, <3>1 DEF TypeInv, Typed, Servers
      <4> QED BY <1>1, <2>1, <4>1
    <3>2. CASE server' = [server EXCEPT ![d] = [u \in DOMAIN @ \ {a} |-> @[u]]]
      <4>1. server'[s] = [u \in DOMAIN server[s] \ {a} |-> server[s][u]]
        BY <2>3, <3>2 DEF TypeInv, Typed, Servers
      <4> QED BY <2>1, <4>1
    <3> QED BY <1>1, <3>1, <3>2
  <2> QED BY <2>2, <2>3
<1>3. ddl' \in 0..MaxDdl
  BY SchemaDiffAssumption DEF Ddl, TypeInv
<1> QED BY <1>1, <1>2, <1>3 DEF ServersTyped, TypeInv

LEMMA TypeStep ==
  ASSUME TypeInv, [Next]_vars
  PROVE  TypeInv'
<1>1. Typed' /\ config \in Config
  BY TypedStep, SchemaDiffAssumption DEF TypeInv
<1>2. CASE ReadNames \/ ReadColumns \/ ReadKeys \/ Finish \/ UNCHANGED vars
  <2>1. UNCHANGED <<config, server, ddl, touched, changes, results>>
    BY <1>2 DEF ReadNames, ReadColumns, ReadKeys, Finish, vars, external
  <2> QED BY <1>1, <2>1 DEF TypeInv, ServersTyped, ChangeTyped, ResultTyped
<1>3. CASE Ddl
  <2>1. UNCHANGED <<config, changes, results>>
    BY <1>3 DEF Ddl
  <2> QED BY <1>1, <1>3, <2>1, ServersTypedStep DEF TypeInv
<1>4. CASE SaveSchemaDiff
  <2>1. UNCHANGED <<config, server, ddl, touched, results>> /\ changes' = Compared
    BY <1>4 DEF SaveSchemaDiff, Compared, external
  <2>2. \A x \in changes' : ChangeTyped(x)
    BY <2>1, ChangesTyped DEF TypeInv
  <2> QED BY <1>1, <2>1, <2>2 DEF TypeInv, ServersTyped
<1>5. CASE DiffTable
  <2>1. PICK t \in ToVisit(Common), n \in {0, 1} :
          LET key == KeyUsed(t) keyed == key # {}
          IN results' = results \cup
               {[table |-> t, status |-> IF ChangesOf(t) # {} THEN "changed" ELSE "same",
                 key |-> key, ignored |-> IgnoredColumns(t), keyed |-> keyed, n |-> n]}
    BY <1>5 DEF DiffTable
  <2>2. t \in Names("base") /\ t \in Tables
    BY NamesTyped DEF ToVisit, Included, Common, Side, TypeInv
  <2>3. KeyUsed(t) \subseteq Columns /\ IgnoredColumns(t) \subseteq Columns
    BY <1>1, <2>2, SnapshotKeyTyped, ConfigTyped DEF TypeInv, Side, KeyUsed
  <2>4. \A x \in results' : ResultTyped(x)
    <3> DEFINE key == KeyUsed(t)
               keyed == key # {}
               r == [table |-> t, status |-> IF ChangesOf(t) # {} THEN "changed" ELSE "same",
                     key |-> key, ignored |-> IgnoredColumns(t), keyed |-> keyed, n |-> n]
    <3>1. results' = results \cup {r}
      BY <2>1
    <3>2. r.keyed \in BOOLEAN
      OBVIOUS
    <3>3. ResultTyped(r)
      <4>1. r.table = t /\ r.status \in {"same", "changed"} /\ r.key = key
            /\ r.ignored = IgnoredColumns(t)
        OBVIOUS
      <4> HIDE DEF r
      <4> QED BY <2>2, <2>3, <3>2, <4>1 DEF ResultTyped
    <3> HIDE DEF r
    <3> QED BY <3>1, <3>3 DEF TypeInv
  <2>5. UNCHANGED <<config, server, ddl, touched, changes>>
    BY <1>5 DEF DiffTable, external
  <2> QED BY <1>1, <2>4, <2>5 DEF TypeInv, ServersTyped
<1>6. CASE CountTable
  <2>1. PICK t \in ToVisit(TablesAdded \cup TablesRemoved), n \in {0, 1} :
          results' = results \cup
            {[table |-> t, status |-> IF t \in TablesAdded THEN "added" ELSE "removed",
              key |-> {}, ignored |-> {}, keyed |-> FALSE, n |-> n]}
    BY <1>6 DEF CountTable
  <2>2. t \in Tables
    BY NamesTyped DEF ToVisit, Included, TablesAdded, TablesRemoved, Side, TypeInv
  <2>3. \A x \in results' : ResultTyped(x)
    <3> DEFINE r == [table |-> t, status |-> IF t \in TablesAdded THEN "added" ELSE "removed",
                     key |-> {}, ignored |-> {}, keyed |-> FALSE, n |-> n]
    <3>1. ResultTyped(r)
      BY <2>2 DEF ResultTyped, Whole
    <3> HIDE DEF r
    <3> QED BY <2>1, <3>1 DEF TypeInv, r
  <2>4. UNCHANGED <<config, server, ddl, touched, changes>>
    BY <1>6 DEF CountTable, external
  <2> QED BY <1>1, <2>3, <2>4 DEF TypeInv, ServersTyped
<1> QED BY <1>2, <1>3, <1>4, <1>5, <1>6 DEF Next

\* Type correctness, for any tables, shapes, configurations and DDL.
THEOREM TypeCorrect == Spec => []TypeOK
<1>1. Init => TypeInv
  <2> SUFFICES ASSUME Init PROVE TypeInv
    OBVIOUS
  <2>1. ServersTyped
    BY DEF Init, ServersTyped
  <2> QED BY <2>1, TypedInit, SchemaDiffAssumption DEF Init, TypeInv
<1>2. TypeInv /\ [Next]_vars => TypeInv'
  BY TypeStep
<1>3. TypeInv /\ TallyInv => TypeOK
  BY DEF TypeInv, TallyInv, Tally, Typed, Label, Answer, ServersTyped, ChangeTyped, ResultTyped, TypeOK
<1> QED BY <1>1, <1>2, <1>3, TallyHolds, PTL DEF Spec
=============================================================================
