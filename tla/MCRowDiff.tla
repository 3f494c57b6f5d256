----------------------------- MODULE MCRowDiff -----------------------------
(* Small tables for the model-checking runs of RowDiff.  Texts are one      *)
(* character long, so joining them is injective.                            *)
EXTENDS RowDiff

\* k: the key; c: on both sides; g: on both sides and ignored;
\* o: dropped from the new side; x: added on the new side.
MCBaseColumns == {"k", "c", "g", "o"}
MCNewColumns == {"k", "c", "g", "x"}

\* The primary key, none, and an override that only the base side has.
MCKeys == {{"k"}, {}, {"o"}}

MCValue == {"1", "2", "a", "b", "~"}
MCJoin(texts) == texts

\* At most one row for each of two keys.
RowsWith(cols, key1) ==
  {r \in [cols -> {key1, "a", "b", Null}] :
     \A c \in cols : r[c] \in CASE c = "k" -> {key1}
                               [] c = "c" -> {"a", "b", Null}
                               [] c = "g" -> IF "x" \in cols THEN {"a", "b"} ELSE {"a"}
                               [] OTHER -> {"a", Null}}
KeyedTables(cols) ==
  LET rows == [i \in {1, 2} |-> RowsWith(cols, <<"1", "2">>[i])]
  IN UNION {{T \in [ids -> UNION {rows[i] : i \in ids}] : \A i \in ids : T[i] \in rows[i]} :
              ids \in SUBSET {1, 2}}

\* Up to two rows of any kind: duplicates, and NULLs in the key column too.
LooseTables(cols) ==
  LET rows == {r \in [cols -> {"a", "b", Null}] : \A c \in cols \ {"k", "c"} : r[c] = "a"}
  IN UNION {[1..n -> rows] : n \in 0..2}

\* A primary key is unique and never NULL; without one anything goes.
TablesFor(k, cols) == IF k = {"k"} THEN KeyedTables(cols) ELSE LooseTables(cols)
MCBaseTables(k) == TablesFor(k, BaseColumns)
MCNewTables(k) == TablesFor(k, NewColumns)

\* The same rows under a configured key, which nothing makes unique.
AnyBaseTables(k) == LooseTables(BaseColumns)
AnyNewTables(k) == LooseTables(NewColumns)

\* For sides that are written: two keys, or up to two rows without a key.
LiveTables(k) ==
  IF k = {"k"} THEN {T \in KeyedTables({"k", "c"}) : \A r \in Rows(T) : r["c"] # Null}
  ELSE UNION {[1..n -> {[k |-> "a", c |-> v] : v \in {"a", "b"}}] : n \in 0..2}
=============================================================================
