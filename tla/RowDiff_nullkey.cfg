\* A configured key column that holds a NULL on both sides.
SPECIFICATION Spec
CONSTANTS
  BaseColumns = {"k", "c"}
  NewColumns = {"k", "c"}
  Keys = {{"k"}}
  FirstKey = "k"
  Ignored = {}
  Value <- MCValue
  Null = Null
  Sentinel = "~"
  Join <- MCJoin
  Servers = {TRUE}
  Caps = {5}
  BaseTables <- AnyBaseTables
  NewTables <- AnyNewTables
  MaxWrites = 0
INVARIANTS CountsAreExact
\* The diff ends.
CHECK_DEADLOCK FALSE
