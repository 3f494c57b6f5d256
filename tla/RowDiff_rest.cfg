\* All three algorithms on tables that nobody writes meanwhile.
SPECIFICATION Spec
CONSTANTS
  BaseColumns <- MCBaseColumns
  NewColumns <- MCNewColumns
  Keys <- MCKeys
  FirstKey = "k"
  Ignored = {"g"}
  Value <- MCValue
  Null = Null
  Sentinel = "~"
  Join <- MCJoin
  Servers = {TRUE, FALSE}
  Caps = {1, 5}
  BaseTables <- MCBaseTables
  NewTables <- MCNewTables
  MaxWrites = 0
INVARIANTS TypeOK CountsAreExact ChangesPatchBase DetailMatchesCounts KeylessDetailIsComplete
\* The diff ends.
CHECK_DEADLOCK FALSE
