\* The three algorithms on sides that are written twice meanwhile.
SPECIFICATION Spec
CONSTANTS
  BaseColumns = {"k", "c"}
  NewColumns = {"k", "c"}
  Keys = {{"k"}, {}}
  FirstKey = "k"
  Ignored = {}
  Value <- MCValue
  Null = Null
  Sentinel = "~"
  Join <- MCJoin
  Servers = {TRUE, FALSE}
  Caps = {5}
  BaseTables <- LiveTables
  NewTables <- LiveTables
  MaxWrites = 2
INVARIANTS CountsOfOneMoment DetailMatchesCounts DetailWasReal
\* The diff ends.
CHECK_DEADLOCK FALSE
