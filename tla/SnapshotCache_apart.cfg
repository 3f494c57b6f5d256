\* Two commands at once that share no snapshot, the cap not reached.
SPECIFICATION Spec
CONSTANTS
  Procs = {"p1", "p2"}
  Specs = {"a", "b", "c", "d"}
  Name <- OwnName
  Local = {}
  Wants <- WantsApart
  Parts = 2
  MaxSnapshots = 4
  MaxCommands = 2
  Serial = FALSE
  Stops = FALSE
  Ties = TRUE
INVARIANTS DiffReadsItsDumps
\* The commands end.
CHECK_DEADLOCK FALSE
