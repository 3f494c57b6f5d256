\* Three commands, one after the other, over four snapshots and a cap of two.
SPECIFICATION Spec
CONSTANTS
  Procs = {"p1"}
  Specs = {"a", "b", "c", "d"}
  Name <- OwnName
  Local = {"c"}
  Wants <- WantsAnyTwo
  Parts = 2
  MaxSnapshots = 2
  MaxCommands = 3
  Serial = TRUE
  Stops = TRUE
  Ties = FALSE
INVARIANTS TypeOK DiffReadsItsDumps RegisteredIsWhole IInv CapHoldsAfterMiss
\* The commands end.
CHECK_DEADLOCK FALSE
