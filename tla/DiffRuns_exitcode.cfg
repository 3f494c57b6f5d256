\* A column added to a table whose rows did not change, beside an excluded table.
SPECIFICATION Spec
CONSTANTS
  WebJobs = {}
  CliJobs = {c1}
  Tables = {t1, x1}
  Excluded = {x1}
  MaxRows = 1
  Diffs <- AtRest
  Pages = {}
  Crashes = FALSE
  StoreFaults = FALSE
  LogFaults = FALSE
INVARIANTS ExitTellsAnyChange
\* The system stops once every requested run has ended.
CHECK_DEADLOCK FALSE
