\* One web run and one command line run over one table, a browser tab showing
\* either while they are written, deleted and killed.
SPECIFICATION FairSpec
CONSTANTS
  WebJobs = {w1}
  CliJobs = {c1}
  Tables = {t1}
  Excluded = {}
  MaxRows = 1
  Diffs <- AtRestOrNot
  Pages = {p1}
  Crashes = TRUE
  StoreFaults = FALSE
  LogFaults = FALSE
INVARIANTS PageIsWhole
PROPERTIES SettledIsFrozen RefinesHistory EveryRunSettles
\* The system stops once every requested run has ended.
CHECK_DEADLOCK FALSE
