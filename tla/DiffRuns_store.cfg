\* One web run and one command line run over two tables, deleted and killed
\* at any point, the store failing when it records an error.
SPECIFICATION Spec
CONSTANTS
  WebJobs = {w1}
  CliJobs = {c1}
  Tables = {t1, t2}
  Excluded = {}
  MaxRows = 1
  Diffs <- Written
  Pages = {}
  Crashes = TRUE
  StoreFaults = TRUE
  LogFaults = TRUE
SYMMETRY RunSymmetry
INVARIANTS TypeOK DoneIsComplete NoOrphanRows IInv
\* The system stops once every requested run has ended.
CHECK_DEADLOCK FALSE
