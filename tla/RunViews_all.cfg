\* One run, of a worker or of a command with --json, over two tables of up to three
\* changed rows, two on a page, and one tab; runs are deleted, processes killed.
SPECIFICATION OneRunViews
CONSTANTS
  WebJobs = {w1}
  CliJobs = {c1}
  JsonJobs = {c1}
  Tables = {t1, t2}
  Excluded = {}
  MaxRows = 3
  Diffs <- Found
  Limit = 2
  Pages = {}
  Tabs = {b1}
  Crashes = TRUE
  StoreFaults = FALSE
  LogFaults = FALSE
INVARIANTS ViewsTypeOK PagesCoverRows ExportIsWhole
PROPERTY TabSeesTheEnd
\* The system stops once every requested run has ended and the tab is lost.
CHECK_DEADLOCK FALSE
