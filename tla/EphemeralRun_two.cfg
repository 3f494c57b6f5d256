SPECIFICATION FairSpec
CONSTANTS
  a1 = a1
  a2 = a2
  b1 = b1
  l1 = l1
  WebJobs = {w1}
  CliJobs = {c1}
  Dumps = {a1, a2, b1, l1}
  S3 = {a1, a2, b1}
  Live = Live
  None = None
  Name <- MCName
  Sources <- MCSources
  Ports = {3307, 3308}
INVARIANTS TypeOK RunReadsItsDumps NothingLeft
PROPERTY ContainersGo
CHECK_DEADLOCK FALSE
