\* Pipes of two chunks and two lines, a dump of five chunks.
SPECIFICATION FairSpec
CONSTANTS
  Chunks = 5
  PipeSize = 2
  ErrSize = 2
  MaxLines = 3
INVARIANTS TypeOK SuccessIsWhole IInv
PROPERTIES RefinesRestore RestoreEnds
\* The call ends.
CHECK_DEADLOCK FALSE
