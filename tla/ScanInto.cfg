\* Five lines, in three chunks with a short last one for three workers, or just
\* below the parallel threshold.
SPECIFICATION Spec
CONSTANTS
  N = 5
  Procs = 3
  ScanMinChunkLines = 2
  ScanChunkLines = 4
  MinLinesChoices = {5, 6}
INVARIANTS
  ResultIsSequential
  ChunksSound
PROPERTIES
  Terminates
CHECK_DEADLOCK FALSE
