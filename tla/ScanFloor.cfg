\* Seven lines in four chunks, the last one short; two workers, every floor.
SPECIFICATION Spec
CONSTANTS
  N = 7
  Procs = 2
  ScanMinChunkLines = 2
  ScanChunkLines = 4
INVARIANTS
  ResultIsSequential
  ClaimsSound
PROPERTIES
  Terminates
CHECK_DEADLOCK FALSE
