\* Every schedule: what Discover returns and writes.
SPECIFICATION Spec
CONSTANTS
  N = 3
  StructuredInputs <- MCStructuredInputs
  LibraryInputs <- MCLibraryInputs
  InferredInputs <- MCInferredInputs
  Sample <- MCSample
  Top = 2
  SampleFloor = 1
  Threshold = 2
  InferredMin = 2
  Fallback <- MCFallback
  Nil = Nil
CHECK_DEADLOCK FALSE
PROPERTIES
  NothingLeaks
INVARIANTS
  Deterministic
  NothingBetterMissed
  CountsSound
