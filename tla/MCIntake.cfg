\* Every log of up to four lines, folded and decoded by each entry point.
SPECIFICATION Spec
CONSTANTS
  MaxInput = 4
  LineLen <- MCLineLen
  CustomKinds = {"body", "blank"}
  Configs <- MCConfigs
  DefaultMaxLines = 2
  DefaultMaxBytes = 99
  NumCPU = 2
  MinBatch = 2
  WorkerRequests <- MCWorkerRequests
CHECK_DEADLOCK FALSE
INVARIANTS
  RecordsWhole
  SplitsWhereDue
  ResultsExact
  TotalsAreDelivered
PROPERTIES
  CallReturns
