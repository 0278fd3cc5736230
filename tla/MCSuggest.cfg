\* Several suggestions for one input, from candidates over five eval lines.
SPECIFICATION SuggestSpec
CONSTANTS
  N = 5
  Sample = {0, 1, 2}
  Nil = Nil
  FirstLines = 1
  RawInputs <- MCRawInputs
  LimitRequests = {0, 4}
  Inputs <- MCInputs
  Prims <- MCPrims
  SplitSub <- MCSplitSub
  Dash = "-"
  DistinctCap = 2
  TokenLen <- MCTokenLen
  Skeleton <- MCSkeleton
  MaxTemplates = 4
  MinLines = 3
  ShortLines = 4
  MaxCuts = 3
  MaxBranches = 3
  MinBranchLines = 2
  PoolInputs <- MCPoolInputs
  TargetRequests = {0, 50, 120}
  KeptEntries = 2
  CatchallMax = 20
  MaxPatterns = 3
  MinGainPercent = 40
  DefaultK = 3
  TopKRequests = {0, 1, 2, 3}
  FallbackInputs <- MCFallbackInputs
CHECK_DEADLOCK FALSE
INVARIANTS
  SampleSound
  PopulationMatched
  AnswerWorthwhile
  CoverWorthwhile
  ListHonest
