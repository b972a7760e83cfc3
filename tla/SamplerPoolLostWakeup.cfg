SPECIFICATION FairSpec
CONSTANTS
  NumThreads = 2
  RunLength = 1
  RunsPerThread = 1
  LoadedRuns = 1
  PrintInterval = 0
  PrintBest = 1
  Timeout = 1
  EarlyStop = TRUE
  Storing = TRUE
  UnmaskedSecrets = {}
  Substantial <- MCSubstantial
PROPERTIES
  TimeoutHonoured
