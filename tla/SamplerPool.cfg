SPECIFICATION FairSpec
CONSTANTS
  NumThreads = 2
  RunLength = 2
  RunsPerThread = 2
  LoadedRuns = 1
  PrintInterval = 1
  PrintBest = 1
  Timeout = 1
  EarlyStop = TRUE
  Storing = TRUE
  UnmaskedSecrets <- MCUnmaskedSecrets
  Substantial <- MCSubstantial
INVARIANTS
  TypeOK
  DoneMeansIdle
  OvercountAtMostOne
  StopLatency
  ExactResult
PROPERTIES
  QuietAfterBreak
  RefinesAnalysis
  Termination
