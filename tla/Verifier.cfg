SPECIFICATION Spec
CONSTANTS
  p1 = p1
  p2 = p2
  f1 = f1
  f2 = f2
  f3 = f3
  h1 = h1
  h2 = h2
  Junk = Junk
  None = None
  NoParams = NoParams
  Word = 64
  ParallelSize = 4
  DefaultHist = 4
  DefaultData = 2
  File = {f1, f2, f3}
  Process = {p1, p2}
  Hash = {h1, h2}
  RunLength <- MCRunLength
  Script <- MCScript
  Disk <- MCDisk
  Faults = {"kill", "write"}
  MaxRuns = 1
CHECK_DEADLOCK FALSE
INVARIANTS
  TypeOK
  NeverWrongCount
  ContinuesOwnResult
  NothingLost
  PlanCovers
