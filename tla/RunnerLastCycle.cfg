SPECIFICATION RunSpec
CONSTANTS
  MaxInputs = 1
  MaxCycles = 2
  Assignment <- MCAssignment
  Circuit <- MCCircuit
  Indices <- OneIndex
  ShareCounts = {}
  LateMasks = FALSE
  Retries = FALSE
  Cycles = {0, 1, 2, 3}
  Samples = 2
  Secrets = 2
  WordBits = 2
CHECK_DEADLOCK FALSE
INVARIANTS
  CurrentGivenData
