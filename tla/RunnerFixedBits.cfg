SPECIFICATION RunSpec
CONSTANTS
  MaxInputs = 4
  MaxCycles = 1
  Assignment <- MCAssignment
  Circuit <- MCCircuit
  Indices <- TwoIndices
  ShareCounts = {2}
  LateMasks = FALSE
  Retries = FALSE
  Cycles = {0, 1, 2, 3}
  Samples = 2
  Secrets = 2
  WordBits = 64
CHECK_DEADLOCK FALSE
INVARIANTS
  OwnBits
