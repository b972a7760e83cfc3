SPECIFICATION SimSpec
CONSTANTS
  MaxInputs = 2
  MaxCycles = 3
  Assignment <- MCAssignment
  Circuit <- MCCircuit
  Indices <- MCIndices
  ShareCounts = {1, 2}
  LateMasks = TRUE
  Retries = TRUE
CHECK_DEADLOCK FALSE
INVARIANTS
  SimulationSound
  ReadsEarlier
  UnmaskedLabels
