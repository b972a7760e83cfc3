SPECIFICATION SimSpec
CONSTANTS
  MaxInputs = 3
  MaxCycles = 2
  Assignment <- MCAssignment
  Circuit <- MCCircuit
  Indices <- MCIndices
  ShareCounts = {2, 3}
  LateMasks = FALSE
  Retries = FALSE
CHECK_DEADLOCK FALSE
INVARIANTS
  TypeOK
  HeldSound
  OneSource
  LabelsComplete
