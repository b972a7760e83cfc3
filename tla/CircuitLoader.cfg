SPECIFICATION FairSpec
CONSTANTS
  Signal <- MCSignal
  Name <- MCName
  Netlist <- MCNetlist
CHECK_DEADLOCK FALSE
INVARIANTS
  TypeOK
  VerdictRight
  OrderTopological
  CellsComplete
  MissingExact
  NamesRight
PROPERTIES
  AcyclicEnds
