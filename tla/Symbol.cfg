SPECIFICATION Spec
CONSTANTS
  h1 = h1
  h2 = h2
  h3 = h3
  Handle = {h1, h2, h3}
  Assignment <- MCAssignment
  FreshTruth <- MCFreshTruth
  MaxVars = 4
  MaxEmitted <- MCMaxEmitted
SYMMETRY Symmetric
INVARIANTS
  TypeOK
  HandleSound
  DefinitionsOrdered
  DefinedOnce
  PositionNeverWrong
  SlotsDense
