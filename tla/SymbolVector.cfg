SPECIFICATION Spec
CONSTANTS
  w1 = w1
  w2 = w2
  w3 = w3
  w4 = w4
  w5 = w5
  w6 = w6
  S_X = S_X
  Wire = {w1, w2, w3, w4, w5, w6}
  Present = {w1, w2, w3, w4, w5}
  Name <- MCName
  NameBits <- MCNameBits
  NumShares = 2
  WordBits = 2
  Overlaps = FALSE
  Undriven = FALSE
INVARIANTS
  SliceRight
  Mirrors
  ReadRight
