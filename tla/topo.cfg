SPECIFICATION FairSpec
CONSTANTS
  a = a
  b = b
  c = c
  x = x
  Names = {a, b, c}
  DepLists <- MCDepLists
INVARIANTS
  ReturnsOrder
  RefusesRightly
PROPERTIES
  Ends
