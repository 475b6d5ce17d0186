SPECIFICATION Spec
CONSTANTS
  p1 = p1
  l1 = l1
  None = None
  Product = {p1}
  Lot = {l1, l2}
  Order = {o1}
  Carton = {c1, c2}
  Slot = {1, 2}
  Clerk = {k1}
  ProductOf <- OneProduct
  FefoRank <- Fefo
  ReleaseRank <- NullsFirst
  CodeRank <- Codes
  MaxUnits = 2
INVARIANTS
  MovementsExplainStock
CHECK_DEADLOCK FALSE
SYMMETRY Symmetric
