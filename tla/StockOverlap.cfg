SPECIFICATION OverlapSpec
CONSTANTS
  p1 = p1
  l1 = l1
  None = None
  Product = {p1}
  Lot = {l1}
  Order = {o1}
  Carton = {c1}
  Slot = {1, 2}
  Clerk = {k1, k2}
  ProductOf <- OneProduct
  FefoRank <- Fefo
  ReleaseRank <- NullsFirst
  CodeRank <- Codes
  MaxUnits = 2
INVARIANTS
  ReservationsBacked
PROPERTIES
  OnlyStaleCopiesMiscount
CHECK_DEADLOCK FALSE
SYMMETRY Symmetric
