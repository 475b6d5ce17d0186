SPECIFICATION Spec
CONSTANTS
  None = None
  Shipment = {s1}
  Carton = {c1, c2, c3}
  Request = {r1}
INVARIANTS
  ReadinessMatchesCartons
  ShippedTogether
SYMMETRY Symmetric
