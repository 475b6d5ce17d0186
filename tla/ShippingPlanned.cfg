SPECIFICATION Spec
CONSTANTS
  None = None
  Shipment = {s1}
  Carton = {c1, c2}
  Request = {r1}
PROPERTIES
  PlannedLocksCartons
