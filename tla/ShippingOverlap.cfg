SPECIFICATION CrashSpec
CONSTANTS
  None = None
  Shipment = {s1}
  Carton = {c1}
  Request = {r1, r2}
INVARIANTS
  MilestonesBehindStatus
PROPERTIES
  CaseSpec
  LockLostToStaleCopiesOnly
SYMMETRY Symmetric
