\* The solver's passes on small weeks, and the versions of a run.
SPECIFICATION PlanningSpec
CONSTANTS
    None = None
    Payloads <- Weeks
    Version = {1, 2, 3}
    Row = {1, 2}
    Request = {r1, r2}
    RunWeek <- EditedWeek
INVARIANTS
    PlanningTypeOK
    PlanStaysAsGood
    CoPublishedOverlapped
    CarefulPlansHold
    DraftsOnce
PROPERTIES
    PublishedRowsFrozen
SYMMETRY Symmetric
CHECK_DEADLOCK FALSE
