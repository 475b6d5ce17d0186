\* A published version after a new preparation of its run: what the design note promises.
SPECIFICATION PlanningSpec
CONSTANTS
    None = None
    Payloads <- NoWeeks
    Version = {1, 2}
    Row = {1, 2}
    Request = {r1}
    RunWeek <- EditedWeek
PROPERTIES
    PublishedFrozen
CHECK_DEADLOCK FALSE
