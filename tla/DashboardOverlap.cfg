\* The user clicks a second scan while the first answer is on its way.
SPECIFICATION PageSpec
CONSTANTS
    Scans = {a, b}
    MaxRows = 1
    MaxOpens = 2
    OverlappingOpens = TRUE
CHECK_DEADLOCK FALSE
INVARIANTS
    OneStreamAtATime
