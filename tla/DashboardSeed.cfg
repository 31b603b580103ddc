\* A single open of a running scan that already has a row.
SPECIFICATION PageSpec
CONSTANTS
    Scans = {a}
    MaxRows = 1
    MaxOpens = 1
    OverlappingOpens = FALSE
CHECK_DEADLOCK FALSE
INVARIANTS
    RowsShownOnce
