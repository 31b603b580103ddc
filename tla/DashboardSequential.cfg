\* One open at a time: the user waits for the details before clicking again.
SPECIFICATION PageSpec
CONSTANTS
    Scans = {a, b}
    MaxRows = 2
    MaxOpens = 3
    OverlappingOpens = FALSE
CHECK_DEADLOCK FALSE
INVARIANTS
    StreamsMatchTheView
    DoneViewIsComplete
