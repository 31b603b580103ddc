\* Two scans, two crashes and every fault of SQLite.
SPECIFICATION FairSpec
CONSTANTS
    Jobs = {j1, j2}
    MaxRestarts = 2
    Faults = {"statement", "prepare", "commit"}
INVARIANTS
    NoErrorWithoutFault
    NoTransactionLeaks
    StoredResultsFitTheirRow
PROPERTIES
    ScanSettles
