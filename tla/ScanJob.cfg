\* Two ports on two workers: the rows of two tasks, the done status and the error status
\* that may follow it.  A browser streams the scan while scans are listed, or the scan
\* is read while scans are listed.
SPECIFICATION FairSpec
CONSTANTS
    NumPorts = 2
    NumWorkers = 2
    MaxFindings = 1
    Readers = {{"stream", "list"}, {"get", "list"}}
INVARIANTS
    LiveRowsAreResultRows
    StreamIsFaithful
    DoneAnswersAreComplete
PROPERTIES
    ImplementsScanFeed
    StreamEnds
