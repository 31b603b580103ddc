\* Up to two hosts with up to three ports on two workers.  Ints up to 15 hold
\* the progress of four ports, not that of six.
SPECIFICATION Spec
CONSTANTS
    MaxHosts = 2
    MaxPorts = 3
    NumWorkers = 2
    MaxFindings = 1
    Scale = 3
    IntBound = 16
INVARIANTS
    ReportIsComplete
    ProgressIsFaithful
    TtlOfAPingedHost
PROPERTIES
    ScanEnds
