\* One scan and one crash, and a SQLite that never fails.
SPECIFICATION Spec
CONSTANTS
    Jobs = {j1}
    MaxRestarts = 1
    Faults = {}
INVARIANTS
    DoneSurvivesRestart
