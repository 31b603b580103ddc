\* One user, one sign-in, one scan; the session may expire or be logged out meanwhile.
SPECIFICATION Spec
CONSTANTS
    Flows = {f1}
    Callbacks = {c1}
    Requests = {r1}
    Users = {u1}
    FlowTtl = 1
    SessionTtl = 1
    MaxTime = 2
    None = None
CHECK_DEADLOCK FALSE
INVARIANTS
    ScanOwnerIsStarter
