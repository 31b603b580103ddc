\* Two sign-ins, two callbacks (repeated or mixed up), one request.
SPECIFICATION Spec
CONSTANTS
    Flows = {f1, f2}
    Callbacks = {c1, c2}
    Requests = {r1}
    Users = {u1, u2}
    FlowTtl = 1
    SessionTtl = 1
    MaxTime = 3
    None = None
CHECK_DEADLOCK FALSE
INVARIANTS
    SessionsMatchFlows
PROPERTIES
    DeadSessionStaysDead
