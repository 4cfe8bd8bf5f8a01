CONSTANTS
    Sessions = {s1, s2}
    Workers = {w1, w2}
    TlsCa = TRUE
    MaxOpens = 2
    MaxOps = 3
SYMMETRY Symmetry
SPECIFICATION Spec
INVARIANTS
    RuntimeInv
    ClosedLeavesNothing
PROPERTIES
    SessionsVerified
    OvertakenStops
