\* Two requests of one session, a revocation, two generations of tokens.
CONSTANTS
    p1 = p1
    p2 = p2
    s1 = s1
    u1 = u1
    a1 = a1
    Sessions = {s1}
    Users = {u1}
    Requests = {p1, p2}
    Revocations = {a1}
    MaxTickets = 3
SPECIFICATION Spec
SYMMETRY MCSymmetry
INVARIANTS
    Inv
    RefreshedOnce
PROPERTY
    EndedStaysEnded
CHECK_DEADLOCK FALSE
