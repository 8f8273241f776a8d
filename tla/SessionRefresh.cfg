\* Three requests of two sessions, and an entry object more than requests.
CONSTANTS
    p1 = p1
    p2 = p2
    p3 = p3
    k1 = k1
    k2 = k2
    e1 = e1
    e2 = e2
    e3 = e3
    e4 = e4
    Requests = {p1, p2, p3}
    Keys = {k1, k2}
    Entries = {e1, e2, e3, e4}
    NoEntry = NoEntry
SPECIFICATION FairSpec
INVARIANTS
    Inv
    NoLeak
PROPERTIES
    IsSessionLock
    WaitersProceed
