\* One user, two administrators, two changes; every push may be lost or late.
CONSTANTS
    u1 = u1
    a1 = a1
    a2 = a2
    s = s
    Users = {u1}
    Admins = {a1, a2}
    Synchronizer = s
    Grace = 2
    MaxDelay = 1
    MaxChanges = 2
    MaxCalls = 2
SPECIFICATION FairSpec
INVARIANTS
    Inv
    DeletedIsRejected
PROPERTIES
    BlockHolds
    BlockArrives
    UnblockArrives
CHECK_DEADLOCK FALSE
