\* One deletion, and an API request that passed the block check before it.
CONSTANTS
    u1 = u1
    a1 = a1
    s = s
    Users = {u1}
    Admins = {a1}
    Synchronizer = s
    Grace = 2
    MaxDelay = 1
    MaxChanges = 1
    MaxCalls = 1
SPECIFICATION Spec
INVARIANT
    NothingWrittenAfterDeletion
CHECK_DEADLOCK FALSE
