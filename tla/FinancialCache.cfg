\* Two callers of a cached read that uses another cached read, racing a commit.
CONSTANTS
    c1 = c1
    c2 = c2
    r0 = r0
    r1 = r1
    Callers = {c1, c2}
    Operations = {"summary", "balances"}
    Tables = {"accounts", "transactions"}
    Queries <- NestedQueries
    Uses <- NestedUses
    Revisions = {r0, r1}
    Empty = r0
    MaxCommits = 1
SPECIFICATION Spec
SYMMETRY MCSymmetry
INVARIANTS
    Inv
    CurrentEntryIsCurrent
PROPERTY
    CacheIsInvisible
CHECK_DEADLOCK FALSE
