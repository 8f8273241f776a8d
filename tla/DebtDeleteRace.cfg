\* Two debts repaid from one account, deleted at the same time.
CONSTANTS
    u1 = u1
    u2 = u2
    d1 = d1
    d2 = d2
    t1 = t1
    Debts = {d1, d2}
    Users = {u1, u2}
    Workers = {}
    Templates = {t1}
    Kinds = {"Create", "AddOperation", "Delete"}
    Alone = {}
    Outside = {}
    Types = {"Payment"}
    Amounts = {1}
    Originals = {2}
    Direction <- AllPayable
    MaxOperations = 2
    MaxPerPass = 1
SPECIFICATION Spec
SYMMETRY MCSymmetry
PROPERTY
    DeletionKeepsBalance
CHECK_DEADLOCK FALSE
