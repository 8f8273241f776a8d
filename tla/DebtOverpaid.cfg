\* One request at a time: an operation that added to the debt is deleted after it was repaid.
CONSTANTS
    u1 = u1
    d1 = d1
    t1 = t1
    Debts = {d1}
    Users = {u1}
    Workers = {}
    Templates = {t1}
    Kinds = {"Create", "AddOperation", "DeleteOperation"}
    Alone = {}
    Outside = {}
    Types = {"Payment", "Increase"}
    Amounts = {1, 2}
    Originals = {1}
    Direction <- AllPayable
    MaxOperations = 3
    MaxPerPass = 1
SPECIFICATION Spec
SYMMETRY MCSymmetry
INVARIANT
    NeverOverpaid
CHECK_DEADLOCK FALSE
