\* Every operation of the debt pages; those that hold the debt's lock run beside each
\* other and beside up to two payments of a worker pass, the others while nothing else is
\* under way; those whose effect a tracked debt does not show not between the payments.
CONSTANTS
    t1 = t1
    t2 = t2
    w1 = w1
    u2 = u2
    u1 = u1
    d1 = d1
    Debts = {d1}
    Users = {u1, u2}
    Workers = {w1}
    Templates = {t1, t2}
    Kinds = {"Create", "AddOperation", "UpdateOperation", "DeleteOperation", "Close", "Reopen", "Update", "Delete", "DeleteTemplate"}
    Alone = {"DeleteOperation", "Close", "Reopen", "Update", "DeleteTemplate"}
    Outside = {"UpdateOperation", "DeleteOperation", "Close", "Reopen", "Update"}
    Types = {"ReceivedRepayment", "LoanDisbursement"}
    Amounts = {1, 2}
    Originals = {1, 2}
    Direction <- AllReceivable
    MaxOperations = 3
    MaxPerPass = 2
SPECIFICATION Spec
SYMMETRY MCSymmetry
INVARIANTS
    ClosedMeansRepaid
    ClosedStopsAutomation
    OneTemplate
PROPERTIES
    OnlyDeletionOverpays
    DeletionKeepsBalance
CHECK_DEADLOCK FALSE
