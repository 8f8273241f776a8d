\* Two requests over three months, time zones, missed months and a late lock.
CONSTANTS
    Visitors = {v1}
    Editors = {e1}
    Items = {i1}
    Settings = {None, s1}
    Texts = {None, n1}
    Nothing = None
    MaxTime = 5
    Horizon = 1
    MaxMonth = 3
    MaxWrites = 1
    MaxEdits = 2
SPECIFICATION Spec
INVARIANTS
    Inv
    PlansAreChained
PROPERTIES
    ClosedIsFrozen
    EditsAreKept
    ClosesAsSaved
CHECK_DEADLOCK FALSE
