\* Two worker instances, edits and deletions between their steps; what is due on the
\* second day is posted although the first day's date may fail for ever.
CONSTANTS
    t1 = t1
    w1 = w1
    w2 = w2
    Templates = {t1}
    Workers = {w1, w2}
    MaxDay = 2
    Intervals = {1}
    Unreliable <- FirstDay
    MaxCrashes = 1
SPECIFICATION FairSpec
INVARIANTS
    Inv
    PostedOnce
PROPERTIES
    DeletedNeverPosts
    NoBackfill
    DueIsPosted
CHECK_DEADLOCK FALSE
