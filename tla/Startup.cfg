SPECIFICATION FairSpec
CONSTANTS
    master = master  worker = worker  old = old
    Node = {master, worker, old}
    Files = 2
    Knows <- MCKnows
    Attempts = 2
    MaxCrashes = 1
    MaxOutages = 1
INVARIANTS
    AppliedInOrder
    RanOnce
    UpIsMigrated
PROPERTIES
    ComesUp
CHECK_DEADLOCK FALSE
