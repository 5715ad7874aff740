SPECIFICATION FairSpec
CONSTANTS
    Creators = {c1}
    Waits = {}
    Patchers = {c1}
    Cleaners = {k1}
    Refreshers = {f1}
    Rollbackers = {r1}
    SetsDefault = {r1}
    Tracks = "default"
    KeepLast = 0
    InitialImages = 3
    Faults = {"error", "lost", "broken"}
INVARIANTS
    NeverPending
    LiveImageKept
    RollbackRefreshed
PROPERTIES
    ActionsEnd
\* Every action ends: the system stops when all of them have.
CHECK_DEADLOCK FALSE
