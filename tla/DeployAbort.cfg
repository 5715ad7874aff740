SPECIFICATION Spec
CONSTANTS
    h1 = h1
    h2 = h2
    h3 = h3
    d1 = d1
    d2 = d2
    Hosts = {h1, h2}
    Inventory <- TwoHosts
    MarkedPrimary = {h2}
    Required = {}
    Deployers = {d1, d2}
    Rollbackers = {}
    CleaningRollbacks = {}
    Unlockers = {u1}
    Targets <- Filtered
    Skip = FALSE
    KeepReleases = 2
    InitialReleases = 1
    Seconds = {2, 3}
    NoOwner = NoOwner
    NoRelease = NoRelease
    Faults = {"fail", "crash"}
INVARIANTS
    TypeOK
    MutualExclusion
    LockHeld
    NoLockLeft
    LiveReleaseComplete
PROPERTIES
    ImplementsStage
\* Every command returns: the system stops when all of them have.
CHECK_DEADLOCK FALSE
