SPECIFICATION Spec
CONSTANTS
    h1 = h1
    h2 = h2
    h3 = h3
    d1 = d1
    d2 = d2
    Hosts = {h1}
    Inventory <- OneHost
    MarkedPrimary = {}
    Required = {}
    Deployers = {d1}
    Rollbackers = {}
    CleaningRollbacks = {}
    Unlockers = {}
    Targets <- AllHosts
    Skip = FALSE
    KeepReleases = 2
    InitialReleases = 2
    Seconds = {0}
    NoOwner = NoOwner
    NoRelease = NoRelease
    Faults = {}
INVARIANTS
    LiveReleaseComplete
\* Every command returns: the system stops when all of them have.
CHECK_DEADLOCK FALSE
