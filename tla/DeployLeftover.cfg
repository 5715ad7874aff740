SPECIFICATION Spec
CONSTANTS
    h1 = h1
    h2 = h2
    h3 = h3
    d1 = d1
    d2 = d2
    Hosts = {h1}
    Inventory <- OneHost
    MarkedPrimary = {}
    Required = {}
    Deployers = {d1, d2}
    Rollbackers = {r1}
    CleaningRollbacks = {}
    Unlockers = {}
    Targets <- AllHosts
    Skip = FALSE
    KeepReleases = 5
    InitialReleases = 1
    Seconds = {2, 3}
    NoOwner = NoOwner
    NoRelease = NoRelease
    Faults = {"fail"}
INVARIANTS
    LiveReleaseComplete
\* Every command returns: the system stops when all of them have.
CHECK_DEADLOCK FALSE
