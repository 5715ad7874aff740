SPECIFICATION Spec
CONSTANTS
    h1 = h1
    h2 = h2
    h3 = h3
    d1 = d1
    d2 = d2
    Hosts = {h1}
    Inventory <- OneHost
    MarkedPrimary = {}
    Required = {}
    Deployers = {d1}
    Rollbackers = {r1}
    CleaningRollbacks = {}
    Unlockers = {}
    Targets <- AllHosts
    Skip = FALSE
    KeepReleases = 5
    InitialReleases = 3
    Seconds = {4}
    NoOwner = NoOwner
    NoRelease = NoRelease
    Faults = {}
INVARIANTS
    LinkKept
\* Every command returns: the system stops when all of them have.
CHECK_DEADLOCK FALSE
