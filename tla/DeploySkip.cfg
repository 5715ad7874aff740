SPECIFICATION FairSpec
CONSTANTS
    h1 = h1
    h2 = h2
    h3 = h3
    d1 = d1
    d2 = d2
    Hosts = {h1, h2, h3}
    Inventory <- ThreeHosts
    MarkedPrimary = {h2}
    Required = {h3}
    Deployers = {d1}
    Rollbackers = {}
    CleaningRollbacks = {}
    Unlockers = {}
    Targets <- AllHosts
    Skip = TRUE
    KeepReleases = 1
    InitialReleases = 1
    Seconds = {2}
    NoOwner = NoOwner
    NoRelease = NoRelease
    Faults = {"fail", "lost", "timeout", "cancel"}
INVARIANTS
    PublishBarrier
PROPERTIES
    SuccessMeansLive
    CommandsEnd
\* Every command returns: the system stops when all of them have.
CHECK_DEADLOCK FALSE
