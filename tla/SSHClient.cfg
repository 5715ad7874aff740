SPECIFICATION FairSpec
CONSTANTS
    m1 = m1
    m2 = m2
    gone = gone
    Dials = {a, b}
    Followed = {a}
    Machines = {m1, m2}
    HostKeys <- AllKeys
    KeysOf <- TwoMachines
    InitialLines <- SomeLines
    Configs <- SomeConfigs
    MaxFails = 2
    Torn = Torn
    NoKey = NoKey
    Free = Free
INVARIANTS
    DialsClean
    FirstContact
    KnownHostsPass
PROPERTIES
    RunReturns
\* The clients are closed in the end, or nobody uses them.
CHECK_DEADLOCK FALSE
