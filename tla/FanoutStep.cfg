SPECIFICATION FairSpec
CONSTANTS
    h1 = h1
    h2 = h2
    h3 = h3
    Targets = {h1, h2, h3}
    Order <- ThreeHosts
    Concurrency = 2
    Required = {h2}
    Policies = {"abort", "skip", "continue"}
    NoHost = NoHost
    Faults = {"exit", "drop", "refuse", "timeout", "interrupt"}
INVARIANTS
    RootCauseSurfaces
    HostsIndependent
PROPERTIES
    StepReturns
    ImplementsStep
\* The step is over when it is judged.
CHECK_DEADLOCK FALSE
