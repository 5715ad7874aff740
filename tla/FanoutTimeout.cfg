SPECIFICATION Spec
CONSTANTS
    h1 = h1
    h2 = h2
    h3 = h3
    Targets = {h1, h2}
    Order <- TwoHosts
    Concurrency = 0
    Required = {h1}
    Policies = {"skip"}
    NoHost = NoHost
    Faults = {"timeout"}
INVARIANTS
    LostHostsSkipped
\* The step is over when it is judged.
CHECK_DEADLOCK FALSE
