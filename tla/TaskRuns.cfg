SPECIFICATION FairSpec
CONSTANTS
    a = a
    b = b
    c = c
    h1 = h1
    h2 = h2
    h3 = h3
    Tasks = {a, b, c}
    Inventory <- ThreeHosts
    MarkedPrimary = {h1}
    Deployfiles <- Everywhere
    Cmds = 2
    Runs = 2
    Operator = Operator
    None = None
INVARIANTS
    CyclesFound
    DroppedStayOut
    NothingSwallowed
    CacheFresh
    OutputAttributed
PROPERTIES
    RunReturns
\* The process ends.
CHECK_DEADLOCK FALSE
