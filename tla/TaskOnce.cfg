SPECIFICATION Spec
CONSTANTS
    a = a
    b = b
    c = c
    h1 = h1
    h2 = h2
    h3 = h3
    Tasks = {a, b, c}
    Inventory <- ThreeHosts
    MarkedPrimary = {h1}
    Deployfiles <- Once
    Cmds = 1
    Runs = 1
    Operator = Operator
    None = None
INVARIANTS
    CompletesOnTheRest
\* The process ends.
CHECK_DEADLOCK FALSE
