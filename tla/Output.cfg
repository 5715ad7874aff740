SPECIFICATION Spec
CONSTANTS
    Hosts = {h1, h2}
    Chunks <- MCChunks
    Values <- MCValues
    MinSecretLen = 2
    MaxLine = 6
    MaxWrites <- MCWrites
SYMMETRY Symmetry
INVARIANTS
    OutputWhole
    NoSecretShown
\* A run ends after its last round.
CHECK_DEADLOCK FALSE
