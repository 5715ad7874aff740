SPECIFICATION FairSpec
CONSTANTS
    checked = checked
    unchecked = unchecked
    Workers = {w1, w2}
    Keys = {checked, unchecked}
    ModeOf <- OneHost
    UseBastion = TRUE
    Rounds = 2
    None = None
    Faults = {"refuse", "timeout", "cancel", "end"}
INVARIANTS
    NothingLeaks
    AbortsForgotten
    VerifiedThroughout
PROPERTIES
    RequestsAnswered
\* The process ends when its connections are closed.
CHECK_DEADLOCK FALSE
