SPECIFICATION Spec
CONSTANTS
    checked = checked
    unchecked = unchecked
    Workers = {w1, w2}
    Keys = {checked, unchecked}
    ModeOf <- OneHost
    UseBastion = TRUE
    Rounds = 1
    None = None
    Faults = {"refuse", "timeout"}
PROPERTIES
    BastionFailureCached
\* The process ends when its connections are closed.
CHECK_DEADLOCK FALSE
