CONSTANTS
    Pid = {s, p1}
    Sample = s
    Outside = Outside
    NoPid = NoPid
    Namespaces = TRUE
    MaxBirths = 2
    Openers = {p1}
    Connectors = {}
    LateFailures = TRUE
SPECIFICATION Spec
INVARIANTS
    PollsUntilStopped
CHECK_DEADLOCK FALSE
