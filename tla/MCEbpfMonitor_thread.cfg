CONSTANTS
    Pid = {s, p1}
    Sample = s
    Outside = Outside
    NoPid = NoPid
    Namespaces = TRUE
    MaxBirths = 2
    Openers = {p1}
    Connectors = {p1}
    CPU = {c1, c2}
    RingSize = 2
    Threads = {p1}
    Calls <- FewCalls
    p1 = p1
    MaxEvents = 4
SYMMETRY CPUs
SPECIFICATION Spec
INVARIANTS
    ExitMeansGone
CHECK_DEADLOCK FALSE
