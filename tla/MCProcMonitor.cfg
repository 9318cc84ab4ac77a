CONSTANTS
    Pid = {s, p1, p2}
    Sample = s
    Outside = Outside
    NoPid = NoPid
    Namespaces = TRUE
    MaxBirths = 3
    Openers = {p1}
    Connectors = {p2}
    LateFailures = TRUE
SPECIFICATION FairSpec
INVARIANTS
    PassedOverIsTracked
    StrangersUnheard
PROPERTIES
    ExitOfAnnounced
    DescendantsTracked
CHECK_DEADLOCK FALSE
