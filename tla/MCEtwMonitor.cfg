CONSTANTS
    Pid = {s, p1, p2}
    Sample = s
    Outside = Outside
    NoPid = NoPid
    Namespaces = FALSE
    MaxBirths = 3
    Openers = {}
    Connectors = {}
    Providers = {"Kernel-File", "Kernel-Registry", "Kernel-Network", "Kernel-Thread",
                 "Kernel-Image", "Kernel-Handle", "WMI-Activity", "TaskScheduler"}
SPECIFICATION Spec
SYMMETRY Symmetry
INVARIANTS
    DescendantsTracked
    CleanSlate
    EscalationReported
CHECK_DEADLOCK FALSE
