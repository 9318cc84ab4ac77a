SPECIFICATION Spec
CONSTANTS
    Job = {j1, j2}
    NoJob = NoJob
    Faults = {"store", "file", "wait", "shutdown", "crash"}
    KillOnClose = TRUE
SYMMETRY JobSymmetry
INVARIANTS
    TypeOK QueuedRowsAreQueued VerdictAfterExit
    SampleSupervised FailedHasNoReport
PROPERTIES StatusForward RunsAtMostOnce
CHECK_DEADLOCK FALSE
