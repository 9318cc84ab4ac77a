SPECIFICATION FairQueues
CONSTANTS
    Job = {j1, j2}
    NoJob = NoJob
    Faults = {"file", "wait", "shutdown", "crash"}
    KillOnClose = FALSE
    Pusher = {p1, p2, p3}
    Popper = {w1, w2}
    Nobody = Nobody
INVARIANTS ReportImpliesVerdict PopNeverFails NoLostWakeup
PROPERTIES LedgerSpec AcceptedFinishes QueueSpec PushedIsPopped
CHECK_DEADLOCK FALSE
