SPECIFICATION FairSpec
CONSTANTS
    PublishCap = 1
    StreamCap = 1
    ConsumerCap = 1
    MaxEvents = 4
    Faults = {"store", "pidreuse", "shutdown"}
INVARIANTS Accounted HitsBackedByTimeline
PROPERTIES LogSpec MonitorNotStuck DispatcherStops
CHECK_DEADLOCK FALSE
