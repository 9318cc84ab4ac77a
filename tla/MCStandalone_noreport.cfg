SPECIFICATION CliSpec
CONSTANTS
    Job = {j1}
    NoJob = NoJob
    Target = j1
    Faults = {}
    KillOnClose = TRUE
PROPERTIES NoReportMeansNone
CHECK_DEADLOCK FALSE
