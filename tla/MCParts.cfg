SPECIFICATION PartsSpec
CONSTANTS
    Job = {j1, j2}
    NoJob = NoJob
    Target = j1
    Faults = {"file", "shutdown"}
    KillOnClose = TRUE
    BaseName = {"a", "b"}
    Local = "local"
    NoFile = NoFile
    SigmaDirs <- TestSigmaDirs
    SigmaEvents <- TestSigmaEvents
    MaxExprDepth = 4
    YaraFiles <- TestYaraFiles
    Buffers <- TestBuffers
    ScanCap = 5
    Run = {r1, r2}
    NoRun = NoRun
    Handle = {h1, h2, h3, h4}
    Closed = Closed
    Store = {s1, s2, s3}
    MaxRows = 3
    Thread = {t1, t2}
    NoThread = NoThread
    MaxLives = 2
    MaxJobs = 3
INVARIANTS PrintedMeansScored OwnUpload SigmaAgrees YaraAgrees Contained SavedVerifies CloseIsFinal
CHECK_DEADLOCK FALSE
