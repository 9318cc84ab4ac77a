SPECIFICATION Spec
CONSTANTS
    Run = {j1, j2}
    NoRun = NoRun
    Handle = {h1, h2, h3}
    Closed = Closed
INVARIANTS OwnContextKills
CHECK_DEADLOCK FALSE
