CONSTANTS
    Pid = {p1, p2}
    NoPid = NoPid
    PrimaryWindow = 1
    MaxWindow = 2
    MaxTime = 4
    Kinds = {"create", "exit", "write", "connect", "call", "thread", "install"}
SPECIFICATION Spec
SYMMETRY Symmetry
INVARIANTS
    GraphIsTheLiving
    EvidenceIsOwn
    EitherOrderIsReported
PROPERTIES
    ChainHasPreparation
