SPECIFICATION FairSpec
CONSTANTS
    c1 = c1
    c2 = c2
    Callers = {c1, c2}
    MaxQueue = 2
    FailingRoles = {"device", "server"}
    MaxEpochs = 3
    MaxPackets = 3
CHECK_DEADLOCK FALSE
INVARIANTS
    NothingFromBefore
PROPERTIES
    OperationsEnd
