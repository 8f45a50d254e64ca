SPECIFICATION FairSpec
CONSTANTS
    MaxCalls = 5
    MaxSequence = 2
    MaxConnections = 3
    MaxFaults = 1
CHECK_DEADLOCK FALSE
INVARIANTS
    OwnAnswer
PROPERTIES
    CallsSpec
