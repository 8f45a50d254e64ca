SPECIFICATION FairSpec
CONSTANTS
    MaxSessions = 2
    MaxKeys = 3
    MaxChallenges = 3
    MaxRequests = 3
    MaxFaults = 3
    MaxPasses = 4
CHECK_DEADLOCK FALSE
INVARIANTS
    PinnedHostIsSaved
    RegisteredTogether
    ExchangeSettles
PROPERTIES
    SuccessIsReal
    OperationEnds
