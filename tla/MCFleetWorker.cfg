SPECIFICATION FairSpec
CONSTANTS
    MaxPosts = 5
    MaxQueue = 2
    MaxFaults = 2
    MaxPasses = 4
CHECK_DEADLOCK FALSE
INVARIANTS
    SavedStateSound
    ExchangeSettles
PROPERTIES
    SuccessIsReal
    EveryMessageAnswered
