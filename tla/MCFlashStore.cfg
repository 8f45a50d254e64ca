SPECIFICATION FairSpec
CONSTANTS
    Sectors = 3
    Pages = 2
    MaxSequence = 4
    MaxGeneration = 2
    MaxNonce = 2
    Domains = {1, 2}
    MaxIdentities = 2
    MaxFaults = 2
CHECK_DEADLOCK FALSE
INVARIANTS
    RangesDisjoint
    ResetIsFinal
PROPERTIES
    RegisterSpec
    ResetCompletes
