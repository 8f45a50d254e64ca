SPECIFICATION CreditsSpec
CONSTANTS
    NumGroups = 1
    Fields <- CreditFields
    Owner <- CreditOwner
    Monotonic <- CreditFields
    MaxValue = 2
    ValidValues <- CreditValues
    MaxId = 3
    MaxFaults = 2
    OldFrames <- MCClaims
CHECK_DEADLOCK FALSE
INVARIANTS
    CreditChain
    HonestFramesAccepted
    ReleasedIsDurable
    Restorable
    FrozenAnswers
    AcknowledgedIsRecorded
PROPERTIES
    NoRollback
    LedgerSpec
