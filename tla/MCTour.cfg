SPECIFICATION Spec
CONSTANTS
    Grant = 2
    LogLimit = 12
    QueueLimit = 2
    MaxEpochs = 1
    MaxTries = 2
    MaxGranted = 8
CHECK_DEADLOCK FALSE
INVARIANTS
    PacketsSound
PROPERTIES
    PickedIsDelivered
    GuideTellsTheTruth
