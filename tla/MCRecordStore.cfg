SPECIFICATION Spec
CONSTANTS
    p1 = p1
    p2 = p2
    Procs <- MCProcs
    Lease = 2
    MaxNonce = 5
    MaxGeneration = 4
    MaxUpdates = 4
    MaxFaults = 3
SYMMETRY MCSymmetry
CHECK_DEADLOCK FALSE
INVARIANTS
    NoncesNeverReused
    ReleasedIsDurable
    AcknowledgedSurvives
    Reopenable
