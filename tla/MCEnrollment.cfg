SPECIFICATION LossySpec
CONSTANTS
    d1 = d1
    d2 = d2
    Devices = {d1, d2}
    MaxSessions = 2
    MaxTime = 2
    MaxFaults = 1
    Served = {d1}
CHECK_DEADLOCK FALSE
INVARIANTS
    RecordsSound
    ConfirmedByServer
    CandidateAnsweredSession
    EndedSessionRegistersNobody
PROPERTIES
    RegistrationIsFinal
    EnrollmentCompletesUnlessDisplaced
