SPECIFICATION LossySpec
CONSTANTS
    d1 = d1
    d2 = d2
    Devices = {d1}
    MaxSessions = 2
    MaxTime = 1
    MaxFaults = 0
    Served = {d1}
CHECK_DEADLOCK FALSE
PROPERTIES
    EnrollmentCompletes
