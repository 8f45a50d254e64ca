SPECIFICATION Spec
CONSTANTS
    MaxSessions = 1
    MaxKeys = 1
    MaxChallenges = 1
    MaxRequests = 1
    MaxFaults = 1
    MaxPasses = 4
CHECK_DEADLOCK FALSE
INVARIANTS
    RequestReportRestores
