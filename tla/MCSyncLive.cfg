SPECIFICATION LossySpec
CONSTANTS
    NumGroups = 2
    Fields <- MCSetting
    Owner <- MCSettingOwner
    Monotonic = {}
    MaxValue = 1
    ValidValues <- MCSettingValid
    MaxId = 1
    MaxFaults = 1
    OldFrames = {}
    Served = {1}
CHECK_DEADLOCK FALSE
PROPERTIES
    RequestAnswered
    ResponseAcknowledged
