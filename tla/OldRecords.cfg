CONSTANTS
    Half = 3
    RestartLowMax = 1
    Configs <- FailStopConfigs
    StormThreshold = 2
    Calibrations = {c1}
    Overflowing = {}
    InitialDelay = 1
    MaxDelay = 3
    None = None
    MaxBorn = 4
    MaxInFlight = 2
    MaxSession = 1
    MaxDisturbance = 1
SPECIFICATION Spec
PROPERTY OldRecordsAreDropped
CHECK_DEADLOCK FALSE
