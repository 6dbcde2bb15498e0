CONSTANTS
    Half = 3
    RestartLowMax = 1
    Configs <- PathConfigs
    StormThreshold = 2
    Calibrations = {c1, c2}
    Overflowing = {c1, c2}
    InitialDelay = 1
    MaxDelay = 3
    None = None
    MaxBorn = 5
    MaxInFlight = 2
    MaxSession = 3
    MaxDisturbance = 2
SYMMETRY CalibrationSymmetry
SPECIFICATION Spec
INVARIANTS FailStopNeverConfirmsRestart RevisionNamesCalibration StormIsConsecutive BackoffIsExponential
PROPERTIES FreshDelivery
CHECK_DEADLOCK FALSE
