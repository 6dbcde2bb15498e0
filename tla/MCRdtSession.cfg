CONSTANTS
    Half = 3
    RestartLowMax = 1
    MaxPosition = 6
    MaxSession = 1
    MaxBias = 1
    MaxReceived = 5
SPECIFICATION Spec
INVARIANT LossIsExact
PROPERTIES AcceptedInOrder DropsOnlyOld
CHECK_DEADLOCK FALSE
