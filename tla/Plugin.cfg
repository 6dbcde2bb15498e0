SPECIFICATION Spec
CONSTANTS
    Axes = {x,y}
    Builds = {TRUE, FALSE}
    ClientFault = {Socket}
    None = None
    NaN = NaN
    Timeout = 0
    MaxNow = 2
    MaxSamples = 2
    MaxConfigure = 2
    MaxActivate = 2
SYMMETRY AxisSymmetry
CHECK_DEADLOCK FALSE
INVARIANTS FailSafe OnlyThisConfiguration FailureIsFinal FaultIsReported NoUseAfterFree QuietUnlessActive
