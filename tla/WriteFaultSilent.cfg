SPECIFICATION Spec
CONSTANTS
    Axes = {x, y}
    Builds = {TRUE}
    ClientFault = {Socket}
    None = None
    NaN = NaN
    Timeout = 1
    MaxNow = 3
    MaxSamples = 1
    MaxConfigure = 1
    MaxActivate = 1
SYMMETRY AxisSymmetry
CHECK_DEADLOCK FALSE
INVARIANT ErrorIsReported
