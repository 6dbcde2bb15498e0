SPECIFICATION Spec
CONSTANTS
    Axes = {x}
    Builds = {FALSE}
    ClientFault = {Socket}
    None = None
    NaN = NaN
    Timeout = 1
    MaxNow = 3
    MaxSamples = 2
    MaxConfigure = 2
    MaxActivate = 2
CHECK_DEADLOCK FALSE
INVARIANT ReportNamesFirstCause
