CONSTANTS
    Process = {p1, p2}
    FirstDeadline = 1
    Duration = 1
    MaxSamples = 2
SPECIFICATION Spec
INVARIANTS FileIsWhole ReportIsFinal SlotOutlivesReceiver
PROPERTY Bounded
CHECK_DEADLOCK FALSE
