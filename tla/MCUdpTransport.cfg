CONSTANTS
    Fd = {f1, f2, f3}
    None = None
    MaxAddress = 2
    MaxSession = 3
SPECIFICATION Spec
INVARIANTS NoForeignRead NoDescriptorLeak ShutdownIsNotAFailure
PROPERTY StopWakesReceive
