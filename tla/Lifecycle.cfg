CONSTANTS
    Users = {u1, u2}
    Worker = worker
    Destroyer = destroyer
    FaultCode = {f1, f2}
    None = None
    Policies = {"FailStop", "Reconnect"}
    MaxCalls = 8
    MaxGeneration = 4
SYMMETRY CallerSymmetry
SPECIFICATION Spec
INVARIANTS QuietAfterStop OneReceiver LatchShowsInHealth DestructionIsSafe
           NobodyWaitsInVain
PROPERTIES FailedStartLeavesNoTrace WaitNeverLies ImplementsClient
CHECK_DEADLOCK FALSE
