CONSTANTS
    Users = {u1, u2}
    Worker = worker
    Destroyer = destroyer
    FaultCode = {f1}
    None = None
    Policies = {"FailStop", "Reconnect"}
    MaxCalls = 4
    MaxGeneration = 2
SPECIFICATION FairSpec
PROPERTIES FaultEndsAcquisition DestroyCompletes StopReturns StartReturns
CHECK_DEADLOCK FALSE
