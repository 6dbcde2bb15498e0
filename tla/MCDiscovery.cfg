CONSTANTS
    Standards <- MCStandards
    Tokens <- MCTokens
    TokensAgain <- MCTokensAgain
    MaxEdits = 2
    Required <- MCRequired
    MaxResponse = 13
    MaxField = 2
    MaxLost = 1
    PerMillisecond = 2
    MaxLong = 4
    MaxDeadline = 11
    Timeouts <- MCTimeouts
SPECIFICATION Spec
INVARIANTS ConfigurationIsTheDocuments ValidConfigIsDiscoverable
CHECK_DEADLOCK FALSE
