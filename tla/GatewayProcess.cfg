SPECIFICATION MCFairSpec
CONSTANTS
    Gateways = {g1, g2}
    Clients = {c1}
    None = None
    PortOf <- OwnPort
    Faults = TRUE
    MaxCrashes = 1
    BufferBytes = 2
    ReadBytes = 2
    MaxBytes = 3
    MaxComments = 2
INVARIANTS
    GatewayExclusive Transparent CommentsBetweenEvents
PROPERTIES
    AnswersTrue StopCompletes CloseUnblocks
CHECK_DEADLOCK FALSE
