SPECIFICATION Spec
CONSTANTS
    Processes = {p1}
    Kinds = {"speculative"}
    Plans <- MCPlans
    CacheModes <- MCCacheModes
    Stray = Stray
    None = None
    MaxAttempts = 2
    MaxFaults = 1
    MaxLost = 1
INVARIANTS
    SweepResumable
CHECK_DEADLOCK FALSE
