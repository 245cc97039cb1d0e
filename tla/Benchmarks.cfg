SPECIFICATION Spec
CONSTANTS
    Processes = {p1, p2}
    Kinds = {"suite", "speculative", "acceptance"}
    Plans <- MCPlans
    CacheModes <- MCCacheModes
    Stray = Stray
    None = None
    MaxAttempts = 2
    MaxFaults = 1
    MaxLost = 1
SYMMETRY MCSymmetry
INVARIANTS
    CheckpointTruthful AcceptedNotRerun SuiteResumable
CHECK_DEADLOCK FALSE
