SPECIFICATION MCSpec
CONSTANTS
    Processes = {p1, p2}
    Commands <- AllCommands
    Foreign = Foreign
    None = None
    MaxMade = 2
    MaxForeign = 1
    MaxKills = 1
    Workers = {p1, p2}
    Units <- MCUnits
    Prerequisites <- MCPrerequisites
    CleanupRank <- MCCleanupRank
    Before <- MCBefore
    Jobs <- MCJobs
    MaxImages = 4
    MaxJobs = 3
    MaxUserEdits = 1
SYMMETRY MCSymmetry
INVARIANTS
    NoSilentLeftover GatewayRemovesBackends CleanupComplete
    OneMoment BuiltOnFresh TagsKept
CHECK_DEADLOCK FALSE
