SPECIFICATION MCSpec
CONSTANTS
    Processes = {p1, p2}
    Commands <- GatewayCommands
    Foreign = Foreign
    None = None
    MaxMade = 2
    MaxForeign = 0
    MaxKills = 0
    Workers = {p1, p2}
    Units <- MCUnits
    Prerequisites <- MCPrerequisites
    CleanupRank <- MCCleanupRank
    Before <- MCBefore
    Jobs = {}
    MaxImages = 4
    MaxJobs = 0
    MaxUserEdits = 0
SYMMETRY MCSymmetry
INVARIANTS
    ReclaimsOnlyStale
CHECK_DEADLOCK FALSE
