SPECIFICATION Spec
CONSTANTS
    Requests = {r1, r2, r3}
    Sessions = {s1, s2, s3}
    None = None
    RecentLimit = 2
    ActiveLimit = 2
    SessionLimit = 2
SYMMETRY MCSymmetry
VIEW MCView
INVARIANTS
    SnapshotExact LedgerTrue
PROPERTIES
    ReportContinuous
CHECK_DEADLOCK FALSE
