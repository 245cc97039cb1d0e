SPECIFICATION Spec
CONSTANTS
    Capacity = 1
    BatchMax = 2
    Retention = 1
    Period = 1
    MaxDay = 2
    MaxRecords = 3
    MaxLives = 2
    Faults = TRUE
INVARIANTS
    CountersExact SnapshotHonest ShutdownSound
CHECK_DEADLOCK FALSE
