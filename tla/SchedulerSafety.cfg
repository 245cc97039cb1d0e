CONSTANTS
    Requests = {r1, r2, r3}
    Callers = {s1}
    LlamaCPP = LlamaCPP
    TestBackend = TestBackend
    Allocations = {LlamaCPP, TestBackend}
    NoAllocation = NoAllocation
    QueueMax = 2
    Limits <- MCLimits
SPECIFICATION Spec
SYMMETRY MCSymmetry
VIEW MCView
INVARIANTS
    TypeOK
    LeaseAccounting
    NoOperationUnderLease
    ExclusiveResidency
    QueueServed
    CleanupDiscipline
PROPERTY
    ImplementsLeaseManager
