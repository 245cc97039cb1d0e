CONSTANTS
    Requests = {r1, r2}
    Callers = {s1}
    LlamaCPP = LlamaCPP
    TestBackend = TestBackend
    Allocations = {LlamaCPP, TestBackend}
    NoAllocation = NoAllocation
    QueueMax = 2
    Limits <- MCLimits
SPECIFICATION FairSpec
PROPERTIES
    NothingStuck
    ShutdownCompletes
