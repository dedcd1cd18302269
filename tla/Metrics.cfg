SPECIFICATION MetricsSpec
CONSTANTS
    N = 2
    Wrap = 5
    SizeOfT = 2
    Id = {1, 2}
    Scope = {s1, s2, s3}
    MaxTime = 2
    MaxCalls = 2
    Key = {1, 2}
    MaxPath = 2
    MaxNodes = 4
SYMMETRY Symmetry
INVARIANTS
    EveryStartIsStopped
    NeverAborts
    UpAndDownAgree
    TimesAreSpent
PROPERTIES
    ImplementsProfile
    ImplementsPathMap
CHECK_DEADLOCK FALSE
