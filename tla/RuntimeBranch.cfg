SPECIFICATION FairSpec
CONSTANTS
    w1 = w1
    w2 = w2
    Workers = {w1, w2}
    Capacity = 2
INVARIANTS
    NoUseAfterRelease
    CleanRetirement
PROPERTIES
    ImplementsLifecycle
    BranchRetires
CHECK_DEADLOCK FALSE
