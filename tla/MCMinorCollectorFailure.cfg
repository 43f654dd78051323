CONSTANTS
    Root = {r1, r2}
    Field = {f}
    EdenSize = 1
    SemiSize = 1
    OldSize = 3
    OldLimit = 3
    CardSize = 2
SPECIFICATION Spec
INVARIANT FailureCleanedUp
CHECK_DEADLOCK FALSE
