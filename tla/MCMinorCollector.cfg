CONSTANTS
    Root = {r1, r2}
    Field = {f}
    EdenSize = 1
    SemiSize = 1
    OldSize = 2
    OldLimit = 2
    CardSize = 2
SPECIFICATION Spec
INVARIANTS
    
    
    HeapIntact
CHECK_DEADLOCK FALSE
