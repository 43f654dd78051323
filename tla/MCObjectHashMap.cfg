SPECIFICATION Spec
CONSTANTS
    c1 = c1
    c2 = c2
    o1 = o1
    o2 = o2
    Object = {c1, c2, o1, o2}
    Condition = {c1, c2}
    Address = {4, 8, 12, 16}
    MIN_CAPACITY = 4
    MaxThreads = 4
    MaxEpoch = 1
SYMMETRY Symmetry
INVARIANTS TypeOK  
CONSTRAINT Placed
