CONSTANTS
    Thread = {a, b, c}
    Size = {2, 4, 6}
    Align = 2
    ChunkSize = 5
    Total = 15
SPECIFICATION Spec
SYMMETRY Threads
INVARIANTS TypeOK LookupExact InsertsFresh WalkMeetsObjects
CHECK_DEADLOCK FALSE
