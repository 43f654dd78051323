CONSTANTS
    x = x
    y = y
    z = z
    Object = {x, y, z}
    None = None
    Worker = {v, w}
    SEGMENT_SIZE = 1
    MarkedLimit = 1
    KeepLocal = 0
SPECIFICATION MCSpec
INVARIANTS TypeOK EndsTogether
PROPERTIES ImplementsTracing AllMarked
