CONSTANTS
    Thread = {a, b}
    Main = a
    Fct = {f, k}
    Optimized = {f}
    BootsCompile = k
    None = None
    MaxDepth = 4
SPECIFICATION FairSpec
PROPERTY WaiterResumes
CHECK_DEADLOCK FALSE
