CONSTANTS
    Thread = {a, b}
    Main = a
    Fct = {f, g, k}
    Optimized = {g}
    BootsCompile = k
    None = None
    MaxDepth = 3
SPECIFICATION FairSpec
INVARIANTS CompiledOnce 
PROPERTY BaselineWaiterResumes
CHECK_DEADLOCK FALSE
