CONSTANTS
    Thread = {a, b}
    Mutex = {m}
    Condition = {k}
    None = None
SPECIFICATION FairSpec
PROPERTIES MutexWakes 
CHECK_DEADLOCK FALSE
