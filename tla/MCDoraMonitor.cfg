CONSTANTS
    Thread = {a, b, c}
    Mutex = {m}
    Condition = {k}
    None = None
SPECIFICATION Spec
SYMMETRY Threads
INVARIANTS OwnerAsserts WaitlistShape NoLostWakeup
PROPERTIES ImplementsMonitor
CHECK_DEADLOCK FALSE
