CONSTANTS
    Thread = {m, a, b}
    Main = m
    None = None
SPECIFICATION Spec
SYMMETRY Workers
INVARIANTS TypeOK WorldStopped NoUnexpectedState BarrierArmed ExactCount RootsVisible
PROPERTIES OnlyRequested ImplementsStopTheWorld
