\* A call dies, or is refused at the end, while its operation is running.
SPECIFICATION Spec
CONSTANTS
    Keys = {k1}
    Contents = {c1}
    Calls = {p1}
    None = None
    Partial = Partial
    MaxCalls = 2
    MaxMoves = 0
INVARIANTS
    PartialSuccessContinues
CHECK_DEADLOCK FALSE
