\* Two calls at once, repeated, dying, under two keys and with two contents.
SPECIFICATION Spec
CONSTANTS
    Keys = {k1, k2}
    Contents = {c1, c2}
    Calls = {p1, p2}
    None = None
    Partial = Partial
    MaxCalls = 4
    MaxMoves = 2
INVARIANTS
    TypeOK
    OneWriter
    CompletedAtOnce
    AvailableIsStored
    AnswersAgree
    DownloadsSpanNoMove
CHECK_DEADLOCK FALSE
SYMMETRY Symmetry
