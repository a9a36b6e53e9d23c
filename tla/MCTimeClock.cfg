SPECIFICATION Spec
CONSTANTS
    Procs = {p1, p2}
    Windows = {w1, w2}
    MaxTime = 1
    DayLen = 1
    MinuteLen = 1
    SixPm = 1
    Shift <- MCShift
    None = None
SYMMETRY Symmetry
INVARIANTS
    OpenEntryPerRequest
    OpenWindowPerRequest
