SPECIFICATION Spec
CONSTANTS
    Procs = {p1}
    Windows = {w1, w2, w3}
    MaxTime = 4
    DayLen = 3
    MinuteLen = 1
    SixPm = 2
    Shift <- MCShift
    None = None
SYMMETRY Symmetry
INVARIANTS
    WellNested
    TotalsMatch
PROPERTIES
    ImplementsSheet
