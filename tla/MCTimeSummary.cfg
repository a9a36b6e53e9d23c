SPECIFICATION EntrySpec
CONSTANTS
    MaxTick = 9
    MaxWindows = 2
    MinuteLen = 2
    DayLen = 6
    SixPm = 4
    Shifts <- MCShifts
INVARIANTS
    WorkedWithinRounding
    OvertimeWithinSpan
    SkippingBreaksGainsNothing
