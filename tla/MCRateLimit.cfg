SPECIFICATION Spec
CONSTANTS
    Keys = {k1}
    Limit = 2
    WindowSeconds = 2
    SecondLen = 2
    MaxTime = 9
    None = None
INVARIANTS
    CountsEveryGrant
    SlidingBound
    RetryWithinASecond
