SPECIFICATION MCSpec
CONSTANTS
    Procs = {p1, p2}
    Users = {ann, bob, cid}
    Threads = {c1, c2}
    MaxMsgs = 3
    MaxClock = 6
    None = None
SYMMETRY Symmetry
CHECK_DEADLOCK FALSE
INVARIANTS
    SentAfterIsCounted
PROPERTIES
    OneDmUnlessOverlapping
    SeenIsRead
