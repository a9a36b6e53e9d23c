SPECIFICATION MCSpec
CONSTANTS
    p1 = p1
    p2 = p2
    c1 = c1
    c2 = c2
    Procs = {p1, p2}
    Items = {"department", "agent", "profile", "task", "thread", "message", "entry"}
    Plan <- MCPlan
    Kind <- MCKind
    Threads = {c1, c2}
    MaxRows = 2
    None = None
INVARIANTS
    AgentHasProfile
PROPERTIES
    AllOrNothing
    OneRowUnlessOverlapping
    Idempotent
    SeedEnds
