SPECIFICATION MCSpec
CONSTANTS
    Procs = {p1, p2}
    Users = {boss, worker}
    Managers = {boss}
    Admins = {boss}
    Tasks = {t1}
    Tickets = {k1}
    TaskStatuses = {"TODO", "IN_PROGRESS", "DONE", "BLOCKED"}
    TicketStatuses = {"OPEN", "IN_PROGRESS", "RESOLVED", "CLOSED"}
    None = None
SYMMETRY Symmetry
INVARIANTS
    CompletionStamped
    Mirrors
    DeletedForGood
PROPERTIES
    AssignedWhileActive
