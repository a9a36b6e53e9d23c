SPECIFICATION MCSpec
CONSTANTS
    Procs = {p1}
    Emails = {boss, e1}
    SuperEmail = boss
    Roles = {"ADMIN"}
    Invites = {}
    Profiles = {}
    None = None
SYMMETRY Symmetry
PROPERTIES
    SeedFirst
