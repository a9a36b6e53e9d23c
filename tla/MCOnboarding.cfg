SPECIFICATION MCSpec
CONSTANTS
    Procs = {p1, p2}
    Emails = {boss, e1}
    SuperEmail = boss
    Roles = {"ADMIN", "EMPLOYEE", "AI_AGENT"}
    Invites = {i1, i2}
    Profiles = {x1, x2, x3, x4}
    None = None
SYMMETRY Symmetry
INVARIANTS
    ProfileFollowsRole
    GrantsWithinAuthority
    InviteOnly
    InvitePerRequest
