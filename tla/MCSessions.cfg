SPECIFICATION MCSpec
CONSTANTS
    Procs = {p1, p2}
    Browsers = {b1, b2}
    Users = {u1}
    Subs = {s1, s2}
    Tokens = {t1, t2, t3}
    None = None
SYMMETRY Symmetry
INVARIANTS
    ParentRevoked
    SuccessorPerRequest
    NotStranded
    LateIssueBounded
PROPERTIES
    SubStable
