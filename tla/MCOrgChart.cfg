SPECIFICATION MCSpec
CONSTANTS
    Procs = {p1, p2}
    Users = {u1, u2, u3}
    Departments = {d1, d2, d3}
    Names = {"ROOT", "Root", "ops"}
    Root = "ROOT"
    Lower <- MCLower
    None = None
SYMMETRY Symmetry
INVARIANTS
    NamesApart
    MissingInCircles
PROPERTIES
    OnlyAsAsked
