SPECIFICATION Spec
CONSTANTS
    None = None
    Fields = {a, b}
    Values = {v0, v1}
    RoleLists = {l0, l1}
    Requests = {r1}
    Procs = {p1, p2}
    MaxVersion = 2
SYMMETRY MCSymmetry
INVARIANTS
    ReviewedIsApplied
PROPERTIES
    DecisionTouchesOnlyApproved
CHECK_DEADLOCK FALSE
