SPECIFICATION Spec
CONSTANTS
    None = None
    Open = Open
    a = a
    b = b
    chair = chair
    m1 = m1
    m2 = m2
    Members = {a, b}
    Procs = {p1, p2, p3}
    Roles = {chair}
    Emails = {m1, m2}
    Badges = {"l"}
    Names = {"n", "k"}
    LastDay = 1
    Forms <- MCForms
SYMMETRY MCSymmetry
CONSTRAINT MCBound
INVARIANTS
    CyclesOnlyByOverlap
    OneHolderUnlessRaced
    HistoryTellsOffices
    StatusRulesUnlessRaced
CHECK_DEADLOCK FALSE
