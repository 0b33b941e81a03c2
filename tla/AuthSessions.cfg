SPECIFICATION Spec
CONSTANTS
    None = None
    Members = {m1}
    Sids = {s1, s2}
    Procs = {p1, p2, p3}
    IdleTimeout = 1
    Lifetime = 1
    TokenTtl = 0
    MaxTime = 2
    MaxTokens = 1
    MaxResets = 1
    MaxRotations = 1
    MaxCrashes = 1
SYMMETRY MCSymmetry
CONSTRAINT MCCrowd
INVARIANTS
    RotatesCurrentSecret
    DeadlockShape
    OldPasswordOnlyByOverlap
PROPERTY KeepsPromise
CHECK_DEADLOCK FALSE
