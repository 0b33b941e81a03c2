SPECIFICATION FairSpec
CONSTANTS
    None = None
    Members = {m1}
    Sids = {s1}
    Procs = {p1, p2}
    IdleTimeout = 1
    Lifetime = 1
    TokenTtl = 0
    MaxTime = 2
    MaxTokens = 1
    MaxResets = 1
    MaxRotations = 1
    MaxCrashes = 0
PROPERTIES
    EveryRequestAnswered
    ReuseEndsSession
CHECK_DEADLOCK FALSE
