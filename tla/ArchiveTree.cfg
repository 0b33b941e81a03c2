SPECIFICATION Spec
CONSTANTS
    Dirs = {a, b, c}
    Files = {f}
    Keys = {k1, k2}
    Grants <- AtMostOne
    Requests = {p, q}
    None = None
    Gone = Gone
    MaxAsked = 3
SYMMETRY Alike
INVARIANTS CyclesOnlyByOverlap KeysOfLastSaves EverythingHasAPlace ReadPathsAgree InheritsAcrossGaps
CHECK_DEADLOCK FALSE
