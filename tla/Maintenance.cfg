SPECIFICATION Spec
CONSTANTS
    None = None
    Jobs = {j1, j2}
    Backups = {b1}
    Others = {}
    Light = TRUE
    MaxDumps = 2
    MaxFaults = 1
    MaxTimeouts = 1
SYMMETRY MCSymmetry
INVARIANTS
    SuccessMeansRestored
    RestWithWholeDump
    NothingOlderThanMirrored
    OneJobPerTimeout
    SavedHistoryIsBack
