SPECIFICATION FairSpec
CONSTANTS
    None = None
    Jobs = {j1}
    Backups = {b1}
    Others = {o1}
    Light = FALSE
    MaxDumps = 3
    MaxFaults = 1
    MaxTimeouts = 0
PROPERTIES
    RepairedByLaterNight
