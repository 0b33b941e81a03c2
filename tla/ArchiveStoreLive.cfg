SPECIFICATION FairSpec
CONSTANTS
    f1 = f1
    f2 = f2
    f3 = f3
    i1 = i1
    i2 = i2
    None = None
    Files = {f1, f2, f3}
    Items = {i1, i2}
    Hashes = {h1}
    Procs = {p1, p2}
    MaxFaults = 0
    ImportFileItem <- MCImportFileItem
    ImportItemHash <- MCImportItemHash
PROPERTIES
    StrandedItemRemoved
CHECK_DEADLOCK FALSE
