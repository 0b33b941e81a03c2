SPECIFICATION Spec
CONSTANTS
    f1 = f1
    f2 = f2
    f3 = f3
    i1 = i1
    i2 = i2
    None = None
    Files = {f1, f2, f3}
    Items = {i1, i2}
    Hashes = {h1}
    Procs = {p1, p2, p3}
    MaxFaults = 1
    ImportFileItem <- MCImportFileItem
    ImportItemHash <- MCImportItemHash
SYMMETRY MCSymmetry
INVARIANTS
    RowsAgree
    MissingOnlyWhereRaced
    OrphansAccounted
    ChecksHoldUntilWrite
PROPERTIES
    KeepsContent
CHECK_DEADLOCK FALSE
