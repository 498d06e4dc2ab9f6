SPECIFICATION Spec
CONSTANTS
    Writers = {w1, w2}
    Readers = {d1}
    Ids = {i1}
    Inodes = {n1, n2, n3}
    Bodies <- MCBodies
    Hole = "hole"
    Faults = {"bad_body", "disk_error", "db_error", "crash"}
    None = None
SYMMETRY Symmetry
INVARIANTS
    TypeOK
    RowDescribesFile
    FilesAreWhole
    FailedCreatesLeaveNoFile
    CalmDownloadsAreExact
