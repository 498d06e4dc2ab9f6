SPECIFICATION HSpec
CONSTANTS
    Requests = {r1, r2}
    Ids = {i1, i2}
    Users = {u1, u2}
    p1 = p1
    p2 = p2
    cut = cut
    Payloads <- MCPayloads
    Cut = cut
    Size <- MCSize
    Crc <- MCCrc
    NoChecksum = ""
    Values = {v1}
    Conditions <- Unconditional
    Patches <- TwoFields
    Backend = "gcs"
    Faults = {"crash", "bad_body", "db_error", "store_error"}
    None = None
SYMMETRY Symmetry
INVARIANTS
    TypeOK
    RowsHaveBytes
    RefusedLeavesNoTrace
    RowDescribesBytes
PROPERTIES
    OnlyOwnersWrite
    ImplementsCatalog
