SPECIFICATION KSpec
CONSTANTS
    Requests = {r1, r2}
    Ids = {i1}
    Users = {u1, u2}
    p1 = p1
    p2 = p2
    cut = cut
    Payloads <- MCPayloads
    Cut = cut
    Size <- MCSize
    Crc <- MCCrc
    NoChecksum = ""
    Values = {v1}
    Conditions <- MatchP1
    Patches <- TwoFields
    Backend = "s3"
    Faults = {"cancel", "lost_answer"}
    Secrets = {k1, k2}
    None = None
SYMMETRY Symmetry
INVARIANTS
    KTypeOK
    LateKeysOpenNothing
    AcknowledgedFilesHaveBytes
    RefusedLeavesNoTrace
    RowDescribesBytes
PROPERTIES
    OnlyOwnersKeysWrite
    DeletedForGood
