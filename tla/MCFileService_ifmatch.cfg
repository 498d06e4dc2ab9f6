SPECIFICATION HSpec
CONSTANTS
    Requests = {r1, r2}
    Ids = {i1}
    Users = {u1}
    p1 = p1
    p2 = p2
    cut = cut
    Payloads <- MCPayloads
    Cut = cut
    Size <- MCSize
    Crc <- MCCrc
    NoChecksum = ""
    Values = {v1}
    Conditions <- Conditional
    Patches <- TwoFields
    Backend = "memory"
    Faults = {}
    None = None
PROPERTY
    IfMatchGuardsContent
