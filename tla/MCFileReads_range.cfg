SPECIFICATION RSpec
CONSTANTS
    Requests = {r1}
    Readers = {v1}
    Ids = {i1}
    Users = {u1}
    Viewers = {u1, u2}
    p1 = p1
    p3 = p3
    cut = cut
    Payloads <- MCPayloads
    Cut = cut
    Size <- MCSize
    Crc <- MCCrc
    NoChecksum = ""
    Values = {"public", "internal", "private"}
    Conditions <- Unconditional
    Patches <- OneField
    Asks <- RangeAsk
    Backend = "memory"
    Faults = {}
    None = None
INVARIANT
    RangeReadsReturn
