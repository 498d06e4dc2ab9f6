SPECIFICATION Spec
CONSTANTS
    Ids <- ThreeIds
    Users = {u1, u2}
    Reader = u1
    Limits <- OneOrTwo
    MaxTime = 2
    None = None
INVARIANTS
    TypeOK
    NothingIsMissed
    NothingIsRepeated
    NewestFirst
    OnlyOwnFiles
PROPERTIES
    WalksEnd
