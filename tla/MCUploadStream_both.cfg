SPECIFICATION Spec
CONSTANTS
    Kinds = {"create", "update"}
    MaxMessages = 3
    MaxPieces = 2
    Faults <- AllFaults
    None = None
CHECK_DEADLOCK FALSE
INVARIANTS
    TypeOK
    RecordedIsWhole
    AnswerIsTrue
    StuckOnlyInCreate
PROPERTIES
    ImplementsUpload
    UpdatesAreAnswered
