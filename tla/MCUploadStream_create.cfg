SPECIFICATION Spec
CONSTANTS
    Kinds = {"create"}
    MaxMessages = 2
    MaxPieces = 1
    Faults = {"store_error"}
    None = None
CHECK_DEADLOCK FALSE
PROPERTY
    CreatesAreAnswered
