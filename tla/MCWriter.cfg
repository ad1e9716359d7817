CONSTANTS
    Transports = {"client", "server", "serial"}
    Capacity = 2
    MaxBytes = 8
    MaxLen = 2
    WholeWrites = FALSE
    MayFail = TRUE
    MayStop = TRUE
SPECIFICATION FairSpec
INVARIANTS
    InFlightIsCurrent
    PopNeverBlocks
    NoLostKick
PROPERTIES
    StreamSpec
    SentFromIdle
CHECK_DEADLOCK FALSE
