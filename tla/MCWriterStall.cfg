CONSTANTS
    Transports = {"client"}
    Capacity = 2
    MaxBytes = 4
    MaxLen = 2
    WholeWrites = TRUE
    MayFail = FALSE
    MayStop = FALSE
SPECIFICATION FairSpec
PROPERTIES
    EverythingSent
CHECK_DEADLOCK FALSE
