CONSTANTS
    MaxWork = 3
SPECIFICATION FairSpec
INVARIANTS
    TypeOK
    OpenIsServed
PROPERTIES
    DisconnectCloses
CHECK_DEADLOCK FALSE
