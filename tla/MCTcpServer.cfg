CONSTANTS
    MaxStarts = 2
    MaxClients = 2
SPECIFICATION FairSpec
INVARIANTS
    TypeOK
    NoDeafClient
    ListeningAccepts
    StopIsThorough
    ConsolesHaveClients
PROPERTIES
    LostClientRemoved
CHECK_DEADLOCK FALSE
