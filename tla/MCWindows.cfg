SPECIFICATION Spec
CONSTANTS
    MaxConsoles = 3
    MaxData = 3
    MaxAborted = 2
INVARIANTS
    TypeOK
    ShownOnce
    HarmHasItsCause
PROPERTIES
    ExitEnds
CHECK_DEADLOCK FALSE
