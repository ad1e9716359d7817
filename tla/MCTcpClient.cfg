CONSTANTS
    MaxAttempts = 3
    MaxEndpoints = 2
SPECIFICATION FairSpec
INVARIANTS
    TypeOK
    NeverDeafWhileRunning
PROPERTIES
    ClosedStaysClosed
    AttemptSettles
CHECK_DEADLOCK FALSE
