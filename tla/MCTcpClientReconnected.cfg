CONSTANTS
    MaxAttempts = 3
    MaxEndpoints = 2
SPECIFICATION Spec
INVARIANTS
    WorksWhenConnected
CHECK_DEADLOCK FALSE
