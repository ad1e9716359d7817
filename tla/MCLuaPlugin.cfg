SPECIFICATION Spec
CONSTANTS
    MaxSize = 3
    Points = {1, 2}
    MaxPosted = 2
    MaxRequests = 1
INVARIANTS
    TypeOK
    LuaOfOneThread
    PlotShowsLatest
PROPERTIES
    HandlersRun
CHECK_DEADLOCK FALSE
