SPECIFICATION Spec
CONSTANT ImageCount = 3
INVARIANTS
    TypeOK
    SemaphoresSignalledOnce
    GpuLeftAlone
PROPERTIES
    FramesGoOn
CHECK_DEADLOCK FALSE
