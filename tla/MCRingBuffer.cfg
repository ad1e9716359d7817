CONSTANTS
    Producers = {p1, p2, p3}
    Consumers = {c1, c2}
    Items = {x, y}
    NoItem = NoItem
    Capacity = 2
SPECIFICATION FairSpec
INVARIANTS
    NoMutualSleep
PROPERTIES
    FifoSpec
    SleepersServed
