CONSTANTS
    t1 = t1
    t2 = t2
    Threads = {t1, t2}
    QueueSize = 5
    Sizes = {2}
    MaxIndex = 8
SPECIFICATION SdmaSpec
INVARIANTS
    AnnouncedIsPlaced
    NoOverrun
    PacketsAreContiguous
    
    
PROPERTY EveryOperationEnds
CHECK_DEADLOCK FALSE
