SPECIFICATION Spec
CONSTANTS
    QueueSize = 4
    Sizes = {1, 2}
    MaxIndex = 14
PROPERTY EveryPutReturns
CHECK_DEADLOCK FALSE
