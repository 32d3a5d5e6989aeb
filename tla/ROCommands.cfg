CONSTANTS
    w1 = w1
    w2 = w2
    ctx0 = ctx0
    ctx1 = ctx1
    default = default
    Waves = {w1}
    Lanes = 2
    Handles = {ctx0}
    HandlesOf <- OneContext
    DefaultHandles = {}
    NumRings = 1
    RingOf <- FirstRing
    QueueSize = 2
    Buffers = {}
    Types = {"PUT", "PUT_NBI", "GET", "GET_NBI", "AMO", "QUIET", "SYNC", "BARRIER", "TEAM_REDUCE", "TEAM_BROADCAST", "ALLTOALL"}
    Comms = {}
    MaxWrites = 4
    PollMax = 2
    TestWindow = 2
    NumPes = 2
SPECIFICATION FairSpec
INVARIANTS
    BlockingCallIsComplete
    StatusByteIsClean
    NoElementOverwritten
    TakenInOrder
    QuietCoversEarlierCommands
    QuietIsNeverStranded
PROPERTY EveryCallReturns
CHECK_DEADLOCK FALSE
