CONSTANTS
    w1 = w1
    w2 = w2
    ctx0 = ctx0
    ctx1 = ctx1
    default = default
    Waves = {w1, w2}
    Lanes = 1
    Handles = {default, ctx0}
    HandlesOf <- DefaultAndFirst
    DefaultHandles = {default}
    NumRings = 1
    RingOf <- SharedRing
    QueueSize = 2
    Buffers = {b1, b2}
    Types = {"PUT_NBI"}
    Comms = {}
    MaxWrites = 4
    PollMax = 2
    TestWindow = 2
    NumPes = 2
SPECIFICATION Spec
INVARIANT NoElementOverwritten
CHECK_DEADLOCK FALSE
