CONSTANTS
    Threads = {t1, t2, t3}
    Channels = 2
    MaxTicket = 7
    Buffer1 = Buffer1
    Buffer2 = Buffer2
    NoBuf = NoBuf
    PE_start = 1
    Stride = 2
    N = 4
    DirectLimit = 64
    MaxRounds = 3
SPECIFICATION SyncSpec
INVARIANTS
    MutualExclusion
    QuiescentIsClean
PROPERTIES
    FirstComeFirstServed
    ImplementsFifoLock
    PoolsAreFifo
    ImplementsBarrier
    EveryCallReturns
CHECK_DEADLOCK FALSE
