SPECIFICATION Spec
CONSTANTS
    World = 6
    PE_start = 1
    Stride = 2
    N = 3
    DirectLimit = 64
    Wg = TRUE
    Wfs = 2
    Inline = TRUE
    MaxRounds = 1
PROPERTIES EveryBarrierReturns
CHECK_DEADLOCK FALSE
