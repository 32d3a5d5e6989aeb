CONSTANTS
    w1 = w1
    w2 = w2
    NoWave = NoWave
    Waves = {w1, w2}
    Depth = 4
    CtrMod = 8
    Lanes = {2}
    FetchCnt = 2
    Ops = {"rma", "amo", "single", "quiet"}
    MaxPost = 6
SPECIFICATION UsesSpec
SYMMETRY Symmetry
INVARIANTS
    PostedIntact
    QuietCompletes
    ReturnIsOwnInTime
    NothingHangs
CHECK_DEADLOCK FALSE
