CONSTANTS
    NoWave = NoWave
    NoBuffer = NoBuffer
    Waves = {w1, w2}
SPECIFICATION ProvidersSpec
SYMMETRY Symmetry
INVARIANTS
    ProvidersTypeOK
    WqesIntact
    QuietCompletes
    ReturnIsOwn
    AdapterStateInOrder
CHECK_DEADLOCK FALSE
