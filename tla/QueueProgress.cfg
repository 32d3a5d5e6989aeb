CONSTANTS
    NoWave = NoWave
    NoBuffer = NoBuffer
    Waves = {w1, w2}
SPECIFICATION ProgressSpec
INVARIANT IonicCqNeverFull
 
CHECK_DEADLOCK FALSE
