SPECIFICATION Spec
CONSTANTS
    Wfs = 2
    MaxPuts = 2
INVARIANTS UpdatesAreComplete
