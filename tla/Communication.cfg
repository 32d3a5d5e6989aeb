SPECIFICATION MCSpec
INVARIANTS
    
    NobodyIsStuck
    
    AtomicsAreExact
CHECK_DEADLOCK FALSE
