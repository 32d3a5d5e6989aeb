INIT HostInit
NEXT HostNext
INVARIANTS
    
    
    
    TeamsAreExact
    HeapIsSound
CHECK_DEADLOCK FALSE
