SPECIFICATION MCSpec
CONSTANTS
    p1 = p1
    p2 = p2
    Calls = {"first", "write"}
    Kind <- MCKind
    Callers = {"f1", "w1", "w2"}
    call <- MCCall
    Budget = 3
    MaxLapses = 1
    MaxCrashes = 1
    MaxStops = 1
    MaxEdits = 0
SYMMETRY Symmetric
INVARIANTS
    ToolsActOnce
    

    
    
CHECK_DEADLOCK FALSE
