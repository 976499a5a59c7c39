SPECIFICATION MCSpec
CONSTANTS
    None = None
    Unproved = Unproved
    Procs = {"p", "q"}
    Runs = {"r", "s"}
    Refusing = {"s"}
    MaxGeneration = 3
    MaxFaults = 2
INVARIANTS
    ReopensHeld
    
PROPERTIES
    InterruptedNotDispatched
    
CHECK_DEADLOCK FALSE
