SPECIFICATION MCSpec
CONSTANTS
    n1 = n1
    n2 = n2
    k = k
    none = none
    Workers <- MCWorkers
    ControlWorkers <- MCControlWorkers
    Skew <- NoSkew
    MaxSkew = 0
    Types = {"stage", "pause", "cancel", "resume", "teardown_run_resources"}
    Lease = 2
    MaxBackoff = 1
    MaxCommands = 3
    MaxFaults = 1
SYMMETRY Symmetric
INVARIANTS
    CancelledNeverApplied
    
PROPERTIES
    SettledForGood
    
    
CHECK_DEADLOCK FALSE
