SPECIFICATION MCSpec
CONSTANTS
    Requests = {"ex1", "ex2", "rot1", "rot2"}
    kind <- MCKind
    target <- MCTarget
    fresh <- MCFresh
    Bootstraps = {"b", "b1", "b2"}
    Sessions = {"s0", "s1", "s2"}
    MaxExpired = 1
INVARIANTS
    BootstrapOnce
    RotationRevokes

    
CHECK_DEADLOCK FALSE
