SPECIFICATION MCSpec
CONSTANTS
    Tasks = {"p", "w", "v"}
    Primary = "p"
    Readers = {}
    Region = {1, 2}
    Owned <- MCOwned
    Effects = {"wcommit", "vwrite"}
    TaskOf <- MCTaskOf
    KindOf <- MCKindOf
    Limit = 2
    Stoppable = {}
    Suspensions = {}
    MaxLeases <- MCLeases
    MaxRepairs = 0
    MaxEpoch = 0
    MaxCallers = 1
    Faults = TRUE
INVARIANTS
    EffectsExclude
    PrimaryInformed
PROPERTIES
    ResultsFenced
    OtherTasksToo
CHECK_DEADLOCK FALSE
