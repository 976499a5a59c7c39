SPECIFICATION MCSpec
CONSTANTS
    Keys = {"push"}
    Requests = {"r1", "r2"}
    Calls = {"first", "second", "check", "startup"}
    Mode <- MCMode
    key <- MCKey
    AbsentFails = {}
INVARIANTS
    IntentHolds
    SuccessIsRecorded
PROPERTIES
    EffectHappensOnce
    
CHECK_DEADLOCK FALSE
