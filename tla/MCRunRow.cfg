SPECIFICATION MCSpec
CONSTANTS
    Digests = {d1, d2}
    LocalLimit = 1
    RemoteLimit = 1
    MaxVersion = 15
INVARIANTS
    Loadable
    RemediationBounded
PROPERTIES
    SuspensionsReversible
    LifecycleLegal
    
CHECK_DEADLOCK FALSE
