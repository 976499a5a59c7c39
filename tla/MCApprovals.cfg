SPECIFICATION MCSpec
CONSTANTS
    s1 = s1
    s2 = s2
    none = none
    Issues = {"c", "d"}
    Authorizations = {"a1", "a2", "a3"}
    Sessions = {"s", "t"}
    session <- MCSession
    token <- MCToken
    MaxVersion = 3
    MaxExpired = 1
SYMMETRY Symmetric
INVARIANTS
    DecidedByOne
PROPERTIES
    AuthorizedInForce
    CheckpointsHold
CHECK_DEADLOCK FALSE
