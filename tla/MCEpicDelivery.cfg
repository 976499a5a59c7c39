SPECIFICATION MCSpec
CONSTANTS
    i1 = i1
    i2 = i2
    x1 = x1
    x2 = x2
    Executions = {"e1"}
    Items = {i1, i2}
    Dispatchers = {x1, x2}
    Order <- ChainOrder
    Deps <- ChainDeps
    Required = {i1, i2}
    Usages = {1}
    Ceilings = {1, 2}
    Overrides = FALSE
    BaseMoves = FALSE
    Actions = {}
    MaxRuns = 2
    MaxRunVersion = 2
    MaxControl = 3
    MaxConfig = 1
    MaxFaults = 1
    MaxClaims = 2
    None = None
    Unproved = Unproved
SYMMETRY Symmetric
PROPERTIES
    ChildrenInOrder
    AuthoringTruthful
    
CHECK_DEADLOCK FALSE
