SPECIFICATION FairSpec
CONSTANTS
    Digests = {d1}
    LocalLimit = 1
    RemoteLimit = 1
    MaxRequests = 4
    MaxDrift = 0
    Requests = {"pause", "resume", "approve_plan", "approve_pr"}
PROPERTIES LifecycleProceeds
CHECK_DEADLOCK FALSE
