SPECIFICATION FairSpec
CONSTANTS
    Digests = {d1}
    LocalLimit = 1
    RemoteLimit = 1
    MaxRequests = 3
    MaxDrift = 0
    Requests = {"pause", "resume", "approve_plan"}
PROPERTIES ResumeReturns
CHECK_DEADLOCK FALSE
