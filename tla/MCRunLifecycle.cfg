SPECIFICATION Spec
CONSTANTS
    Digests = {d1, d2}
    LocalLimit = 1
    RemoteLimit = 1
    MaxRequests = 4
    MaxDrift = 1
    Requests = {"pause", "resume", "cancel", "request_plan_revision", "request_candidate_changes", "approve_plan", "approve_pr"}
SYMMETRY SameContents
INVARIANTS
    DecidedOnce
    WorkSafe
PROPERTIES
    ImplementsRow
    DecisionsFenced
CHECK_DEADLOCK FALSE
