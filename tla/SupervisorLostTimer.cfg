CONSTANTS
    r1 = r1  r2 = r2  r3 = r3
    p1 = p1  p2 = p2
    None = None
    Run = {r1, r2}
    Repo = {p1}
    RepoOf <- OneRepo
    MaxConcurrent = 1
    MaxRestarts = 2
    Threshold = 3
    MaxProbes = 1
    BackoffEvents = TRUE
    BridgeFails = FALSE
SPECIFICATION Spec
CHECK_DEADLOCK FALSE
INVARIANTS
    NoOrphanBridge
