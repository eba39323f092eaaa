CONSTANTS
    r1 = r1  r2 = r2  r3 = r3
    p1 = p1  p2 = p2
    None = None
    Run = {r1, r2}
    Repo = {p1}
    RepoOf <- OneRepo
    MaxConcurrent = 1
    MaxRestarts = 2
    Threshold = 2
    MaxProbes = 2
    BackoffEvents = TRUE
    BridgeFails = TRUE
SPECIFICATION FairSpec
CHECK_DEADLOCK FALSE
INVARIANTS
    ProbeNotPinned
PROPERTIES
    BreakerHeals
    RunSettles
