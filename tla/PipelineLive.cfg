CONSTANTS
    s1 = s1
    r1 = r1  r2 = r2  r3 = r3  r4 = r4
    t1 = t1  t2 = t2  t3 = t3  t4 = t4
    None = None
    Session = {s1}
    Token = {t1, t2, t3, t4}
    Request <- Requests3
    SessionOf <- OneSession3
    TokenOf <- Retry3
    MaxWaiters = 1
    Machine = {}
    Counted = {}
    Spawner = {}
    Narrator = {}
    LifetimeCap = 1
    MaxDrops = 0
    EarlyEvents = FALSE
    GatesThrow = FALSE
    Hangs = FALSE
SPECIFICATION FairSpec
PROPERTIES
    ImplementsOneRun
    DispatchSettles
