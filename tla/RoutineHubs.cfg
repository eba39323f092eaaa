CONSTANTS
    s1 = s1  s2 = s2
    c1 = c1  c2 = c2  c3 = c3  c4 = c4
    h1 = h1  h2 = h2
    x1 = x1  x2 = x2
    None = None
    Session = {s1, s2}
    Cycle <- Cycles
    SessionOf <- Sessions
    PriorityOf <- Mixed
    Hub = {h1, h2}
    Scan = {x1, x2}
    Cap = 2
    DbFails = TRUE
    MaxRestarts = 1
SPECIFICATION Spec
CHECK_DEADLOCK FALSE
SYMMETRY Alike
INVARIANTS
    TypeOK
    OneCyclePerSession
    FleetCap
PROPERTIES
    ImplementsOneRun
