CONSTANTS
    f1 = f1  f2 = f2  f3 = f3
    h1 = h1  h2 = h2
    t1 = t1
    None = None
    Task = {t1}
    Kinds = {"work", "supervisor", "teab"}
    Slot = {f1, f2, f3}
    Hub = {h1, h2}
    HubOf <- TwoHubs
    Limit <- OfEach
SPECIFICATION FairSpec
CHECK_DEADLOCK FALSE
INVARIANTS
    TypeOK
    DispatchedOnce
    HaltNeverBurns
PROPERTIES
    OnceFires
    RunSettles
