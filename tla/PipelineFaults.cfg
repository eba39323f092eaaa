CONSTANTS
    s1 = s1
    r1 = r1  r2 = r2  r3 = r3  r4 = r4
    t1 = t1  t2 = t2  t3 = t3  t4 = t4
    None = None
    Session = {s1}
    Token = {t1, t2, t3, t4}
    Request <- Requests2
    SessionOf <- OneSession2
    TokenOf <- Distinct2
    MaxWaiters = 1
    Machine = {r1, r2}
    Counted = {r1, r2}
    Spawner = {r1}
    Narrator = {r1}
    LifetimeCap = 1
    MaxDrops = 2
    EarlyEvents = TRUE
    GatesThrow = TRUE
    Hangs = TRUE
SPECIFICATION Spec
INVARIANTS
    SendRespectsHalt
    SendRespectsCap
    ChargedExactly
    ParkedOnce
