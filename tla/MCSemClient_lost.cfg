CONSTANTS
    t1 = t1  t2 = t2  t3 = t3  s1 = s1  s2 = s2
    Tasks = {t1, t2, t3}
    Sems = {s1}
    Idle = Idle  Nobody = Nobody  Handlers = {}
    InitCount <- EmptyInit
    Masked = {}
    Calls <- RoleCalls
    TRIES = 2
    MaxCount = 2
SPECIFICATION Spec
INVARIANTS NoLostWakeup
CHECK_DEADLOCK FALSE
