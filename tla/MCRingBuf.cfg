CONSTANTS
    t1 = t1  t2 = t2  t3 = t3  x = x
    Tasks = {t1, t2, t3}
    Writers = {}
    Readers = {t1, t2}
    Masked = {t1, t2, t3}
    Handlers = {h1, h2}
    Idle = Idle  Nobody = Nobody
    queue = queue  n_free = n_free  n_used = n_used
    Sems = {queue, n_free, n_used}
    InitCount <- MCInitCount
    TRIES = 2  Cap = 2
    Values = {x, y}
SPECIFICATION MCFairSpec
INVARIANTS MutualExclusion HandlerNeverSleeps
PROPERTIES ImplementsFifo SharedByTasks BytesFlow
CHECK_DEADLOCK FALSE
