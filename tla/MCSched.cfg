CONSTANTS
    t1 = t1  t2 = t2  t3 = t3  s1 = s1  s2 = s2
    Tasks = {t1, t2, t3}
    Sems = {s1, s2}
    Idle = Idle  Nobody = Nobody  Handlers = {}
    InitCount <- OneInit
    Masked = {t1, t2, t3}
    Calls <- AllCalls
    TRIES = 2
    MaxCount = 2
    a = a  b = b  c = c  d = d
    Reaper = Reaper  None = None
SPECIFICATION MCFairSpec
INVARIANTS SyncTypeOK NoLostWakeup WaitersExact WaiterHasWaitee WaitReturnsRet SleepsUntilDeadline
PROPERTIES CountingSemaphore WokenInOrder NoStarvation
CHECK_DEADLOCK FALSE
