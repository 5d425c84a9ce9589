CONSTANTS
    None = None
    Ids = {a1, a2, a3, a4}
    Frames = {f1, f2, f3}
    Tasks = {t1, t2}
    SPACE = 5
    TABLE = 3
    WORD = 16
    Sizes = {1, 2, 3}
    INTERVAL = 2
    CALLS = 4
    SlabWaits = TRUE
    Preempts = FALSE
SPECIFICATION Spec
INVARIANTS AreasDisjoint
CHECK_DEADLOCK FALSE
