CONSTANTS
    Tasks = {t1, t2}
    TERM_WIDTH = 3
    TERM_HEIGH = 2
    TAB_WIDTH = 2
SPECIFICATION Spec
INVARIANTS PutsInside
