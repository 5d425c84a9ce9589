CONSTANTS
    NULL = NULL  NONE = NONE  Ring = Ring
    x = x  y = y  Fresh = Fresh  h1 = h1  h2 = h2
    disk <- Disk
    inodes_per_bgroup = 4
    inodes_per_block = 2
    NDIR = 1
    apb = 2
    block_size = 2
    Files = {3, 6, 7, 8}
    Sizes = {1, 2, 3, 19, 40}
    Ats = {0, 2}
    Chunks = 3
    Lines = {0, 6, 7, 8, 15}
    Drivers = {0, 6}
    Drives = {0, 1}
    MOTOR_TIMEOUT = 2
    Timers = {1, 2}
    HANDLE_CYLINDER_RETRIES = 2
    SEEK_RETRIES = 2
    MaxIrqs = 2
    Base = 3
    Bufs = {0, 5, 13, 26, 27, 80}
    DmaSizes = {0, 1, 4, 9, 10}
    SECTORS_PER_TRACK = 3
    KIMG_SECTORS = 20
    heads = 2
    LOAD_SEG = 100
    PARA = 32
    SEGS = 677
    Handles = {h1, h2}
    MemFiles = {"f"}
    CharDevs = {"null"}
    BlockDevs = {"fd0"}
    Bytes = {x, y}
    Garbage = Fresh
    Lengths = {1, 2}
    Seeks = {0, 1, 7}
    WRAP = 8
    MaxSize = 4
    NoFile = NONE
    TERM_WIDTH = 3
    TERM_HEIGH = 2
    TAB_WIDTH = 2
    Chars = {"a"}
    MaxRows = 4
SPECIFICATION MCFairSpec
INVARIANTS
     ReadsBack FirstReadRight AllServed ShowsTail OneReader ImageInPlace
    OneTimer ResultsAreOwn WordsAsTyped PrintsItems
PROPERTIES DriversSettle TimesOut FaultContained TransfersInBuffer
CHECK_DEADLOCK FALSE
