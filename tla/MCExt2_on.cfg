CONSTANTS
    disk <- Disk
    inodes_per_bgroup = 4
    inodes_per_block = 2
    NDIR = 1
    apb = 2
    block_size = 2
    Files = {6}
    Sizes = {2}
    Ats = {}
    Chunks = 3
    NONE = NONE
SPECIFICATION Spec
INVARIANTS ReadFromAnywhere
CHECK_DEADLOCK FALSE
