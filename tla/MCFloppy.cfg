CONSTANTS
    x = x  y = y  z = z  NULL = NULL  Purged = Purged  Blank = Blank  Torn = Torn
    Disks = {x, z}
    floppy_formats <- Formats
    detect_order <- Order
    format <- DiskFormat
    Lbas = {0, 5, 512}
    Selected = {1}
    CYLINDER_CACHE_CYLS = 2
    RECALIBRATE_RETRIES = 2
    SEEK_RETRIES = 2
    HANDLE_CYLINDER_RETRIES = 2
SPECIFICATION FairSpec
INVARIANTS RightBlock
PROPERTIES CallsEnd
CHECK_DEADLOCK FALSE
