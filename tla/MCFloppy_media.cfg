CONSTANTS
    x = x  y = y  z = z  NULL = NULL  Purged = Purged  Blank = Blank  Torn = Torn
    Disks = {x, y}
    floppy_formats <- Formats
    detect_order <- Order
    format <- DiskFormat
    Lbas = {0, 5}
    Selected = {1}
    CYLINDER_CACHE_CYLS = 2
    RECALIBRATE_RETRIES = 1
    SEEK_RETRIES = 1
    HANDLE_CYLINDER_RETRIES = 2
SPECIFICATION Spec
INVARIANTS InsertedDisk

CHECK_DEADLOCK FALSE
