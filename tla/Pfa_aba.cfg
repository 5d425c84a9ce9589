CONSTANTS
    NULL = NULL
    Pages = {p1, p2, p3}
    Tasks = {a, b}
    Allocators = {a, b}
    Masked = {}
    Used = {}
    Cached = {}
SPECIFICATION Spec
INVARIANTS PagesOnce
