CONSTANTS
    a = a  b = b  c = c  p1 = p1  p2 = p2   p4 = p4
    u1 = u1  u2 = u2  k1 = k1  b1 = b1  b2 = b2
    NULL = NULL
    Pages = {p1, p2, p4}
    Tasks = {a, b, c}
    Allocators = {a}
    Masked = {}
    Used = {p1}
    Cached = {p4}
    Bufs = {b1, b2}
    Users = {u1, u2}
    User <- MCUser
    Purgers = {k1}
    LowInGet = TRUE
    Freers = {u1}
    MaxFrees = 2
SPECIFICATION MCFairSpec
INVARIANTS PurgesSafe
PROPERTIES ImplementsPool LockFree CallsReturn
