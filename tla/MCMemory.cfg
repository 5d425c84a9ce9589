CONSTANTS
    p1 = p1  p2 = p2  p3 = p3  p4 = p4  p5 = p5  bootstrap = bootstrap  t1 = t1  f1 = f1
    f2 = f2  f3 = f3  a1 = a1  a2 = a2  a3 = a3  a4 = a4  None = None
SPECIFICATION Spec
INVARIANTS RamPartition SlabPartition AreaPartition UserPagesRight
PROPERTIES DefragMerges
CHECK_DEADLOCK FALSE
SYMMETRY Symmetry
