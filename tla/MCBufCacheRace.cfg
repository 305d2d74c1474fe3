CONSTANTS
    t1 = t1
    t2 = t2
    b1 = b1
    b2 = b2
    b3 = b3
    m1 = m1
    m2 = m2
    None = None
    Task <- MCTask
    Block <- MCBlock
    Buffer <- MCBuffer
    NE = 2
SPECIFICATION Spec
INVARIANTS
    RefCount
