CONSTANTS
    CPU <- MCCPU
    IrqCPU <- MCIrqCPU
    N = 2
    Keys <- MCKeys
    ReadSizes = {0, 2}
    DevMax = 1
SPECIFICATION FairSpec
INVARIANTS
    LineEnd
PROPERTIES
    ImplementsLineBuffer
    ReaderServed
CHECK_DEADLOCK FALSE
