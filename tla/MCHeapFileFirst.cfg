CONSTANTS
    Zero = Zero
    Content <- MCContent
    numBuffers = 5
    num_pages = 5
    CallerPages = {}
    RunSizes = {1}
    Faults = {}
    MaxPins = 1
    Slot = {0, 1}
    MaxRecs = 5
SPECIFICATION HeapSpec
INVARIANTS
    NoPinsLeft
