CONSTANTS
    c1 = c1
    Content = {c1}
    Zero = Zero
    numBuffers = 2
    num_pages = 4
    RunSizes = {1, 2}
    Faults <- MCFaults
    CallerPages = {2}
    MaxPins = 2
SPECIFICATION Spec
INVARIANTS
    PinsCounted
    PinnedStays
    VictimIfUnpinned
PROPERTIES
    ImplementsPageStore
