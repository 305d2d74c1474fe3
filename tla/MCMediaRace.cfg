CONSTANTS
    Width = 3
    Stack <- MCStack
    Kind <- MCKind
    Autoplay <- MCAutoplay
    Ignored <- NoIgnored
    InFragment <- MCInFragment
    Filmed <- MCFilmed
    ViewDistance = 2
    OverviewDistance = 10
SPECIFICATION MediaSpec
INVARIANTS
    OnlyCurrentPlays
