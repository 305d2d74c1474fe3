CONSTANTS
    Dependencies <- MCDependencies
    Async = {"search", "notes"}
    Unwanted = {"notes"}
    Label <- MCLabel
    File <- MCLabel
    Texts <- MCTexts
    Words = {"common", "rare"}
    Matches <- MCMatches
    Shown <- MCShown
    MaxFrames = 2
    Width = 3
    Stack <- MCStack
    Kind <- MCKind
    Autoplay <- MCAutoplay
    Ignored <- NoIgnored
    InFragment <- MCInFragment
    Filmed <- MCFilmed
    ViewDistance = 2
    OverviewDistance = 10
SPECIFICATION MCSpec
INVARIANTS
    StartAfterScripts
    SectionsCover
    PagesComplete
    TimersMatch
    CurrentPlays
    LazyFramesGone
PROPERTIES
    GetsReady
    EnterVisitsNext
CHECK_DEADLOCK FALSE
