CONSTANTS
    Width = 3
    Stack <- MCStack
    StartV <- MCStartV
    Given <- MCGiven
    FragAuto <- NoAuto
    SlideAuto <- MCSlideAuto
    StackAuto <- MCStackAuto
    Named <- MCNamed
    SlideState <- MCSlideState
    StackState <- MCStackState
    MaxEvents = 1
    Configs <- MCConfigs
    Hashes <- MCHashes
    SentStates <- MCSentStates
    MaxIndex = 5
SPECIFICATION Spec
INVARIANTS
    OnePresent
    FragmentsInOrder
    ProgressTrue
    EnabledArrowsWork
    PrevUndone
    AutoSlideRuns
    HashAgrees
