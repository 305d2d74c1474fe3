CONSTANTS
    Width = 2
    Stack <- MCStack
    StartV <- MCStartV
    Given <- MCGiven
    FragAuto <- NoAuto
    SlideAuto <- NoAuto
    StackAuto <- NoStackAuto
    Named <- NoNames
    SlideState <- NoAuto
    StackState <- NoStackAuto
    MaxEvents = 1
    Clients = {c1}
    MasterConfig <- MCConfig
    ClientConfig <- MCConfig
    Id = "ours"
    Strangers = {"other"}
    SpeakerStates <- MCSpeakerStates
    MaxInFlight = 2
    MaxOpeners = 1
SPECIFICATION MirrorSpec
CONSTRAINTS
    OneAudience
    StrangersHeard
    FewPending
INVARIANTS
    ClientsAgree
    NotesAgree
