CONSTANTS
    MaxBlock = 12
    Parents <- Ladder
    Start = 6
    Window = 5
    Margin = 1
    InFlight = 2
    MaxDrops = 2
    MaxErrors = 1
SPECIFICATION FairSpec
INVARIANTS
    WalkIsOrderly
PROPERTIES
    WalkIsComplete
    NoneIsAskedAgain
    WalkEnds
CHECK_DEADLOCK FALSE
