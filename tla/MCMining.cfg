CONSTANTS
    Gpu = {g}
    Cpu = {c}
    None = None
    Quit = Quit
    Receiver <- Workers
    Value <- Values
    FirstValue = None
    MaxInflight = 2
    MaxJobs = 2
    Rigs <- AllRigs
SPECIFICATION FairSpec
INVARIANTS
    JobIsTheLatest
PROPERTIES
    LatestIsSeen
    ShutdownEnds
CHECK_DEADLOCK FALSE
