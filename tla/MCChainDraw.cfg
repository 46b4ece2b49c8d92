CONSTANTS
    Block = {"f", "g", "a1", "b1", "b2"}
    NoBlock = NoBlock
    Parent <- Parents
    Daa <- Scores
    First = "g"
    Response = {"r1", "r2"}
    AcceptingOf <- Accepting
    Delay = 1
    Page = 2
    Window = 1
    LogTail = 1
    MaxLosses = 1
    MaxErrors = 1
SPECIFICATION FairSpec
INVARIANTS
    LogIsTheChain
PROPERTIES
    OpeningIsCurrent
    AuditsAreOpened
