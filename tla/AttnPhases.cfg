CONSTANTS
    Block = {"g", "s", "a1", "a2", "c2", "c3", "c4"}
    NoBlock = NoBlock
    Parent <- Parents
    Daa <- Scores
    Delay = 1
    First = "g"
    Accepting = {"g"}
    ChildOf <- Children
    Depth = 2
    FirstWindow = 3
    PhaseWindow = 1
    Slack = 1
    BacklogCap = 2
    Unopened = 4
    Listing = TRUE
    Past = Past
    NoTx = NoTx
    Unmined = Unmined
    Gone = Gone
    None = None
    MaxLosses = 1
    MaxErrors = 1
SPECIFICATION FairSpec
INVARIANTS
    PhasesAreOfTheChain
PROPERTIES
    AwaitedIsSubmitted
CHECK_DEADLOCK FALSE
