\* A private request and a public one; the second finds the queue full, and the
\* third meeting of a request finds the table of transactions full.
CONSTANTS
    Request = {"r1", "r2"}
    Private = {"r1"}
    OtherKinds = {"public"}
    Rewarded = {"r1", "r2"}
    None = None
    QueueCap = 1
    SeenCap = 2
    MaxAttempts = 2
    WritesFail = FALSE
    MaxScans = 3
    MaxLosses = 1
SPECIFICATION FairSpec
INVARIANTS
    BooksAgree
    WireIsOnDisk
PROPERTIES
    DoneOnce
    WorkEnds
