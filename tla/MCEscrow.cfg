CONSTANTS
    Outpoint = {"a1", "b1", "c", "g", "x", "i", "j"}
    Inference = {"i", "j"}
    WindowOf <- Windows
    AmountOf <- One
    ClaimFee = 0
    MaxClaimBatch = 3
    Block = {"A", "B", "C", "G", "X"}
    NoBlock = NoBlock
    BlockOf <- Blocks
    CurrentWindow = 4
    MaxInFlight = 2
    ClaimTimeout = 2
    CapExpiry = 2
    OrphanCooldown = 1
    SeqLockCooldown = 1
    RetryCooldown = 1
    MaxRetryCooldown = 2
    MaxOrphanRetries = 2
    CompactEvery = 2
    Far = 4
    MaxSubmitRetries = 1
    FinalAge = 2
    GapMargin = 2
    Scenarios <- AllScenarios
    MaxLate = 1
    MaxLen = 3
SPECIFICATION MCSpec
INVARIANTS
    LedgerIsSound
    ClaimableIsTracked
    AnswersAreEarned
    SelectionIsSound
PROPERTIES
    AcceptedIsClaimed
CHECK_DEADLOCK FALSE
