CONSTANTS
    Outpoint = {"g", "x"}
    Inference = {}
    WindowOf <- Windows
    AmountOf <- One
    ClaimFee = 0
    MaxClaimBatch = 4
    Block = {"A", "B", "G", "X"}
    NoBlock = NoBlock
    BlockOf <- Blocks
    CurrentWindow = 4
    MaxInFlight = 1
    ClaimTimeout = 2
    CapExpiry = 2
    OrphanCooldown = 1
    SeqLockCooldown = 1
    RetryCooldown = 1
    MaxRetryCooldown = 2
    MaxOrphanRetries = 3
    CompactEvery = 2
    Far = 8
    MaxSubmitRetries = 1
    FinalAge = 2
    GapMargin = 2
    Scenarios <- Settling
    MaxLate = 1
    MaxLen = 0
SPECIFICATION MCFairSpec
PROPERTIES
    ClaimsSettle
