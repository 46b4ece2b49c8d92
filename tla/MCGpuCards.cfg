CONSTANTS
    Card = {0, 1}
    Model = {"a", "b"}
    Server = {s}
    Prober = p
    None = None
    Lineup <- Crossing
    TierIndex <- Tiers
    PadEra = 2
    MaxRecoveries = 1
    EngineFaults = {"load","library","context","generate"}
    MinerFaults = {"index","gates","other","oom"}
    Rigs <- AllRigs
SPECIFICATION FairSpec
INVARIANTS
    WalksLiveWeights
PROPERTIES
    ServingEnds
    WithdrawnIsProbed
    MiningResumes
CHECK_DEADLOCK FALSE
