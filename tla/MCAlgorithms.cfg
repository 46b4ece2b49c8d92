\* Walks of three steps over models of 3 to 9 chunks; audits of small models;
\* bytes of 14 values and hashes of two bytes; three miners.
SPECIFICATION MCSpec
CONSTANTS
    B3Chunk = 2
    Interval = 2
    MemoMax = 4
    Ggufs <- MCGgufs
    MaxUses = 2
    Steps = 3
    Openings = 2
    TileDepth = 2
    ColDepth = 1
    PadTiles = 2
    Space = 101
    Candidates <- MCCandidates
    Jobs <- MCJobs
    P = 101
    WChunk = 2
    Block = 1
    RowPad = 2
    FragmentBlocks = 2
    Ubatch = 2
    MmvqMaxBatch = 1
    PeakOverMedian = 90
    WeightSteps = 3
    PrefixLen = 2
    BlockBudget = 10
    RecurRows = 1
    Radix = 14
    HashLen = 2
    SignatureLen = 3
    MaxBodyLen = 400
    BundleMark = 13
    Magic <- MCMagic
    MaxRequestLen = 30
    MaxChallengeLen = 40
    MaxInlineLen = 3
    NonceLen = 1
    TagLen = 2
    MaxRecipients = 2
    PrivateMagic <- MCPrivateMagic
    BodyMark = 12
    TraceMark = 13
    Miner <- MCMiner
    Prompts <- MCPrompts
    Headers <- MCHeaders
    RecipientLen = 1
    FixedLen = 3
    MaxPayloadLen = 6
INVARIANTS
    PathsAreOfTheModel
    BlocksAreProved
    HonestRunsAreAccepted
    DeviationsAreCaught
    BodiesAreRead
    SealedForItsReader
CHECK_DEADLOCK FALSE
