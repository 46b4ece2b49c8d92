CONSTANTS
    Task = {t}
    None = None
    ChanSize = 1
    WireSize = 1
    MaxKeepalives = 1
    Pools <- Reading
SPECIFICATION FairSpec
INVARIANTS
    RequestsAreKept
    CidIsOfItsJob
PROPERTIES
    SilenceIsNoticed
CHECK_DEADLOCK FALSE
