\* Two outpoints; an entry is tracked, then changed by a rejection, then
\* claimed, the only content that compaction drops.
CONSTANTS
    Key = {o1, o2}
    Val = {"tracked", "capped", "claimed"}
    Done = {"claimed"}
    None = None
    TornWrites = TRUE
    Recovery = FALSE
    MaxSeq = 3
SPECIFICATION Spec
INVARIANTS
    FlushedIsDurable
