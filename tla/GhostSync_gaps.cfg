SPECIFICATION Spec
CONSTANTS
    KeyCount = 2
    Val = {v1, v2}
    None = None
    ChunkSize = 1
    DMLBatchSize = 2
    QueueCapacity = 3
    MaxRetries = 2
    MaxWrites = 3
    MovesKeys = FALSE
    CommitGap = TRUE
    FetchErrors = TRUE
CHECK_DEADLOCK FALSE
SYMMETRY Symmetry
INVARIANTS NoStaleRows EventsIntact
