SPECIFICATION FairSpec
CONSTANTS
    KeyCount = 3
    Val = {v1, v2}
    None = None
    ChunkSize = 2
    DMLBatchSize = 2
    QueueCapacity = 2
    MaxRetries = 1
    MaxWrites = 2
    MovesKeys = TRUE
    CommitGap = FALSE
    FetchErrors = FALSE
CHECK_DEADLOCK FALSE
INVARIANTS TypeOK Converged AllNecessaryRowsCopied IInv
PROPERTIES CatchesUp
