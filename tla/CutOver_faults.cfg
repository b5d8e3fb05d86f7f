SPECIFICATION Spec
CONSTANTS
    CutOverTypes = {"atomic", "two-step"}
    MaxAttempts = 2
    QueueCapacity = 2
    MaxWrites = 2
    FaultChoices = {{"begin"}, {"lockDies", "query", "begin", "renameLost"}}
CHECK_DEADLOCK FALSE
INVARIANTS TypeOK EventsUpToLockProcessed NoSendBlocks FailureMeansNoSwap
PROPERTIES NoWriteLost SwapsTables
