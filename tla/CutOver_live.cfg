SPECIFICATION FairSpec
CONSTANTS
    CutOverTypes = {"atomic", "two-step"}
    MaxAttempts = 1
    QueueCapacity = 1
    MaxWrites = 2
    FaultChoices = {{"lockDies", "query", "renameLost", "slowRename", "reconnect"}}
CHECK_DEADLOCK FALSE
INVARIANTS SuccessMeansSwap
PROPERTIES LockIsReleased AttemptsReturn
