SPECIFICATION Spec
CONSTANTS
    CutOverTypes = {"atomic"}
    MaxAttempts = 1
    QueueCapacity = 1
    MaxWrites = 0
    FaultChoices = {{"query"}}
CHECK_DEADLOCK FALSE
PROPERTIES OldTableKept
