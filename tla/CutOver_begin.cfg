SPECIFICATION FairSpec
CONSTANTS
    CutOverTypes = {"atomic"}
    MaxAttempts = 1
    QueueCapacity = 1
    MaxWrites = 1
    FaultChoices = {{"begin"}}
CHECK_DEADLOCK FALSE
PROPERTIES AttemptsReturn
