SPECIFICATION FairSpec
CONSTANTS
    None = None
    MaxRetries = 1
    PosLimit = 9
    LongFile = 9
    PastKinds = {"dml"}
    MaxPast = 1
    MaxEvents = 4
    MaxFile = 2
    MaxErrors = 2
CHECK_DEADLOCK FALSE
INVARIANTS TypeOK IInv
PROPERTIES EveryEventOnce ListenerIsAdded EventsArrive
