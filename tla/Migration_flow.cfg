SPECIFICATION FairSpec
CONSTANTS
    MaxRetries = 2
    MaxRuns = 2
    Faults = {"query", "hook", "swapUnseen", "rollback", "panic", "killed"}
CHECK_DEADLOCK FALSE
INVARIANTS TypeOK InPlaceIsComplete SomethingIsKept ExitZeroMeansDone ReplicationRuns
PROPERTIES PostponedWhileFileExists RunEnds
