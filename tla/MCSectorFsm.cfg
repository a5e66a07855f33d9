SPECIFICATION Spec
CONSTANTS
    MaxPreCommit1Retries = 1
    MaxPreCommit2Retries = 1
    MaxTrouble = 2
    MaxPending = 2
    MaxMsgs = 4
    Starts = {"deals", "cc", "receive"}
    UserOps = {"MarkForUpgrade", "AbortUpgrade", "Terminate", "Remove", "StartPacking"}
    Events = {"era", "expire", "move", "late", "faulty", "revert", "restart"}
INVARIANTS
    TypeOK
    NoDoubleSubmit
    HandlersReady
    
    NotAbandoned
    
CHECK_DEADLOCK FALSE
