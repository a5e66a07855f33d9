SPECIFICATION FairSpec
CONSTANTS
    a1 = a1
    a2 = a2
    a3 = a3
    b2 = b2
    b3 = b3
    c3 = c3
    NoTs = NoTs
    TipSets <- MCTipSets
    Parents <- MCParents
    ParentWeight <- MCParentWeight
    Peers = {p1, p2}
    Workers = {w1, w2, w3}
    BootstrapPeerThreshold = 2
    MaxSyncWorkers = 2
    RecentSyncBufferSize = 2
INVARIANTS
    TypeOK
    PendAnchored
    WorkersBounded
    InitialSyncSingle
PROPERTIES
    NoResync
    PendingServed
    PendingResolved
CHECK_DEADLOCK FALSE
