SPECIFICATION FairSpec
CONSTANTS
    Backends = {"memory", "disk"}
    N = 3
    Capacity = 2
    RecvBatchMax = 2
    AckBatchMax = 2
    MaxCrashes = 1
CHECK_DEADLOCK FALSE
INVARIANTS TypeOK WedgeHolds LostOnlyBelowWedge StoppedAccounted NoAckDiscarded MemoryDrained
PROPERTIES NoWorkAfterWedge ShutdownEnds
