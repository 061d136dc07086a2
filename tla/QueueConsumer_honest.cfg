SPECIFICATION Spec
CONSTANTS
    Backends = {"disk"}
    N = 2
    Capacity = 1
    RecvBatchMax = 2
    AckBatchMax = 2
    MaxCrashes = 0
CHECK_DEADLOCK FALSE
INVARIANTS CursorHonest
