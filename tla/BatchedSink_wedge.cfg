SPECIFICATION Spec
CONSTANTS
    Backends = {"disk"}
    N = 2
    BatchSizes = {1}
    MaxAttempts = 2
CHECK_DEADLOCK FALSE
INVARIANTS NoSendAfterWedge
