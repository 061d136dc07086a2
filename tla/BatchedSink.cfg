SPECIFICATION MCSpec
CONSTANTS
    Backends = {"memory", "disk"}
    N = 3
    BatchSizes = {1, 2}
    MaxAttempts = 2
CHECK_DEADLOCK FALSE
INVARIANTS TypeOK OwnedOnce NoFabricatedRecovery RecoveredIsOnRecord MetricsExact OwnershipBound
PROPERTIES ImplementsContract ShutdownResolves ConsumeReturns
