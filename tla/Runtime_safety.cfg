SPECIFICATION Spec
CONSTANTS
    Outputs = {o1, o2}
    OutputTypes = {"network", "file", "disk"}
    InputTypes = {"syslog_tcp", "journal"}
    N = 1
    Capacity = 1
    MaxReloads = 1
INVARIANTS
    NothingVanishes
    FinishedIsQueued
