SPECIFICATION FairSpec
CONSTANTS
    Outputs = {o1}
    OutputTypes = {"network", "stream", "file", "disk"}
    InputTypes = {"syslog_tcp", "journal"}
    N = 2
    Capacity = 1
    MaxReloads = 0
INVARIANTS
    TypeOK
PROPERTIES
    ShutdownCompletes
