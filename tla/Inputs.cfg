SPECIFICATION FairSpec
CONSTANTS
    InputKinds = {"tail", "journal", "eventlog", "syslog_tcp", "ltp", "udp", "unix_socket"}
    Capacity = 1
    MaxLines = 2
    MaxContents = 2
    MaxTrouble = 2
    EntryCapacity = 1
    MaxEntries = 3
    MaxCursorStarts = 2
    MaxCursorFaults = 1
    MaxConnections = 3
    MaxAccepts = 4
    MaxFrames = 2
CHECK_DEADLOCK FALSE
INVARIANTS TypeOK  SavedIsOfThisFile ListenersExact
PROPERTIES CatchesUp InputStops
