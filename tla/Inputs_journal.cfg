SPECIFICATION FairSpec
CONSTANTS
    InputKinds = {"journal"}
    Capacity = 1
    MaxLines = 2
    MaxContents = 2
    MaxTrouble = 2
    EntryCapacity = 1
    MaxEntries = 4
    MaxCursorStarts = 1
    MaxCursorFaults = 1
    MaxConnections = 3
    MaxAccepts = 4
    MaxFrames = 2
CHECK_DEADLOCK FALSE
PROPERTY JournalStops
